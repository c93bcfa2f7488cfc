-------------------------- MODULE SharedStateProofs --------------------------
(***************************************************************************)
(* Proofs about what the threads share, for any threads, descriptors, heap *)
(* addresses, names and sizes, and any number of connections.              *)
(* The registry: whoever calls its functions, in whatever order, a client  *)
(* that was obtained by descriptor is not freed under its user, and is     *)
(* freed once; the hash table under it is the map that it needs.           *)
(* The line buffer of a client: its searches stop, its lines are those of  *)
(* the stream.                                                             *)
(* The topic table: the arrays are the bounded relation Subscriptions.     *)
(***************************************************************************)
EXTENDS ClientInvariant, Registry, LineBuffer, TopicTable, FiniteSetTheorems,
        WellFoundedInduction, TLAPS

\* Most leaves need no arithmetic: Zenon, unless a leaf names SMT.
USE Zenon

----------------------------------------------------------------------------
(* Facts about structs and sockets. *)

\* Assigning one field keeps a struct a struct, and so does freeing it.
LEMMA StructFields ==
  ASSUME NEW s \in Structs
  PROVE  /\ \A b \in BOOLEAN : [s EXCEPT !.idle = b] \in Structs
         /\ \A u \in Thread \cup {NULL} : [s EXCEPT !.lock = u] \in Structs
         /\ \A h \in Hostname \cup {NULL} : [s EXCEPT !.hostname = h] \in Structs
BY DEF Structs

LEMMA FreedStruct == Freed \in Structs
BY ConnBound, SMT DEF Freed, Structs

\* The descriptor of an allocated struct is an open vault connection.
LEMMA OwnedFd ==
  ASSUME IInv, NEW q \in Client, heap[q].alloc
  PROVE  heap[q].fd \in Fd /\ sock[heap[q].fd] # Closed /\ sock[heap[q].fd].kind = "vault"
<1>1. heap[q].fd \in Fd /\ sock[heap[q].fd] = [kind |-> "vault", conn |-> heap[q].conn]
  BY DEF IInv, AllocatedIsOpen
<1>. QED  BY <1>1, SMT DEF Closed

----------------------------------------------------------------------------
(* Each operation keeps the invariant. *)

\* Time passing changes no lock, key or descriptor.
LEMMA grow_idle_keeps ==
  ASSUME IInv, NEW p \in Client, grow_idle(p)
  PROVE  IInv'
<1>1. cmTypeOK'
  <2>1. [heap[p] EXCEPT !.idle = TRUE] \in Structs
    BY StructFields DEF IInv, cmTypeOK
  <2>. QED  BY <2>1 DEF IInv, cmTypeOK, grow_idle
<1>2. WaitersKeepMap' /\ WalkersKeepMap'
  BY DEF IInv, WaitersKeepMap, WalkersKeepMap, Mapped, grow_idle
<1>3. AllocatedIsOpen'
  BY SMT DEF IInv, cmTypeOK, AllocatedIsOpen, Conn, grow_idle
<1>4. OneStructPerFd'
  BY SMT DEF IInv, cmTypeOK, OneStructPerFd, grow_idle
<1>5. KeysLeadToStructs'
  BY SMT DEF IInv, cmTypeOK, KeysLeadToStructs, grow_idle
<1>6. PrivateStructs'
  BY SMT DEF IInv, cmTypeOK, PrivateStructs, Private, Mapped, grow_idle
<1>7. HoldersOwnLocks'
  BY SMT DEF IInv, cmTypeOK, HoldersOwnLocks, grow_idle
<1>. QED  BY <1>1, <1>2, <1>3, <1>4, <1>5, <1>6, <1>7 DEF IInv

\* Accept returns a descriptor no allocated struct owns.
LEMMA accept_lobby_keeps ==
  ASSUME IInv, NEW f \in Fd, accept_lobby(f)
  PROVE  IInv'
<1>1. cmTypeOK'
  BY ConnBound, SMT DEF IInv, cmTypeOK, Sockets, Conn, accept_lobby, accept
<1>2. OneStructPerFd' /\ KeysLeadToStructs' /\ PrivateStructs' /\ HoldersOwnLocks' /\
      WaitersKeepMap' /\ WalkersKeepMap'
  BY DEF IInv, OneStructPerFd, KeysLeadToStructs, PrivateStructs, HoldersOwnLocks,
         WaitersKeepMap, WalkersKeepMap, Private, Mapped, accept_lobby
<1>3. AllocatedIsOpen'
  BY OwnedFd DEF IInv, cmTypeOK, AllocatedIsOpen, Conn, accept_lobby, accept
<1>. QED  BY <1>1, <1>2, <1>3 DEF IInv

\* A lobby descriptor is owned by no struct.
LEMMA close_lobby_keeps ==
  ASSUME IInv, NEW f \in Fd, sock[f].kind = "lobby", close_lobby(f)
  PROVE  IInv'
<1>1. cmTypeOK'
  BY DEF IInv, cmTypeOK, Sockets, close_lobby, close
<1>2. OneStructPerFd' /\ KeysLeadToStructs' /\ PrivateStructs' /\ HoldersOwnLocks' /\
      WaitersKeepMap' /\ WalkersKeepMap'
  BY SMT DEF IInv, OneStructPerFd, KeysLeadToStructs, PrivateStructs, HoldersOwnLocks,
         WaitersKeepMap, WalkersKeepMap, Private, Mapped, close_lobby
<1>3. AllocatedIsOpen'
  BY OwnedFd DEF IInv, cmTypeOK, AllocatedIsOpen, Conn, close_lobby, close
<1>. QED  BY <1>1, <1>2, <1>3 DEF IInv

\* The heartbeat only forgets a descriptor.
LEMMA sweep_next_keeps ==
  ASSUME IInv, NEW e \in fds_to_remove, sweep_next(e)
  PROVE  IInv'
<1>1. cmTypeOK'
  BY DEF IInv, cmTypeOK, sweep_next
<1>2. AllocatedIsOpen' /\ OneStructPerFd' /\ KeysLeadToStructs' /\ PrivateStructs' /\
      HoldersOwnLocks' /\ WaitersKeepMap' /\ WalkersKeepMap'
  BY DEF IInv, AllocatedIsOpen, OneStructPerFd, KeysLeadToStructs, PrivateStructs,
         HoldersOwnLocks, WaitersKeepMap, WalkersKeepMap, Private, Mapped, sweep_next
<1>. QED  BY <1>1, <1>2 DEF IInv

\* A fresh struct for a fresh descriptor, known to one thread.
LEMMA accept_vault_keeps ==
  ASSUME IInv, NEW t \in Thread, NEW f \in Fd, NEW p \in Client, accept_vault(t, f, p)
  PROVE  IInv'
<1>1. cmTypeOK'
  BY ConnBound, SMT DEF IInv, cmTypeOK, Sockets, Conn, Structs, accept_vault, accept, Goes
<1>2. AllocatedIsOpen'
  BY OwnedFd, ConnBound, SMT
     DEF IInv, cmTypeOK, AllocatedIsOpen, Conn, accept_vault, accept, Goes
<1>3. OneStructPerFd'
  <2>1. \A q \in Client : heap[q].alloc => heap[q].fd # f
    BY OwnedFd DEF accept_vault, accept
  <2>2. heap'[p].fd = f /\ \A q \in Client \ {p} : heap'[q] = heap[q]
    BY DEF IInv, cmTypeOK, accept_vault
  <2>. QED  BY <2>1, <2>2 DEF IInv, OneStructPerFd
<1>4. KeysLeadToStructs'
  BY NullIsNoClient, SMT DEF IInv, cmTypeOK, KeysLeadToStructs, accept_vault, accept, Goes
<1>5. PrivateStructs'
  BY NullIsNoClient, SMT
     DEF IInv, cmTypeOK, PrivateStructs, Private, Mapped, KeysLeadToStructs, accept_vault,
         accept, Goes
<1>6. HoldersOwnLocks'
  BY DEF IInv, cmTypeOK, HoldersOwnLocks, accept_vault, accept, Goes
<1>7. WaitersKeepMap'
  BY DEF IInv, cmTypeOK, WaitersKeepMap, Mapped, accept_vault, accept, Goes
<1>8. WalkersKeepMap'
  BY DEF IInv, cmTypeOK, WalkersKeepMap, Mapped, accept_vault, accept, Goes
<1>. QED  BY <1>1, <1>2, <1>3, <1>4, <1>5, <1>6, <1>7, <1>8 DEF IInv

\* The struct becomes public; nobody is reading the map.
LEMMA client_add_keeps ==
  ASSUME IInv, NEW t \in Thread, client_add(t)
  PROVE  IInv'
<1>1. cmTypeOK'
  BY DEF IInv, cmTypeOK, client_add, Goes
<1>2. AllocatedIsOpen' /\ OneStructPerFd'
  BY DEF IInv, AllocatedIsOpen, OneStructPerFd, client_add
<1>3. KeysLeadToStructs'
  BY NullIsNoClient
     DEF IInv, cmTypeOK, KeysLeadToStructs, PrivateStructs, Private, client_add, Goes
<1>4. PrivateStructs'
  BY NullIsNoClient
     DEF IInv, cmTypeOK, PrivateStructs, Private, Mapped, AllocatedIsOpen, client_add, Goes
<1>5. HoldersOwnLocks'
  BY DEF IInv, cmTypeOK, HoldersOwnLocks, client_add, Goes
<1>6. WaitersKeepMap'
  BY DEF IInv, cmTypeOK, WaitersKeepMap, Mapped, client_add, Goes
<1>7. WalkersKeepMap'
  BY DEF IInv, cmTypeOK, WalkersKeepMap, Mapped, client_add, Goes
<1>. QED  BY <1>1, <1>2, <1>3, <1>4, <1>5, <1>6, <1>7 DEF IInv

\* The map entry found stays while clients_rwlock is held.
LEMMA get_wait_fd_keeps ==
  ASSUME IInv, NEW t \in Thread, NEW f \in Fd, get_wait(t, fd_key[f], "getting")
  PROVE  IInv'
<1>1. cmTypeOK'
  BY DEF IInv, cmTypeOK, get_wait, pthread_rwlock_rdlock, Goes
<1>2. AllocatedIsOpen' /\ OneStructPerFd' /\ KeysLeadToStructs'
  BY DEF IInv, AllocatedIsOpen, OneStructPerFd, KeysLeadToStructs, get_wait
<1>3. PrivateStructs'
  BY DEF IInv, cmTypeOK, PrivateStructs, Private, Mapped, get_wait, pthread_rwlock_rdlock,
         Goes
<1>4. HoldersOwnLocks'
  BY DEF IInv, cmTypeOK, HoldersOwnLocks, get_wait, pthread_rwlock_rdlock, Goes
<1>5. WaitersKeepMap'
  BY NullIsNoClient
     DEF IInv, cmTypeOK, WaitersKeepMap, Mapped, get_wait, pthread_rwlock_rdlock, Goes
<1>6. WalkersKeepMap'
  BY DEF IInv, cmTypeOK, WalkersKeepMap, Mapped, get_wait, pthread_rwlock_rdlock, Goes
<1>. QED  BY <1>1, <1>2, <1>3, <1>4, <1>5, <1>6 DEF IInv

\* As for a descriptor, except that the struct may be gone.
LEMMA get_wait_host_keeps ==
  ASSUME IInv, NEW t \in Thread, NEW h \in Hostname, get_wait(t, host_key[h], "asking")
  PROVE  IInv'
<1>1. cmTypeOK'
  BY DEF IInv, cmTypeOK, get_wait, pthread_rwlock_rdlock, Goes
<1>2. AllocatedIsOpen' /\ OneStructPerFd' /\ KeysLeadToStructs'
  BY DEF IInv, AllocatedIsOpen, OneStructPerFd, KeysLeadToStructs, get_wait
<1>3. PrivateStructs'
  BY DEF IInv, cmTypeOK, PrivateStructs, Private, Mapped, get_wait, pthread_rwlock_rdlock,
         Goes
<1>4. HoldersOwnLocks'
  BY DEF IInv, cmTypeOK, HoldersOwnLocks, get_wait, pthread_rwlock_rdlock, Goes
<1>5. WaitersKeepMap'
  BY DEF IInv, cmTypeOK, WaitersKeepMap, Mapped, get_wait, pthread_rwlock_rdlock, Goes
<1>6. WalkersKeepMap'
  BY DEF IInv, cmTypeOK, WalkersKeepMap, Mapped, get_wait, pthread_rwlock_rdlock, Goes
<1>. QED  BY <1>1, <1>2, <1>3, <1>4, <1>5, <1>6 DEF IInv

\* The client is still in the map, so it is allocated.
LEMMA get_lock_keeps ==
  ASSUME IInv, NEW t \in Thread, NEW f \in Fd, get_lock(t, fd_key[f])
  PROVE  IInv'
<1>1. cmTypeOK'
  <2>1. Found(t, fd_key[f]) \in Client
    BY DEF IInv, cmTypeOK, WaitersKeepMap, Found, get_lock
  <2>2. [heap[Found(t, fd_key[f])] EXCEPT !.lock = t] \in Structs
    BY <2>1, StructFields DEF IInv, cmTypeOK
  <2>3. heap' \in [Client -> Structs]
    BY <2>1, <2>2 DEF IInv, cmTypeOK, get_lock
  <2>. QED  BY <2>1, <2>3 DEF IInv, cmTypeOK, get_lock, Goes
<1>2. AllocatedIsOpen'
  BY SMT DEF IInv, cmTypeOK, AllocatedIsOpen, Conn, get_lock, Found, Goes
<1>3. OneStructPerFd'
  BY SMT DEF IInv, cmTypeOK, OneStructPerFd, get_lock, Found, Goes
<1>4. KeysLeadToStructs'
  BY SMT DEF IInv, cmTypeOK, KeysLeadToStructs, get_lock, Found, Goes
<1>5. PrivateStructs'
  BY SMT DEF IInv, cmTypeOK, PrivateStructs, Private, Mapped, get_lock, Found, Goes
<1>6. HoldersOwnLocks'
  <2>1. PICK p \in Client : p = Found(t, fd_key[f]) /\ heap[p].alloc /\ heap[p].lock = NULL
    BY NullIsNoClient, SMT DEF IInv, cmTypeOK, WaitersKeepMap, KeysLeadToStructs, Mapped, get_lock, Found
  <2>2. heap' = [heap EXCEPT ![p].lock = t] /\ Goes(t, "holding", p)
    BY <2>1 DEF get_lock
  <2>3. \A u \in Thread \ {t} : at[u] = "holding" => ptr[u] # p
    BY <2>1, NullIsNothing DEF IInv, HoldersOwnLocks
  <2>. QED  BY <2>1, <2>2, <2>3, SMT DEF IInv, cmTypeOK, HoldersOwnLocks, Goes, Structs
<1>7. WaitersKeepMap'
  BY DEF IInv, cmTypeOK, WaitersKeepMap, Mapped, get_lock, Found, Goes
<1>8. WalkersKeepMap'
  BY DEF IInv, cmTypeOK, WalkersKeepMap, Mapped, get_lock, Found, Goes
<1>. QED  BY <1>1, <1>2, <1>3, <1>4, <1>5, <1>6, <1>7, <1>8 DEF IInv

\* The client is released at once.
LEMMA get_visit_fd_keeps ==
  ASSUME IInv, NEW t \in Thread, NEW f \in Fd, get_visit(t, fd_key[f])
  PROVE  IInv'
<1>1. cmTypeOK'
  BY DEF IInv, cmTypeOK, get_visit, Found, Goes
<1>2. AllocatedIsOpen' /\ OneStructPerFd' /\ KeysLeadToStructs'
  BY DEF IInv, AllocatedIsOpen, OneStructPerFd, KeysLeadToStructs, get_visit
<1>3. PrivateStructs'
  BY DEF IInv, cmTypeOK, PrivateStructs, Private, Mapped, get_visit, Found, Goes
<1>4. HoldersOwnLocks'
  BY DEF IInv, cmTypeOK, HoldersOwnLocks, get_visit, Found, Goes
<1>5. WaitersKeepMap'
  BY DEF IInv, cmTypeOK, WaitersKeepMap, Mapped, get_visit, Found, Goes
<1>6. WalkersKeepMap'
  BY DEF IInv, cmTypeOK, WalkersKeepMap, Mapped, get_visit, Found, Goes
<1>. QED  BY <1>1, <1>2, <1>3, <1>4, <1>5, <1>6 DEF IInv

\* The client is released at once.
LEMMA get_visit_host_keeps ==
  ASSUME IInv, NEW t \in Thread, NEW h \in Hostname, get_visit(t, host_key[h])
  PROVE  IInv'
<1>1. cmTypeOK'
  BY DEF IInv, cmTypeOK, get_visit, Found, Goes
<1>2. AllocatedIsOpen' /\ OneStructPerFd' /\ KeysLeadToStructs'
  BY DEF IInv, AllocatedIsOpen, OneStructPerFd, KeysLeadToStructs, get_visit
<1>3. PrivateStructs'
  BY DEF IInv, cmTypeOK, PrivateStructs, Private, Mapped, get_visit, Found, Goes
<1>4. HoldersOwnLocks'
  BY DEF IInv, cmTypeOK, HoldersOwnLocks, get_visit, Found, Goes
<1>5. WaitersKeepMap'
  BY DEF IInv, cmTypeOK, WaitersKeepMap, Mapped, get_visit, Found, Goes
<1>6. WalkersKeepMap'
  BY DEF IInv, cmTypeOK, WalkersKeepMap, Mapped, get_visit, Found, Goes
<1>. QED  BY <1>1, <1>2, <1>3, <1>4, <1>5, <1>6 DEF IInv

\* The one thread that takes the key out becomes the owner.
LEMMA client_remove_keeps ==
  ASSUME IInv, NEW t \in Thread, NEW f \in Fd, client_remove(t, f)
  PROVE  IInv'
<1>1. cmTypeOK'
  BY SMT DEF IInv, cmTypeOK, client_remove, del_fd_key, del_hostname_key, Goes
<1>2. AllocatedIsOpen' /\ OneStructPerFd'
  BY DEF IInv, AllocatedIsOpen, OneStructPerFd, client_remove
<1>3. KeysLeadToStructs'
  BY DEF IInv, cmTypeOK, KeysLeadToStructs, client_remove, del_fd_key, del_hostname_key,
         Goes
<1>4. PrivateStructs'
  <2>1. CASE fd_key[f] = NULL
    BY <2>1 DEF IInv, PrivateStructs, Private, Mapped, client_remove
  <2>2. CASE fd_key[f] # NULL
    <3>1. PICK p \in Client : p = fd_key[f]
      BY <2>2 DEF IInv, cmTypeOK
    <3>2. fd_key' = [fd_key EXCEPT ![f] = NULL] /\ Goes(t, "removing", p) /\ heap' = heap
      BY <2>2, <3>1 DEF client_remove, del_fd_key
    <3>3. heap[p].alloc /\ Mapped(p) /\ ~Mapped(p)'
      BY <3>1, <3>2, NullIsNoClient, SMT DEF IInv, cmTypeOK, KeysLeadToStructs, Mapped
    <3>4. \A q \in Client : ~Mapped(q) => ~Mapped(q)'
      BY <3>2, NullIsNoClient DEF IInv, cmTypeOK, Mapped
    <3>. QED  BY <3>2, <3>3, <3>4 DEF IInv, cmTypeOK, PrivateStructs, Private, Goes
  <2>. QED  BY <2>1, <2>2
<1>5. HoldersOwnLocks'
  BY DEF IInv, cmTypeOK, HoldersOwnLocks, client_remove, del_fd_key, del_hostname_key, Goes
<1>6. WaitersKeepMap'
  BY SMT DEF IInv, cmTypeOK, WaitersKeepMap, Mapped, client_remove, del_fd_key,
         del_hostname_key, Goes
<1>7. WalkersKeepMap'
  BY DEF IInv, cmTypeOK, WalkersKeepMap, Mapped, client_remove, del_fd_key,
         del_hostname_key, Goes
<1>. QED  BY <1>1, <1>2, <1>3, <1>4, <1>5, <1>6, <1>7 DEF IInv

\* The hostname keys support nothing else.
LEMMA client_set_hostname_keeps ==
  ASSUME IInv, NEW t \in Thread, NEW f \in Fd, NEW h \in Hostname, client_set_hostname(t, f, h)
  PROVE  IInv'
<1>1. cmTypeOK'
  BY DEF IInv, cmTypeOK, client_set_hostname, set_hostname_key, Goes
<1>2. AllocatedIsOpen' /\ OneStructPerFd' /\ KeysLeadToStructs'
  BY DEF IInv, AllocatedIsOpen, OneStructPerFd, KeysLeadToStructs, client_set_hostname
<1>3. PrivateStructs'
  BY SMT DEF IInv, cmTypeOK, PrivateStructs, Private, Mapped, client_set_hostname,
         set_hostname_key, Goes
<1>4. HoldersOwnLocks'
  BY DEF IInv, cmTypeOK, HoldersOwnLocks, client_set_hostname, set_hostname_key, Goes
<1>5. WaitersKeepMap'
  BY SMT DEF IInv, cmTypeOK, WaitersKeepMap, Mapped, client_set_hostname, set_hostname_key, Goes
<1>6. WalkersKeepMap'
  BY DEF IInv, cmTypeOK, WalkersKeepMap, Mapped, client_set_hostname, set_hostname_key, Goes
<1>. QED  BY <1>1, <1>2, <1>3, <1>4, <1>5, <1>6 DEF IInv

\* Only the idle mark changes.
LEMMA touch_keeps ==
  ASSUME IInv, NEW t \in Thread, touch(t)
  PROVE  IInv'
<1>1. cmTypeOK'
  <2>1. ptr[t] \in Client
    BY DEF IInv, cmTypeOK, HoldersOwnLocks, touch
  <2>2. [heap[ptr[t]] EXCEPT !.idle = FALSE] \in Structs
    BY <2>1, StructFields DEF IInv, cmTypeOK
  <2>3. heap' \in [Client -> Structs]
    BY <2>1, <2>2 DEF IInv, cmTypeOK, touch
  <2>. QED  BY <2>1, <2>3 DEF IInv, cmTypeOK, touch
<1>2. WaitersKeepMap' /\ WalkersKeepMap'
  BY DEF IInv, WaitersKeepMap, WalkersKeepMap, Mapped, touch
<1>3. AllocatedIsOpen'
  BY SMT DEF IInv, cmTypeOK, AllocatedIsOpen, Conn, touch
<1>4. OneStructPerFd'
  BY SMT DEF IInv, cmTypeOK, OneStructPerFd, touch
<1>5. KeysLeadToStructs'
  BY SMT DEF IInv, cmTypeOK, KeysLeadToStructs, touch
<1>6. PrivateStructs'
  BY SMT DEF IInv, cmTypeOK, PrivateStructs, Private, Mapped, touch
<1>7. HoldersOwnLocks'
  BY SMT DEF IInv, cmTypeOK, HoldersOwnLocks, touch
<1>. QED  BY <1>1, <1>2, <1>3, <1>4, <1>5, <1>6, <1>7 DEF IInv

\* The holder lets go.
LEMMA client_unlock_keeps ==
  ASSUME IInv, NEW t \in Thread, client_unlock(t)
  PROVE  IInv'
<1>1. cmTypeOK'
  <2>1. ptr[t] \in Client
    BY DEF IInv, cmTypeOK, HoldersOwnLocks, client_unlock
  <2>2. [heap[ptr[t]] EXCEPT !.lock = NULL] \in Structs
    BY <2>1, StructFields DEF IInv, cmTypeOK
  <2>3. heap' \in [Client -> Structs]
    BY <2>1, <2>2 DEF IInv, cmTypeOK, client_unlock
  <2>. QED  BY <2>1, <2>3 DEF IInv, cmTypeOK, client_unlock, Goes
<1>2. AllocatedIsOpen'
  BY SMT DEF IInv, cmTypeOK, AllocatedIsOpen, Conn, client_unlock, Goes
<1>3. OneStructPerFd'
  BY SMT DEF IInv, cmTypeOK, OneStructPerFd, client_unlock, Goes
<1>4. KeysLeadToStructs'
  BY SMT DEF IInv, cmTypeOK, KeysLeadToStructs, client_unlock, Goes
<1>5. PrivateStructs'
  BY SMT DEF IInv, cmTypeOK, PrivateStructs, Private, Mapped, client_unlock, Goes
<1>6. HoldersOwnLocks'
  BY DEF IInv, cmTypeOK, HoldersOwnLocks, client_unlock, Goes
<1>7. WaitersKeepMap'
  BY DEF IInv, cmTypeOK, WaitersKeepMap, Mapped, client_unlock, Goes
<1>8. WalkersKeepMap'
  BY DEF IInv, cmTypeOK, WalkersKeepMap, Mapped, client_unlock, Goes
<1>. QED  BY <1>1, <1>2, <1>3, <1>4, <1>5, <1>6, <1>7, <1>8 DEF IInv

\* Only the name changes, whatever became of the struct.
LEMMA client_set_hostname_copy_keeps ==
  ASSUME IInv, NEW t \in Thread, client_set_hostname_copy(t)
  PROVE  IInv'
<1>1. cmTypeOK'
  <2>1. ptr[t] \in Client
    BY DEF IInv, cmTypeOK, WaitersKeepMap, client_set_hostname_copy
  <2>2. [heap[ptr[t]] EXCEPT !.hostname = arg[t]] \in Structs
    BY <2>1, StructFields DEF IInv, cmTypeOK, WaitersKeepMap, client_set_hostname_copy
  <2>3. heap' \in [Client -> Structs]
    BY <2>1, <2>2 DEF IInv, cmTypeOK, client_set_hostname_copy
  <2>. QED  BY <2>1, <2>3 DEF IInv, cmTypeOK, client_set_hostname_copy, Goes
<1>2. AllocatedIsOpen'
  BY SMT DEF IInv, cmTypeOK, AllocatedIsOpen, Conn, client_set_hostname_copy, Goes
<1>3. OneStructPerFd'
  BY SMT DEF IInv, cmTypeOK, OneStructPerFd, client_set_hostname_copy, Goes
<1>4. KeysLeadToStructs'
  BY SMT DEF IInv, cmTypeOK, KeysLeadToStructs, client_set_hostname_copy, Goes
<1>5. PrivateStructs'
  BY SMT DEF IInv, cmTypeOK, PrivateStructs, Private, Mapped, client_set_hostname_copy, Goes
<1>6. HoldersOwnLocks'
  BY SMT DEF IInv, cmTypeOK, HoldersOwnLocks, client_set_hostname_copy, Goes
<1>7. WaitersKeepMap'
  BY DEF IInv, cmTypeOK, WaitersKeepMap, Mapped, client_set_hostname_copy, Goes
<1>8. WalkersKeepMap'
  BY DEF IInv, cmTypeOK, WalkersKeepMap, Mapped, client_set_hostname_copy, Goes
<1>. QED  BY <1>1, <1>2, <1>3, <1>4, <1>5, <1>6, <1>7, <1>8 DEF IInv

\* The owner frees; nobody holds the lock or sees the map entry.
LEMMA client_remove_destroy_keeps ==
  ASSUME IInv, NEW t \in Thread, client_remove_destroy(t)
  PROVE  IInv'
<1>1. cmTypeOK'
  <2>1. heap' \in [Client -> Structs]
    BY FreedStruct DEF IInv, cmTypeOK, client_remove_destroy
  <2>2. sock' \in [Fd -> Sockets]
    BY DEF IInv, cmTypeOK, Sockets, client_remove_destroy, close
  <2>. QED  BY <2>1, <2>2 DEF IInv, cmTypeOK, client_remove_destroy, Goes
<1>2. AllocatedIsOpen'
  BY SMT DEF IInv, cmTypeOK, AllocatedIsOpen, Conn, OneStructPerFd, PrivateStructs, Private,
         client_remove_destroy, close, Freed, Goes
<1>3. OneStructPerFd'
  BY DEF IInv, cmTypeOK, OneStructPerFd, client_remove_destroy, close, Freed, Goes
<1>4. KeysLeadToStructs'
  BY DEF IInv, cmTypeOK, KeysLeadToStructs, PrivateStructs, Private, Mapped,
         client_remove_destroy, close, Freed, Goes
<1>5. PrivateStructs'
  BY DEF IInv, cmTypeOK, PrivateStructs, Private, Mapped, client_remove_destroy, close,
         Freed, Goes
<1>6. HoldersOwnLocks'
  BY NullIsNothing, SMT
     DEF IInv, cmTypeOK, HoldersOwnLocks, client_remove_destroy, close, Freed, Goes
<1>7. WaitersKeepMap'
  BY DEF IInv, cmTypeOK, WaitersKeepMap, Mapped, client_remove_destroy, close, Freed, Goes
<1>8. WalkersKeepMap'
  BY DEF IInv, cmTypeOK, WalkersKeepMap, Mapped, client_remove_destroy, close, Freed, Goes
<1>. QED  BY <1>1, <1>2, <1>3, <1>4, <1>5, <1>6, <1>7, <1>8 DEF IInv

\* Everything to be visited is in the map.
LEMMA walk_begin_keeps ==
  ASSUME IInv, NEW t \in Thread, walk_begin(t)
  PROVE  IInv'
<1>1. cmTypeOK'
  BY DEF IInv, cmTypeOK, walk_begin, pthread_rwlock_rdlock, Goes
<1>2. AllocatedIsOpen' /\ OneStructPerFd' /\ KeysLeadToStructs'
  BY DEF IInv, AllocatedIsOpen, OneStructPerFd, KeysLeadToStructs, walk_begin
<1>3. PrivateStructs'
  BY DEF IInv, cmTypeOK, PrivateStructs, Private, Mapped, walk_begin, pthread_rwlock_rdlock,
         Goes
<1>4. HoldersOwnLocks'
  BY DEF IInv, cmTypeOK, HoldersOwnLocks, walk_begin, pthread_rwlock_rdlock, Goes
<1>5. WaitersKeepMap'
  BY DEF IInv, cmTypeOK, WaitersKeepMap, Mapped, walk_begin, pthread_rwlock_rdlock, Goes
<1>6. WalkersKeepMap'
  BY DEF IInv, cmTypeOK, WalkersKeepMap, Mapped, walk_begin, pthread_rwlock_rdlock, Goes
<1>. QED  BY <1>1, <1>2, <1>3, <1>4, <1>5, <1>6 DEF IInv

\* Clients_rwlock is released.
LEMMA walk_end_keeps ==
  ASSUME IInv, NEW t \in Thread, walk_end(t)
  PROVE  IInv'
<1>1. cmTypeOK'
  BY DEF IInv, cmTypeOK, walk_end, Goes
<1>2. AllocatedIsOpen' /\ OneStructPerFd' /\ KeysLeadToStructs'
  BY DEF IInv, AllocatedIsOpen, OneStructPerFd, KeysLeadToStructs, walk_end
<1>3. PrivateStructs'
  BY DEF IInv, cmTypeOK, PrivateStructs, Private, Mapped, walk_end, Goes
<1>4. HoldersOwnLocks'
  BY DEF IInv, cmTypeOK, HoldersOwnLocks, walk_end, Goes
<1>5. WaitersKeepMap'
  BY DEF IInv, cmTypeOK, WaitersKeepMap, Mapped, walk_end, Goes
<1>6. WalkersKeepMap'
  BY DEF IInv, cmTypeOK, WalkersKeepMap, Mapped, walk_end, Goes
<1>. QED  BY <1>1, <1>2, <1>3, <1>4, <1>5, <1>6 DEF IInv

\* What is noted down belongs to an allocated struct.
LEMMA walk_visit_keeps ==
  ASSUME IInv, NEW t \in Thread, NEW p \in Client, NEW sweeping \in BOOLEAN, walk_visit(t, p, sweeping)
  PROVE  IInv'
<1>1. cmTypeOK'
  <2>1. heap[p].alloc
    BY NullIsNoClient, SMT DEF IInv, cmTypeOK, WalkersKeepMap, KeysLeadToStructs, Mapped, walk_visit
  <2>2. Noted(p) \in Fd \X Conn
    BY <2>1 DEF IInv, AllocatedIsOpen, Noted
  <2>. QED  BY <2>2 DEF IInv, cmTypeOK, walk_visit
<1>2. AllocatedIsOpen' /\ OneStructPerFd' /\ KeysLeadToStructs' /\ PrivateStructs' /\
      HoldersOwnLocks' /\ WaitersKeepMap'
  BY DEF IInv, AllocatedIsOpen, OneStructPerFd, KeysLeadToStructs, PrivateStructs,
         HoldersOwnLocks, WaitersKeepMap, Private, Mapped, walk_visit
<1>3. WalkersKeepMap'
  BY DEF IInv, cmTypeOK, WalkersKeepMap, Mapped, walk_visit, Expired, Noted
<1>. QED  BY <1>1, <1>2, <1>3 DEF IInv

\* The empty registry satisfies the invariant.
LEMMA InitIInv == client_manager_init => IInv
<1>. SUFFICES ASSUME client_manager_init PROVE IInv
  OBVIOUS
<1>1. cmTypeOK
  BY FreedStruct, ConnBound, SMT DEF client_manager_init, cmTypeOK, Sockets
<1>2. AllocatedIsOpen /\ OneStructPerFd /\ KeysLeadToStructs
  BY DEF client_manager_init, AllocatedIsOpen, OneStructPerFd, KeysLeadToStructs, Freed
<1>3. PrivateStructs /\ HoldersOwnLocks /\ WaitersKeepMap /\ WalkersKeepMap
  BY DEF client_manager_init, PrivateStructs, Private, HoldersOwnLocks, WaitersKeepMap,
         WalkersKeepMap
<1>. QED  BY <1>1, <1>2, <1>3 DEF IInv

\* Every step of every thread keeps the invariant.
LEMMA NextIInv == IInv /\ [cmNext]_cmVars => IInv'
<1>. SUFFICES ASSUME IInv, [cmNext]_cmVars PROVE IInv'
  OBVIOUS
<1>1. CASE \E p \in Client : grow_idle(p)
  BY <1>1, grow_idle_keeps
<1>2. CASE \E f \in Fd : accept_lobby(f) \/ (sock[f].kind = "lobby" /\ close_lobby(f))
  BY <1>2, accept_lobby_keeps, close_lobby_keeps
<1>3. CASE \E e \in fds_to_remove : sweep_next(e)
  BY <1>3, sweep_next_keeps
<1>4. ASSUME NEW t \in Thread, NEW f \in Fd,
             \/ get_wait(t, fd_key[f], "getting") \/ get_lock(t, fd_key[f])
             \/ get_visit(t, fd_key[f]) \/ client_remove(t, f)
             \/ \E h \in Hostname : client_set_hostname(t, f, h)
             \/ \E p \in Client : accept_vault(t, f, p)
      PROVE  IInv'
  BY <1>4, get_wait_fd_keeps, get_lock_keeps, get_visit_fd_keeps, client_remove_keeps,
     client_set_hostname_keeps, accept_vault_keeps
<1>5. ASSUME NEW t \in Thread, NEW h \in Hostname,
             get_wait(t, host_key[h], "asking") \/ get_visit(t, host_key[h])
      PROVE  IInv'
  BY <1>5, get_wait_host_keeps, get_visit_host_keeps
<1>6. ASSUME NEW t \in Thread,
             \/ client_add(t) \/ touch(t) \/ client_unlock(t) \/ client_set_hostname_copy(t)
             \/ client_remove_destroy(t) \/ walk_begin(t) \/ walk_end(t)
      PROVE  IInv'
  BY <1>6, client_add_keeps, touch_keeps, client_unlock_keeps, client_set_hostname_copy_keeps,
     client_remove_destroy_keeps, walk_begin_keeps, walk_end_keeps
<1>7. ASSUME NEW t \in Thread, NEW p \in Client, walk_visit(t, p, TRUE) \/ walk_visit(t, p, FALSE)
      PROVE  IInv'
  BY <1>7, walk_visit_keeps
<1>8. CASE UNCHANGED cmVars
  <2>1. cmTypeOK'
    BY <1>8 DEF IInv, cmTypeOK, cmVars
  <2>2. (AllocatedIsOpen /\ OneStructPerFd /\ KeysLeadToStructs)'
    BY <1>8 DEF IInv, AllocatedIsOpen, OneStructPerFd, KeysLeadToStructs, cmVars
  <2>3. (PrivateStructs /\ HoldersOwnLocks /\ WaitersKeepMap /\ WalkersKeepMap)'
    BY <1>8 DEF IInv, PrivateStructs, Private, Mapped, HoldersOwnLocks, WaitersKeepMap,
                WalkersKeepMap, cmVars
  <2>. QED  BY <2>1, <2>2, <2>3 DEF IInv
<1>. QED  BY <1>1, <1>2, <1>3, <1>4, <1>5, <1>6, <1>7, <1>8 DEF cmNext, cmReads

LEMMA Inductive == cmSpec => []IInv
BY InitIInv, NextIInv, PTL DEF cmSpec

----------------------------------------------------------------------------
(* Theorems *)

\* The registry, the heap and the descriptor table keep their types whatever threads
\* call the functions of client_manager.c.
THEOREM RegistryTypes == cmSpec => []cmTypeOK
BY Inductive, PTL DEF IInv

\* "Safe destruction": a client returned by client_get_and_lock_by_fd is not freed and
\* its lock belongs to the thread that got it, however many others remove it.
THEOREM SafeByDescriptor == cmSpec => []HeldIsLive
<1>1. IInv => HeldIsLive
  BY DEF IInv, HoldersOwnLocks, HeldIsLive
<1>. QED  BY <1>1, Inductive, PTL

\* client_remove takes the key out before it closes, so a reused descriptor number
\* never leads to the client that had it before.
THEOREM KeysAreFresh == cmSpec => []RegisteredIsOpen
<1>1. IInv => RegisteredIsOpen
  <2>. SUFFICES ASSUME IInv, NEW f \in Fd, fd_key[f] # NULL
                PROVE  /\ heap[fd_key[f]].alloc
                       /\ heap[fd_key[f]].fd = f
                       /\ sock[f] = [kind |-> "vault", conn |-> heap[fd_key[f]].conn]
    BY DEF RegisteredIsOpen
  <2>1. fd_key[f] \in Client /\ heap[fd_key[f]].alloc /\ heap[fd_key[f]].fd = f
    BY DEF IInv, cmTypeOK, KeysLeadToStructs
  <2>. QED  BY <2>1 DEF IInv, AllocatedIsOpen
<1>. QED  BY <1>1, Inductive, PTL

\* No double free and no close of somebody else's descriptor: of all threads in
\* client_remove for one client, one destroys it.
THEOREM FreedOnce == cmSpec => []OneDestroyer
<1>1. IInv => OneDestroyer
  <2>. SUFFICES ASSUME IInv, NEW t \in Thread, at[t] = "removing"
                PROVE  /\ heap[ptr[t]].alloc
                       /\ sock[heap[ptr[t]].fd] = [kind |-> "vault", conn |-> heap[ptr[t]].conn]
                       /\ \A u \in Thread \ {t} : at[u] = "removing" => ptr[u] # ptr[t]
    BY DEF OneDestroyer
  <2>1. /\ ptr[t] \in Client /\ heap[ptr[t]].alloc
        /\ \A u \in Thread \ {t} : at[u] = "removing" => ptr[u] # ptr[t]
    BY DEF IInv, PrivateStructs, Private
  <2>. QED  BY <2>1 DEF IInv, AllocatedIsOpen
<1>. QED  BY <1>1, Inductive, PTL

\* A lookup by descriptor never waits for the lock of a freed struct, and
\* sweep_inactive and print_status never reach one.
THEOREM WalksAreSafe == cmSpec => []WalkedIsLive
<1>1. IInv => WalkedIsLive
  <2>1. ASSUME IInv, NEW p \in Client, Mapped(p)
        PROVE  heap[p].alloc
    BY <2>1, NullIsNoClient DEF IInv, KeysLeadToStructs, Mapped
  <2>2. ASSUME IInv, NEW t \in Thread, at[t] = "getting"
        PROVE  ptr[t] \in Client /\ Mapped(ptr[t])
    BY <2>2 DEF IInv, WaitersKeepMap
  <2>3. ASSUME IInv, NEW t \in Thread, at[t] = "walking", NEW p \in todo[t]
        PROVE  p \in Client /\ Mapped(p)
    BY <2>3 DEF IInv, cmTypeOK, WalkersKeepMap
  <2>. QED  BY <2>1, <2>2, <2>3 DEF WalkedIsLive
<1>. QED  BY <1>1, Inductive, PTL

----------------------------------------------------------------------------
(* The hash table under the registry, for any hash function into any number *)
(* of slots.                                                               *)

Content == [Key -> Client \cup {NULL}]
Entry == [key : Key, value : Client \cup {NULL}]
Tables == [Slot -> Seq(Entry)]

\* Every entry is in the chain of its key, holds what the map R says, and is the only
\* one with its key.
EntriesRight(T, R) ==
  \A s \in Slot : \A i \in 1 .. Len(T[s]) :
    /\ hash[T[s][i].key] = s
    /\ T[s][i].value = R[T[s][i].key]
    /\ \A j \in 1 .. Len(T[s]) : T[s][i].key = T[s][j].key => i = j

\* A key has an entry when the map has a value for it, and only then.
EntriesThere(T, R) ==
  \A k \in Key : R[k] # NULL <=> \E i \in 1 .. Len(T[hash[k]]) : T[hash[k]][i].key = k

\* Table T is the map R.
Represents(T, R) == T \in Tables /\ EntriesRight(T, R) /\ EntriesThere(T, R)

----------------------------------------------------------------------------
(* The operations of hash.c. *)

\* The places of a key in its chain: none or one.
LEMMA PlacesOf ==
  ASSUME NEW T, NEW R \in Content, Represents(T, R), NEW k \in Key
  PROVE  /\ T[hash[k]] \in Seq(Entry) /\ hash[k] \in Slot
         /\ Nodes(T, k) = {} <=> R[k] = NULL
         /\ R[k] # NULL => /\ FirstNode(T, k) \in 1 .. Len(T[hash[k]])
                           /\ T[hash[k]][FirstNode(T, k)].key = k
                           /\ Nodes(T, k) = {FirstNode(T, k)}
<1>1. T[hash[k]] \in Seq(Entry) /\ hash[k] \in Slot
  BY HashInTable DEF Represents, Tables
<1>2. DOMAIN T[hash[k]] = 1 .. Len(T[hash[k]])
  BY <1>1, SMT
<1>3. Nodes(T, k) = {} <=> R[k] = NULL
  BY <1>1, <1>2 DEF Nodes, Represents, EntriesThere
<1>4. ASSUME R[k] # NULL
      PROVE  \E i \in 1 .. Len(T[hash[k]]) : T[hash[k]][i].key = k /\ Nodes(T, k) = {i}
  <2>1. PICK i \in 1 .. Len(T[hash[k]]) : T[hash[k]][i].key = k
    BY <1>4 DEF Represents, EntriesThere
  <2>2. \A j \in 1 .. Len(T[hash[k]]) : T[hash[k]][j].key = k => j = i
    BY <2>1, <1>1, SMT DEF Represents, EntriesRight
  <2>. QED  BY <2>1, <2>2, <1>2 DEF Nodes
<1>5. ASSUME R[k] # NULL
      PROVE  /\ FirstNode(T, k) \in 1 .. Len(T[hash[k]])
             /\ T[hash[k]][FirstNode(T, k)].key = k
             /\ Nodes(T, k) = {FirstNode(T, k)}
  <2>1. PICK i \in 1 .. Len(T[hash[k]]) : T[hash[k]][i].key = k /\ Nodes(T, k) = {i}
    BY <1>4, <1>5
  <2>2. FirstNode(T, k) = i
    BY <2>1, SMT DEF FirstNode
  <2>. QED  BY <2>1, <2>2
<1>. QED  BY <1>1, <1>3, <1>5

\* get returns what the map says.
LEMMA GetIs ==
  ASSUME NEW T, NEW R \in Content, Represents(T, R), NEW k \in Key
  PROVE  get(T, k) = R[k]
<1>1. CASE R[k] = NULL
  BY <1>1, PlacesOf DEF get
<1>2. CASE R[k] # NULL
  <2>1. /\ Nodes(T, k) # {} /\ hash[k] \in Slot
        /\ FirstNode(T, k) \in 1 .. Len(T[hash[k]])
        /\ T[hash[k]][FirstNode(T, k)].key = k
    BY <1>2, PlacesOf
  <2>2. T[hash[k]][FirstNode(T, k)].value = R[k]
    BY <2>1, SMT DEF Represents, EntriesRight
  <2>. QED  BY <2>1, <2>2 DEF get
<1>. QED  BY <1>1, <1>2

\* set binds the key and leaves the others.
LEMMA SetIs ==
  ASSUME NEW T, NEW R \in Content, Represents(T, R), NEW k \in Key, NEW v \in Client
  PROVE  Represents(set(T, k, v), [R EXCEPT ![k] = v])
<1>. DEFINE h == hash[k]
            N == set(T, k, v)
            S == [R EXCEPT ![k] = v]
<1>. HIDE DEF h
<1>0. h \in Slot /\ v # NULL /\ T[h] \in Seq(Entry) /\ \A s \in Slot : T[s] \in Seq(Entry)
  BY HashInTable, NullIsNoClient DEF h, Represents, Tables
<1>00. \A s \in Slot : \A i \in 1 .. Len(T[s]) :
        /\ T[s][i].key \in Key
        /\ T[s][i] = [key |-> T[s][i].key, value |-> T[s][i].value]
  <2>1. \A s \in Slot : \A i \in 1 .. Len(T[s]) : T[s][i] \in Entry
    BY <1>0, SMT
  <2>. QED  BY <2>1 DEF Entry
<1>01. S[k] = v /\ \A q \in Key : q # k => S[q] = R[q]
  BY DEF Content
<1>. HIDE DEF S
<1>1. CASE R[k] = NULL
  <2>. DEFINE e == [key |-> k, value |-> v]
  <2>1. N = [T EXCEPT ![h] = <<e>> \o @]
    BY <1>1, PlacesOf DEF set, h
  <2>2. e \in Entry
    BY DEF Entry
  <2>. HIDE DEF e
  <2>3. /\ N[h] = <<e>> \o T[h] /\ N[h] \in Seq(Entry)
        /\ Len(N[h]) = Len(T[h]) + 1 /\ N[h][1] = e
        /\ \A i \in 2 .. Len(N[h]) : N[h][i] = T[h][i - 1]
    BY <2>1, <2>2, <1>0, SMT DEF Represents, Tables
  <2>4. \A s \in Slot : s # h => N[s] = T[s]
    BY <2>1 DEF Represents, Tables
  <2>5. N \in Tables
    BY <2>1, <2>3, <2>4 DEF Represents, Tables
  <2>6. e.key = k /\ e.value = v
    BY DEF e
  <2>. HIDE DEF N
  <2>7. \A i \in 1 .. Len(T[h]) : T[h][i].key # k /\ T[h][i].key \in Key
    BY <1>1, <1>0, <1>00 DEF Represents, EntriesThere, h
  <2>8. EntriesRight(N, S)
    <3>1. ASSUME NEW s \in Slot, s # h, NEW i \in 1 .. Len(N[s])
          PROVE  /\ hash[N[s][i].key] = s
                 /\ N[s][i].value = S[N[s][i].key]
                 /\ \A j \in 1 .. Len(N[s]) : N[s][i].key = N[s][j].key => i = j
      <4>1. N[s] = T[s] /\ T[s] \in Seq(Entry) /\ T[s][i].key \in Key
        BY <3>1, <2>4, <1>0, <1>00
      <4>2. hash[T[s][i].key] = s /\ T[s][i].value = R[T[s][i].key]
        BY <4>1 DEF Represents, EntriesRight
      <4>3. T[s][i].key # k
        BY <4>2, <3>1 DEF h
      <4>. QED  BY <4>1, <4>2, <4>3, <1>01, SMT DEF Represents, EntriesRight
    <3>2. ASSUME NEW i \in 1 .. Len(N[h])
          PROVE  /\ hash[N[h][i].key] = h
                 /\ N[h][i].value = S[N[h][i].key]
                 /\ \A j \in 1 .. Len(N[h]) : N[h][i].key = N[h][j].key => i = j
      <4>1. CASE i = 1
        BY <4>1, <2>3, <2>6, <2>7, <1>0, <1>01, SMT DEF h
      <4>2. CASE i # 1
        <5>1. i - 1 \in 1 .. Len(T[h]) /\ N[h][i] = T[h][i - 1]
          BY <4>2, <2>3, <1>0, SMT
        <5>2. hash[T[h][i - 1].key] = h /\ T[h][i - 1].value = R[T[h][i - 1].key]
          BY <5>1, <1>0 DEF Represents, EntriesRight
        <5>3. N[h][i].key # k /\ S[N[h][i].key] = R[N[h][i].key]
          BY <5>1, <2>7, <1>01
        <5>4. ASSUME NEW j \in 1 .. Len(N[h]), N[h][i].key = N[h][j].key
              PROVE  i = j
          <6>1. j # 1
            BY <5>3, <5>4, <2>3, <2>6
          <6>2. j - 1 \in 1 .. Len(T[h]) /\ N[h][j] = T[h][j - 1]
            BY <6>1, <2>3, <1>0, SMT
          <6>3. i - 1 = j - 1
            BY <6>2, <5>1, <5>4, <1>0, SMT DEF Represents, EntriesRight
          <6>. QED  BY <6>3, SMT
        <5>. QED  BY <5>1, <5>2, <5>3, <5>4
      <4>. QED  BY <4>1, <4>2
    <3>. QED  BY <3>1, <3>2 DEF EntriesRight
  <2>9. EntriesThere(N, S)
    <3>1. S[k] # NULL /\ \E i \in 1 .. Len(N[hash[k]]) : N[hash[k]][i].key = k
      BY <2>3, <2>6, <1>0, <1>01, SMT DEF h
    <3>2. ASSUME NEW q \in Key, q # k, hash[q] # h
          PROVE  S[q] # NULL <=> \E i \in 1 .. Len(N[hash[q]]) : N[hash[q]][i].key = q
      <4>1. N[hash[q]] = T[hash[q]] /\ S[q] = R[q]
        BY <3>2, <2>4, HashInTable, <1>01
      <4>2. R[q] # NULL <=> \E i \in 1 .. Len(T[hash[q]]) : T[hash[q]][i].key = q
        BY DEF Represents, EntriesThere
      <4>. QED  BY <4>1, <4>2
    <3>3. ASSUME NEW q \in Key, q # k, hash[q] = h
          PROVE  S[q] # NULL <=> \E i \in 1 .. Len(N[hash[q]]) : N[hash[q]][i].key = q
      <4>1. S[q] = R[q]
        BY <3>3, <1>01
      <4>2. R[q] # NULL <=> \E i \in 1 .. Len(T[h]) : T[h][i].key = q
        BY <3>3 DEF Represents, EntriesThere
      <4>3. ASSUME NEW i \in 1 .. Len(T[h]), T[h][i].key = q
            PROVE  i + 1 \in 1 .. Len(N[h]) /\ N[h][i + 1].key = q
        BY <4>3, <2>3, <1>0, SMT
      <4>4. ASSUME NEW i \in 1 .. Len(N[h]), N[h][i].key = q
            PROVE  i - 1 \in 1 .. Len(T[h]) /\ T[h][i - 1].key = q
        BY <4>4, <3>3, <2>3, <2>6, <1>0, SMT
      <4>. QED  BY <4>1, <4>2, <4>3, <4>4, <3>3
    <3>4. ASSUME NEW q \in Key
          PROVE  S[q] # NULL <=> \E i \in 1 .. Len(N[hash[q]]) : N[hash[q]][i].key = q
      BY <3>1, <3>2, <3>3
    <3>. QED  BY <3>4 DEF EntriesThere
  <2>. QED  BY <2>5, <2>8, <2>9 DEF Represents, S, N
<1>2. CASE R[k] # NULL
  <2>. DEFINE p == FirstNode(T, k)
  <2>1. p \in 1 .. Len(T[h]) /\ T[h][p].key = k /\ Nodes(T, k) # {}
    BY <1>2, PlacesOf DEF h
  <2>2. N = [T EXCEPT ![h][p].value = v]
    BY <2>1 DEF set, h
  <2>. HIDE DEF p
  <2>3. /\ N[h] = [T[h] EXCEPT ![p].value = v]
        /\ \A s \in Slot : s # h => N[s] = T[s]
    BY <2>2, <1>0 DEF Represents, Tables
  <2>4. [T[h][p] EXCEPT !.value = v] = [key |-> k, value |-> v]
    <3>1. T[h][p] = [key |-> k, value |-> T[h][p].value]
      BY <2>1, <1>0, <1>00
    <3>2. \A x : [[key |-> k, value |-> x] EXCEPT !.value = v] = [key |-> k, value |-> v]
      BY SMT
    <3>. QED  BY <3>1, <3>2
  <2>5. /\ N[h] \in Seq(Entry) /\ Len(N[h]) = Len(T[h])
        /\ N[h][p] = [key |-> k, value |-> v]
        /\ \A i \in 1 .. Len(T[h]) : i # p => N[h][i] = T[h][i]
    BY <2>3, <2>4, <2>1, <1>0, SMT DEF Entry
  <2>6. N \in Tables
    BY <2>2, <2>3, <2>5 DEF Represents, Tables
  <2>. HIDE DEF N
  <2>7. \A s \in Slot : Len(N[s]) = Len(T[s]) /\ \A i \in 1 .. Len(T[s]) :
          N[s][i].key = T[s][i].key /\ T[s][i].key \in Key
    <3>1. ASSUME NEW s \in Slot, NEW i \in 1 .. Len(T[s])
          PROVE  N[s][i].key = T[s][i].key
      BY <2>1, <2>3, <2>5, SMT
    <3>. QED  BY <3>1, <2>3, <2>5, <1>00
  <2>8. \A s \in Slot : \A i \in 1 .. Len(T[s]) : N[s][i].value = S[N[s][i].key]
    <3>1. ASSUME NEW s \in Slot, NEW i \in 1 .. Len(T[s]), s = h, i = p
          PROVE  N[s][i].value = S[N[s][i].key]
      BY <3>1, <2>5, <1>01, SMT
    <3>2. ASSUME NEW s \in Slot, NEW i \in 1 .. Len(T[s]), s # h \/ i # p
          PROVE  N[s][i].value = S[N[s][i].key]
      <4>1. N[s][i] = T[s][i] /\ hash[T[s][i].key] = s /\ T[s][i].value = R[T[s][i].key]
        BY <3>2, <2>3, <2>5 DEF Represents, EntriesRight
      <4>2. T[s][i].key # k
        BY <3>2, <4>1, <2>1, <1>0, SMT DEF Represents, EntriesRight, h
      <4>. QED  BY <4>1, <4>2, <2>7, <1>01
    <3>. QED  BY <3>1, <3>2
  <2>9. EntriesRight(N, S)
    BY <2>7, <2>8, SMT DEF Represents, EntriesRight
  <2>10. EntriesThere(N, S)
    <3>1. \A q \in Key : S[q] # NULL <=> R[q] # NULL
      BY <1>0, <1>2, <1>01
    <3>2. \A q \in Key : hash[q] \in Slot
      BY HashInTable
    <3>3. ASSUME NEW q \in Key
          PROVE  S[q] # NULL <=> \E i \in 1 .. Len(N[hash[q]]) : N[hash[q]][i].key = q
      <4>. DEFINE s == hash[q]
      <4>1. s \in Slot /\ (R[q] # NULL <=> \E i \in 1 .. Len(T[s]) : T[s][i].key = q)
        BY <3>2 DEF Represents, EntriesThere
      <4>. HIDE DEF s
      <4>2. (\E i \in 1 .. Len(T[s]) : T[s][i].key = q)
              <=> \E i \in 1 .. Len(N[s]) : N[s][i].key = q
        BY <4>1, <2>7
      <4>. QED  BY <4>1, <4>2, <3>1 DEF s
    <3>. QED  BY <3>3 DEF EntriesThere
  <2>. QED  BY <2>6, <2>9, <2>10 DEF Represents, S, N
<1>. QED  BY <1>1, <1>2

\* Unlinking the place p of a chain moves the places behind it one forward.
LEMMA UnlinkedIs ==
  ASSUME NEW c \in Seq(Entry), NEW p \in 1 .. Len(c)
  PROVE  /\ Unlinked(c, p) \in Seq(Entry)
         /\ Len(Unlinked(c, p)) = Len(c) - 1
         /\ \A i \in 1 .. Len(c) - 1 : Unlinked(c, p)[i] = c[IF i < p THEN i ELSE i + 1]
<1>. DEFINE a == SubSeq(c, 1, p - 1)
            b == SubSeq(c, p + 1, Len(c))
<1>1. a \in Seq(Entry) /\ Len(a) = p - 1 /\ \A i \in 1 .. p - 1 : a[i] = c[i]
  BY SMT
<1>2. b \in Seq(Entry) /\ Len(b) = Len(c) - p /\ \A i \in 1 .. Len(c) - p : b[i] = c[p + i]
  BY SMT
<1>. HIDE DEF a, b
<1>3. a \o b \in Seq(Entry) /\ Len(a \o b) = Len(c) - 1
  <2>0. a \in Seq(Entry) /\ b \in Seq(Entry)
    BY <1>1, <1>2
  <2>1. a \o b \in Seq(Entry) /\ Len(a \o b) = Len(a) + Len(b)
    BY <2>0, SMT
  <2>2. Len(c) \in Nat /\ p \in Nat
    BY SMT
  <2>. QED  BY <2>1, <2>2, <1>1, <1>2, SMT
<1>4. ASSUME NEW i \in 1 .. Len(c) - 1
      PROVE  (a \o b)[i] = c[IF i < p THEN i ELSE i + 1]
  <2>1. CASE i < p
    BY <2>1, <1>1, <1>2, SMT
  <2>2. CASE ~(i < p)
    <3>1. (a \o b)[i] = b[i - (p - 1)] /\ i - (p - 1) \in 1 .. Len(c) - p
      BY <2>2, <1>1, <1>2, SMT
    <3>. QED  BY <3>1, <2>2, <1>2, SMT
  <2>. QED  BY <2>1, <2>2
<1>. QED  BY <1>3, <1>4 DEF Unlinked, a, b

\* del unbinds the key and leaves the others.
LEMMA DelIs ==
  ASSUME NEW T, NEW R \in Content, Represents(T, R), NEW k \in Key
  PROVE  Represents(del(T, k), [R EXCEPT ![k] = NULL])
<1>. DEFINE h == hash[k]
            N == del(T, k)
            S == [R EXCEPT ![k] = NULL]
<1>1. CASE R[k] = NULL
  <2>1. N = T /\ S = R
    BY <1>1, PlacesOf DEF del, Content
  <2>. QED  BY <2>1
<1>2. CASE R[k] # NULL
  <2>. DEFINE p == FirstNode(T, k)
              at_(i) == IF i < p THEN i ELSE i + 1
  <2>. HIDE DEF h
  <2>0. h \in Slot /\ T[h] \in Seq(Entry) /\ \A s \in Slot : T[s] \in Seq(Entry)
    BY HashInTable DEF h, Represents, Tables
  <2>00. \A s \in Slot : \A i \in 1 .. Len(T[s]) : T[s][i].key \in Key
    <3>1. \A s \in Slot : \A i \in 1 .. Len(T[s]) : T[s][i] \in Entry
      BY <2>0, SMT
    <3>. QED  BY <3>1 DEF Entry
  <2>01. S[k] = NULL /\ \A q \in Key : q # k => S[q] = R[q]
    BY DEF Content
  <2>. HIDE DEF S
  <2>1. p \in 1 .. Len(T[h]) /\ T[h][p].key = k /\ Nodes(T, k) # {}
    BY <1>2, PlacesOf DEF h
  <2>2. N = [T EXCEPT ![h] = Unlinked(@, p)]
    BY <2>1 DEF del, h
  <2>. HIDE DEF p
  <2>3. N[h] = Unlinked(T[h], p) /\ \A s \in Slot : s # h => N[s] = T[s]
    BY <2>2, <2>0 DEF Represents, Tables
  <2>4. /\ N[h] \in Seq(Entry) /\ Len(N[h]) = Len(T[h]) - 1
        /\ \A i \in 1 .. Len(N[h]) : N[h][i] = T[h][at_(i)]
    <3>. HIDE DEF N
    <3>1. /\ Unlinked(T[h], p) \in Seq(Entry) /\ Len(Unlinked(T[h], p)) = Len(T[h]) - 1
          /\ \A i \in 1 .. Len(T[h]) - 1 : Unlinked(T[h], p)[i] = T[h][at_(i)]
      BY <2>1, <2>0, UnlinkedIs
    <3>. HIDE DEF at_
    <3>. QED  BY <3>1, <2>3
  <2>5. N \in Tables
    BY <2>2, <2>3, <2>4 DEF Represents, Tables
  <2>. HIDE DEF N
  <2>6. \A i \in 1 .. Len(N[h]) : at_(i) \in 1 .. Len(T[h]) /\ at_(i) # p
    BY <2>4, <2>1, <2>0, SMT
  <2>7. \A i, j \in 1 .. Len(N[h]) : at_(i) = at_(j) => i = j
    BY <2>1, <2>0, SMT
  <2>8. \A j \in 1 .. Len(T[h]) : j # p => \E i \in 1 .. Len(N[h]) : at_(i) = j
    <3>1. ASSUME NEW j \in 1 .. Len(T[h]), j < p
          PROVE  j \in 1 .. Len(N[h]) /\ at_(j) = j
      BY <3>1, <2>1, <2>0, <2>4, SMT
    <3>2. ASSUME NEW j \in 1 .. Len(T[h]), p < j
          PROVE  j - 1 \in 1 .. Len(N[h]) /\ at_(j - 1) = j
      BY <3>2, <2>1, <2>0, <2>4, SMT
    <3>. HIDE DEF at_
    <3>3. ASSUME NEW j \in 1 .. Len(T[h]), j # p
          PROVE  j < p \/ p < j
      BY <3>3, <2>1, <2>0, SMT
    <3>. QED  BY <3>1, <3>2, <3>3
  <2>. HIDE DEF at_
  <2>9. EntriesRight(N, S)
    <3>1. ASSUME NEW s \in Slot, s # h, NEW i \in 1 .. Len(N[s])
          PROVE  /\ hash[N[s][i].key] = s
                 /\ N[s][i].value = S[N[s][i].key]
                 /\ \A j \in 1 .. Len(N[s]) : N[s][i].key = N[s][j].key => i = j
      <4>1. N[s] = T[s] /\ T[s] \in Seq(Entry) /\ T[s][i].key \in Key
        BY <3>1, <2>3, <2>0, <2>00
      <4>2. hash[T[s][i].key] = s /\ T[s][i].value = R[T[s][i].key]
        BY <4>1 DEF Represents, EntriesRight
      <4>3. T[s][i].key # k
        BY <4>2, <3>1 DEF h
      <4>. QED  BY <4>1, <4>2, <4>3, <2>01, SMT DEF Represents, EntriesRight
    <3>2. ASSUME NEW i \in 1 .. Len(N[h])
          PROVE  /\ hash[N[h][i].key] = h
                 /\ N[h][i].value = S[N[h][i].key]
                 /\ \A j \in 1 .. Len(N[h]) : N[h][i].key = N[h][j].key => i = j
      <4>1. at_(i) \in 1 .. Len(T[h]) /\ at_(i) # p /\ N[h][i] = T[h][at_(i)]
        BY <2>4, <2>6
      <4>2. /\ hash[T[h][at_(i)].key] = h
            /\ T[h][at_(i)].value = R[T[h][at_(i)].key]
            /\ T[h][at_(i)].key # k /\ T[h][at_(i)].key \in Key
        BY <4>1, <2>1, <2>0, <2>00 DEF Represents, EntriesRight
      <4>3. ASSUME NEW j \in 1 .. Len(N[h]), N[h][i].key = N[h][j].key
            PROVE  i = j
        <5>1. at_(j) \in 1 .. Len(T[h]) /\ N[h][j] = T[h][at_(j)]
          BY <2>4, <2>6
        <5>2. at_(i) = at_(j)
          BY <5>1, <4>1, <4>3, <2>0, SMT DEF Represents, EntriesRight
        <5>. QED  BY <5>2, <2>7
      <4>. QED  BY <4>1, <4>2, <4>3, <2>01
    <3>. QED  BY <3>1, <3>2 DEF EntriesRight
  <2>10. EntriesThere(N, S)
    <3>1. ~ \E i \in 1 .. Len(N[h]) : N[h][i].key = k
      <4>1. \A i \in 1 .. Len(N[h]) : T[h][at_(i)].key # k
        BY <2>6, <2>1, <2>0 DEF Represents, EntriesRight
      <4>. QED  BY <4>1, <2>4
    <3>2. ASSUME NEW q \in Key, q # k, hash[q] # h
          PROVE  S[q] # NULL <=> \E i \in 1 .. Len(N[hash[q]]) : N[hash[q]][i].key = q
      BY <3>2, <2>3, HashInTable, <2>01, SMT DEF Represents, EntriesThere
    <3>3. ASSUME NEW q \in Key, q # k, hash[q] = h
          PROVE  S[q] # NULL <=> \E i \in 1 .. Len(N[hash[q]]) : N[hash[q]][i].key = q
      <4>1. S[q] = R[q]
        BY <3>3, <2>01
      <4>2. R[q] # NULL <=> \E i \in 1 .. Len(T[h]) : T[h][i].key = q
        BY <3>3 DEF Represents, EntriesThere
      <4>3. ASSUME NEW j \in 1 .. Len(T[h]), T[h][j].key = q
            PROVE  \E i \in 1 .. Len(N[h]) : N[h][i].key = q
        <5>1. PICK i \in 1 .. Len(N[h]) : at_(i) = j
          BY <4>3, <3>3, <2>8, <2>1
        <5>. QED  BY <5>1, <4>3, <2>4
      <4>4. ASSUME NEW i \in 1 .. Len(N[h]), N[h][i].key = q
            PROVE  \E j \in 1 .. Len(T[h]) : T[h][j].key = q
        BY <4>4, <2>4, <2>6
      <4>. QED  BY <4>1, <4>2, <4>3, <4>4, <3>3
    <3>4. S[k] # NULL <=> \E i \in 1 .. Len(N[hash[k]]) : N[hash[k]][i].key = k
      BY <3>1, <2>01 DEF h
    <3>5. ASSUME NEW q \in Key
          PROVE  S[q] # NULL <=> \E i \in 1 .. Len(N[hash[q]]) : N[hash[q]][i].key = q
      BY <3>2, <3>3, <3>4
    <3>. QED  BY <3>5 DEF EntriesThere
  <2>. QED  BY <2>5, <2>9, <2>10 DEF Represents, S, N
<1>. QED  BY <1>1, <1>2

----------------------------------------------------------------------------
(* The registry *)

\* fd_key and host_key of ClientManager as one map, and the table that stands for it.
Map == [k \in Key |-> Registered(k)]
TInv == Represents(clients_map, Map)

LEMMA MapTypes ==
  ASSUME IInv
  PROVE  /\ Map \in Content
         /\ \A f \in Fd : f \in Key /\ Map[f] = fd_key[f]
         /\ \A h \in Hostname : h \in Key /\ h \notin Fd /\ Map[h] = host_key[h]
BY Keys DEF IInv, cmTypeOK, Map, Registered, Content

LEMMA InitTInv == regInit => TInv
<1>. SUFFICES ASSUME regInit PROVE TInv
  OBVIOUS
<1>1. \A s \in Slot : clients_map[s] = <<>>
  BY DEF regInit, create_table
<1>2. clients_map \in Tables
  BY SMT DEF regInit, create_table, Tables
<1>3. \A k \in Key : Map[k] = NULL
  BY Keys DEF regInit, client_manager_init, Map, Registered
<1>4. EntriesThere(clients_map, Map)
  BY <1>1, <1>3, HashInTable, SMT DEF EntriesThere
<1>. QED  BY <1>1, <1>2, <1>4, SMT DEF TInv, Represents, EntriesRight

\* client_add: one set.
LEMMA AddKeepsTable ==
  ASSUME IInv, TInv, NEW t \in Thread, map_client_add(t), IInv'
  PROVE  TInv'
<1>. DEFINE p == ptr[t]
            f == heap[p].fd
<1>1. p \in Client /\ f \in Fd
  BY OwnedFd DEF IInv, PrivateStructs, Private, map_client_add, client_add
<1>2. clients_map' = set(clients_map, f, p)
  BY DEF map_client_add
<1>3. fd_key' = [fd_key EXCEPT ![f] = p] /\ host_key' = host_key
  BY DEF map_client_add, client_add
<1>. HIDE DEF f, p
<1>4. Map' = [Map EXCEPT ![f] = p]
  BY <1>1, <1>3, Keys DEF Map, Registered, IInv, cmTypeOK
<1>. QED  BY <1>1, <1>2, <1>4, MapTypes, SetIs DEF TInv

\* client_set_hostname: nothing, or one set.
LEMMA NameKeepsTable ==
  ASSUME IInv, TInv, NEW t \in Thread, NEW f \in Fd, NEW h \in Hostname,
         map_client_set_hostname(t, f, h)
  PROVE  TInv'
<1>1. get(clients_map, f) = fd_key[f] /\ f \in Key /\ h \in Key /\ h \notin Fd
  BY MapTypes, GetIs DEF TInv
<1>2. CASE fd_key[f] = NULL
  <2>1. clients_map' = clients_map /\ fd_key' = fd_key /\ host_key' = host_key
    BY <1>1, <1>2 DEF map_client_set_hostname, client_set_hostname
  <2>2. Map' = Map
    BY <2>1 DEF Map, Registered
  <2>. QED  BY <2>1, <2>2 DEF TInv
<1>3. CASE fd_key[f] # NULL
  <2>. DEFINE p == fd_key[f]
  <2>1. p \in Client
    BY <1>3 DEF IInv, cmTypeOK
  <2>2. clients_map' = set(clients_map, h, p)
    BY <1>1, <1>3 DEF map_client_set_hostname
  <2>3. fd_key' = fd_key /\ host_key' = [host_key EXCEPT ![h] = p]
    BY <1>3 DEF map_client_set_hostname, client_set_hostname, set_hostname_key
  <2>. HIDE DEF p
  <2>4. Map' = [Map EXCEPT ![h] = p]
    BY <1>1, <2>1, <2>3, Keys DEF Map, Registered, IInv, cmTypeOK
  <2>. QED  BY <1>1, <2>1, <2>2, <2>4, MapTypes, SetIs DEF TInv
<1>. QED  BY <1>2, <1>3

\* client_remove: nothing, or one or two dels.
LEMMA RemoveKeepsTable ==
  ASSUME IInv, TInv, NEW t \in Thread, NEW f \in Fd, map_client_remove(t, f)
  PROVE  TInv'
<1>1. get(clients_map, f) = fd_key[f] /\ f \in Key /\ Map \in Content
  BY MapTypes, GetIs DEF TInv
<1>2. CASE fd_key[f] = NULL
  <2>1. clients_map' = clients_map /\ fd_key' = fd_key /\ host_key' = host_key
    BY <1>1, <1>2 DEF map_client_remove, client_remove
  <2>2. Map' = Map
    BY <2>1 DEF Map, Registered
  <2>. QED  BY <2>1, <2>2 DEF TInv
<1>3. CASE fd_key[f] # NULL
  <2>. DEFINE p == fd_key[f]
              without == del(clients_map, f)
              h == heap[p].hostname
              R1 == [Map EXCEPT ![f] = NULL]
  <2>1. p \in Client /\ h \in Hostname \cup {NULL}
    <3>1. p \in Client
      BY <1>3 DEF IInv, cmTypeOK
    <3>. HIDE DEF p
    <3>2. heap[p] \in Structs
      BY <3>1 DEF IInv, cmTypeOK
    <3>. QED  BY <3>1, <3>2 DEF Structs
  <2>2. clients_map' = IF h # NULL /\ get(without, h) = p THEN del(without, h) ELSE without
    BY <1>1, <1>3 DEF map_client_remove, del_client
  <2>3. /\ fd_key' = [fd_key EXCEPT ![f] = NULL]
        /\ host_key' = [q \in Hostname |-> IF q = h /\ host_key[q] = p THEN NULL ELSE host_key[q]]
    BY <1>3 DEF map_client_remove, client_remove, del_fd_key, del_hostname_key
  <2>4. Represents(without, R1) /\ R1 \in Content
    BY <1>1, DelIs DEF TInv, Content
  <2>5. \A q \in Hostname : q \in Key /\ q \notin Fd /\ R1[q] = host_key[q]
    BY <1>1, MapTypes DEF Content
  <2>6. DOMAIN Map = Key /\ DOMAIN Map' = Key /\ DOMAIN R1 = Key
    BY DEF Map
  <2>7. /\ \A q \in Fd : q \in Key /\ R1[q] = Map'[q]
        /\ \A q \in Hostname : Map'[q] = IF q = h /\ host_key[q] = p THEN NULL ELSE host_key[q]
    <3>1. \A q \in Key : Map[q] = Registered(q) /\ Map'[q] = Registered(q)'
      BY DEF Map
    <3>2. \A q \in Fd : q \in Key /\ Map[q] = fd_key[q] /\ Map'[q] = fd_key'[q]
      BY <3>1, Keys DEF Registered
    <3>3. \A q \in Fd : fd_key'[q] = IF q = f THEN NULL ELSE fd_key[q]
      BY <2>3 DEF IInv, cmTypeOK
    <3>4. \A q \in Key : R1[q] = IF q = f THEN NULL ELSE Map[q]
      BY <2>6
    <3>5. \A q \in Hostname : Map'[q] = host_key'[q]
      BY <3>1, Keys DEF Registered
    <3>. HIDE DEF R1, h, p
    <3>. QED  BY <3>2, <3>3, <3>4, <3>5, <2>3, SMT
  <2>. HIDE DEF p, without, h, R1
  <2>8. CASE h # NULL /\ host_key[h] = p
    <3>1. h \in Hostname /\ h \in Key /\ h \notin Fd /\ R1[h] = p
      BY <2>8, <2>1, <2>5
    <3>2. get(without, h) = p
      BY <3>1, <2>4, GetIs
    <3>3. Map' = [R1 EXCEPT ![h] = NULL]
      <4>1. Map' = [q \in Key |-> Map'[q]]
        BY DEF Map
      <4>2. \A q \in Key : Map'[q] = [R1 EXCEPT ![h] = NULL][q]
        BY <3>1, <2>5, <2>6, <2>7, <2>8, Keys
      <4>. QED  BY <4>1, <4>2, <2>6, <2>4 DEF Content
    <3>4. Represents(del(without, h), Map')
      BY <3>1, <3>3, <2>4, DelIs
    <3>. QED  BY <3>2, <3>4, <2>2, <2>8 DEF TInv
  <2>9. CASE ~(h # NULL /\ host_key[h] = p)
    <3>1. clients_map' = without
      <4>1. CASE h = NULL
        BY <4>1, <2>2
      <4>2. CASE h # NULL
        <5>1. get(without, h) = host_key[h]
          BY <4>2, <2>1, <2>4, <2>5, GetIs
        <5>. QED  BY <5>1, <4>2, <2>2, <2>9
      <4>. QED  BY <4>1, <4>2
    <3>2. Map' = R1
      <4>1. Map' = [q \in Key |-> Map'[q]] /\ R1 = [q \in Key |-> R1[q]]
        BY <2>4 DEF Map, Content
      <4>2. \A q \in Key : Map'[q] = R1[q]
        BY <2>5, <2>7, <2>9, <2>1, Keys, NullIsNoClient
      <4>. QED  BY <4>1, <4>2
    <3>. QED  BY <3>1, <3>2, <2>4 DEF TInv
  <2>. QED  BY <2>8, <2>9
<1>. QED  BY <1>2, <1>3

\* No other function changes the keys.
LEMMA ReadsKeepKeys == cmReads => UNCHANGED <<fd_key, host_key>>
<1>1. /\ \A p \in Client : grow_idle(p) => UNCHANGED <<fd_key, host_key>>
      /\ \A f \in Fd : accept_lobby(f) \/ close_lobby(f) => UNCHANGED <<fd_key, host_key>>
      /\ \A e \in fds_to_remove : sweep_next(e) => UNCHANGED <<fd_key, host_key>>
  BY DEF grow_idle, accept_lobby, close_lobby, sweep_next
<1>2. ASSUME NEW t \in Thread, NEW p
      PROVE  /\ \A f \in Fd : accept_vault(t, f, p) => UNCHANGED <<fd_key, host_key>>
             /\ \A s : get_wait(t, p, s) => UNCHANGED <<fd_key, host_key>>
             /\ get_lock(t, p) \/ get_visit(t, p) => UNCHANGED <<fd_key, host_key>>
             /\ \A b : walk_visit(t, p, b) => UNCHANGED <<fd_key, host_key>>
  BY DEF accept_vault, get_wait, get_lock, get_visit, walk_visit
<1>3. ASSUME NEW t \in Thread
      PROVE  /\ touch(t) \/ client_unlock(t) => UNCHANGED <<fd_key, host_key>>
             /\ client_set_hostname_copy(t) \/ client_remove_destroy(t) => UNCHANGED <<fd_key, host_key>>
             /\ walk_begin(t) \/ walk_end(t) => UNCHANGED <<fd_key, host_key>>
  BY DEF touch, client_unlock, client_set_hostname_copy, client_remove_destroy, walk_begin, walk_end
<1>. QED  BY <1>1, <1>2, <1>3 DEF cmReads

\* A step over the hash table is a step of the registry.
LEMMA TableIsRegistry == regSpec => cmSpec
<1>1. regInit => client_manager_init
  BY DEF regInit
<1>2. [regNext]_regVars => [cmNext]_cmVars
  BY DEF regNext, regVars, cmNext, map_client_add, map_client_remove, map_client_set_hostname
<1>. QED  BY <1>1, <1>2, PTL DEF regSpec, cmSpec

LEMMA NextTInv == IInv /\ IInv' /\ TInv /\ [regNext]_regVars => TInv'
<1>. SUFFICES ASSUME IInv, IInv', TInv, [regNext]_regVars PROVE TInv'
  OBVIOUS
<1>1. ASSUME NEW t \in Thread, map_client_add(t) PROVE TInv'
  BY <1>1, AddKeepsTable
<1>2. ASSUME NEW t \in Thread, NEW f \in Fd, map_client_remove(t, f) PROVE TInv'
  BY <1>2, RemoveKeepsTable
<1>3. ASSUME NEW t \in Thread, NEW f \in Fd, NEW h \in Hostname, map_client_set_hostname(t, f, h)
      PROVE TInv'
  BY <1>3, NameKeepsTable
<1>4. ASSUME UNCHANGED <<fd_key, host_key, clients_map>> PROVE TInv'
  <2>1. Map' = Map
    BY <1>4 DEF Map, Registered
  <2>. QED  BY <2>1, <1>4 DEF TInv
<1>5. CASE cmReads /\ UNCHANGED clients_map
  BY <1>4, <1>5, ReadsKeepKeys
<1>6. CASE UNCHANGED regVars
  BY <1>4, <1>6 DEF regVars, cmVars
<1>. QED  BY <1>1, <1>2, <1>3, <1>5, <1>6 DEF regNext

\* Whatever the hash function, the number of slots and the collisions, the chains of
\* hash.c hold exactly the descriptor and hostname keys the registry relies on.
THEOREM ChainsAreTheMap == regSpec => []TableAgrees
<1>1. IInv /\ TInv => TableAgrees
  <2>. SUFFICES ASSUME IInv, TInv PROVE TableAgrees
    OBVIOUS
  <2>1. \A k \in Key : get(clients_map, k) = Map[k] /\ Map[k] = Registered(k)
    BY MapTypes, GetIs DEF TInv, Map
  <2>2. \A s \in Slot : clients_map[s] \in Seq(Entry)
    BY DEF TInv, Represents, Tables
  <2>3. \A s \in Slot : \A i \in 1 .. Len(clients_map[s]) : clients_map[s][i].key \in Key
    <3>1. \A s \in Slot : \A i \in 1 .. Len(clients_map[s]) : clients_map[s][i] \in Entry
      BY <2>2, SMT
    <3>. QED  BY <3>1 DEF Entry
  <2>4. \A s \in Slot : DOMAIN clients_map[s] = 1 .. Len(clients_map[s])
    BY <2>2, SMT
  <2>. QED  BY <2>1, <2>3, <2>4, SMT DEF TableAgrees, TInv, Represents, EntriesRight
<1>2. regSpec => []IInv
  BY TableIsRegistry, Inductive, PTL
<1>3. regSpec /\ []IInv => []TInv
  <2>1. regInit => TInv
    BY InitTInv
  <2>2. IInv /\ IInv' /\ TInv /\ [regNext]_regVars => TInv'
    BY NextTInv
  <2>. QED  BY <2>1, <2>2, PTL DEF regSpec
<1>. QED  BY <1>1, <1>2, <1>3, PTL

----------------------------------------------------------------------------
(* The line buffer of a client, for any array, read and line sizes and any *)
(* bytes: no search runs past the content, and the lines that the worker   *)
(* takes are the lines of the peer's stream.                               *)

\* The inductive invariant.
lbInv ==
  /\ buffer \in [Index -> Byte]
  /\ ContentTerminated

\* Writing the zero byte behind the content.
LEMMA TerminateWrites ==
  ASSUME NEW b \in [Index -> Byte], NEW n \in Index
  PROVE  Terminate(b, n) \in [Index -> Byte] /\ Terminate(b, n)[n] = NUL
PROOF
  BY Bytes DEF Terminate

\* SSL_read returns a byte string of some length.
LEMMA ReadIsSequence ==
  ASSUME NEW data \in Reads
  PROVE  Len(data) \in Nat /\ data \in [1 .. Len(data) -> Byte]
PROOF
  <1>1. PICK m \in 1 .. READ_MAX : data \in [1 .. m -> Byte]
    BY DEF Reads
  <1>2. m \in Nat /\ data \in Seq(Byte)
    BY <1>1, Sizes, SMT
  <1> QED
    BY <1>2, SMT

\* The newline that strchr finds lies inside the content.
LEMMA NewlineInside ==
  ASSUME lbInv, buffer_len # 0, NEW i \in Newline
  PROVE  i \in 0 .. buffer_len - 1
PROOF
  <1>1. buffer_len \in 1 .. SIZE - 1 /\ buffer[buffer_len] = NUL
    BY Sizes, SMT DEF lbInv, ContentTerminated
  <1>2. i \in 0 .. SIZE - 1 /\ buffer[i] = NL /\ \A j \in 0 .. i - 1 : buffer[j] # NUL
    BY DEF Newline, Index
  <1>3. i # buffer_len
    BY <1>1, <1>2, Bytes
  <1>4. ~(buffer_len < i)
    BY <1>1, <1>2, Sizes, SMT
  <1> QED
    BY <1>1, <1>2, <1>3, <1>4, Sizes, SMT

LEMMA lbInductive ==
  lbInv /\ [lbNext]_lbVars => lbInv'
PROOF
  <1> SUFFICES ASSUME lbInv, [lbNext]_lbVars
               PROVE  lbInv'
    OBVIOUS
  <1>1. buffer \in [Index -> Byte] /\ buffer_len \in 0 .. SIZE - 1
    BY DEF lbInv, ContentTerminated
  <1>2. ASSUME NEW data \in Reads, client_buffer_append(data)
        PROVE  lbInv'
    <2>1. Len(data) \in Nat /\ data \in [1 .. Len(data) -> Byte]
      BY ReadIsSequence
    <2>2. CASE Overflows(Len(data))
      BY <1>1, <1>2, <2>2, Sizes, SMT DEF client_buffer_append, lbInv, ContentTerminated
    <2>3. CASE ~Overflows(Len(data))
      <3> DEFINE n == buffer_len + Len(data)
      <3>1. n \in Index
        BY <1>1, <2>1, <2>3, Sizes, SMT DEF Overflows, Index
      <3>2. Copy(data) \in [Index -> Byte]
        BY <1>1, <2>1, SMT DEF Copy, Index
      <3>3. buffer' = Terminate(Copy(data), n) /\ buffer_len' = n
        BY <1>2, <2>3 DEF client_buffer_append
      <3> HIDE DEF n
      <3>4. buffer' \in [Index -> Byte] /\ buffer'[n] = NUL
        BY <3>1, <3>2, <3>3, TerminateWrites
      <3> QED
        BY <3>1, <3>3, <3>4 DEF lbInv, ContentTerminated, Index
    <2> QED
      BY <2>2, <2>3
  <1>3. ASSUME client_buffer_extract_line
        PROVE  lbInv'
    <2>1. PICK i \in Newline :
            /\ buffer' = Terminate(Move(Consumed(i), buffer_len - Consumed(i)), buffer_len - Consumed(i))
            /\ buffer_len' = buffer_len - Consumed(i)
      BY <1>3 DEF client_buffer_extract_line
    <2>2. i \in 0 .. buffer_len - 1
      BY <1>3, NewlineInside DEF client_buffer_extract_line
    <2> DEFINE n == buffer_len - Consumed(i)
    <2>3. n \in Index /\ n + Consumed(i) <= SIZE - 1
      BY <1>1, <2>2, Sizes, SMT DEF Consumed, Index
    <2>4. Move(Consumed(i), n) \in [Index -> Byte]
      <3>1. \A k \in Index : k < n => k + Consumed(i) \in Index
        BY <1>1, <2>2, <2>3, Sizes, SMT DEF Consumed, Index
      <3> QED
        BY <1>1, <3>1 DEF Move
    <2>5. buffer' = Terminate(Move(Consumed(i), n), n) /\ buffer_len' = n
      BY <2>1
    <2> HIDE DEF n
    <2>6. buffer' \in [Index -> Byte] /\ buffer'[n] = NUL
      BY <2>3, <2>4, <2>5, TerminateWrites
    <2> QED
      BY <2>3, <2>5, <2>6 DEF lbInv, ContentTerminated, Index
  <1>4. CASE extract_fails \/ UNCHANGED lbVars
    BY <1>4 DEF extract_fails, lbVars, lbInv, ContentTerminated
  <1> QED
    BY <1>2, <1>3, <1>4 DEF lbNext, ssl_read

\* client_buffer_append and client_buffer_extract_line keep buffer_len inside the array
\* and the zero byte behind every non-empty content, so strchr stops where the content
\* does, whatever malloc, overflows and earlier contents have left behind it.
THEOREM BufferIsTerminated ==
  lbSpec => []ContentTerminated
PROOF
  <1>1. lbInit => lbInv
    BY Sizes, SMT DEF lbInit, lbInv, ContentTerminated
  <1>2. lbInv => ContentTerminated
    BY DEF lbInv
  <1> QED
    BY <1>1, <1>2, lbInductive, PTL DEF lbSpec

\* Every set of naturals that is not empty has a least element.
LEMMA LeastElement ==
  ASSUME NEW T, T \subseteq Nat, T # {}
  PROVE  \E x \in T : \A y \in T : x <= y
<1>. DEFINE R == OpToRel(<, Nat)
<1>1. IsWellFoundedOn(R, Nat)
  BY NatLessThanWellFounded
<1>2. \A x, y \in Nat : y < x => <<y, x>> \in R
  BY SMT DEF OpToRel
<1>. HIDE DEF R
<1>3. PICK x \in T : \A y \in T : ~ (<<y, x>> \in R)
  BY <1>1, WFMin
<1>4. \A y \in T : ~(y < x)
  BY <1>2, <1>3
<1>. QED  BY <1>4, SMT

\* The content, byte by byte.
LEMMA ContentBytes ==
  ASSUME NEW s \in Seq(Byte), NEW n \in 0 .. Len(s), NEW b
  PROVE  [k \in 1 .. n |-> b[k - 1]] = SubSeq(s, Len(s) - n + 1, Len(s))
           <=> \A k \in 1 .. n : b[k - 1] = s[Len(s) - n + k]
<1>. DEFINE t == SubSeq(s, Len(s) - n + 1, Len(s))
<1>1. Len(s) \in Nat /\ n \in Nat
  BY SMT
<1>2. t \in Seq(Byte) /\ Len(t) = n /\ \A k \in 1 .. n : t[k] = s[Len(s) - n + k]
  <2>1. Len(s) - n + 1 \in 1 .. Len(s) + 1 /\ Len(s) - (Len(s) - n + 1) + 1 = n
    BY <1>1, SMT
  <2>2. t \in Seq(Byte) /\ Len(t) = n
    BY <1>1, <2>1, SMT
  <2>3. \A k \in 1 .. n : t[k] = s[Len(s) - n + k]
    BY <1>1, <2>1, SMT
  <2>. QED  BY <2>2, <2>3
<1>. HIDE DEF t
<1>3. t = [k \in 1 .. Len(t) |-> t[k]]
  BY <1>2, SMT
<1>. QED  BY <1>2, <1>3 DEF t

LEMMA LineBytes ==
  ASSUME NEW s \in Seq(Byte), NEW a \in Nat, NEW i \in Nat, a + i <= Len(s),
         NEW f \in [1 .. i -> Byte], \A k \in 1 .. i : f[k] = s[a + k]
  PROVE  f = SubSeq(s, a + 1, a + i)
<1>. DEFINE t == SubSeq(s, a + 1, a + i)
<1>1. /\ t = [k \in 1 .. Len(t) |-> t[k]] /\ Len(t) = i
      /\ \A k \in 1 .. i : t[k] = s[a + k]
  BY SMT
<1>. HIDE DEF t
<1>2. f = t
  BY <1>1
<1>. QED  BY <1>2 DEF t

LEMMA SameBytes ==
  ASSUME NEW s \in Seq(Byte), NEW t \in Seq(Byte), NEW p \in Nat, p <= Len(s), p <= Len(t),
         \A q \in 1 .. p : s[q] = t[q], NEW o \in 0 .. p - 1
  PROVE  SubSeq(s, o + 1, p - 1) = SubSeq(t, o + 1, p - 1)
<1>. DEFINE u == SubSeq(s, o + 1, p - 1)
            v == SubSeq(t, o + 1, p - 1)
<1>1. /\ u = [k \in 1 .. Len(u) |-> u[k]] /\ Len(u) = p - 1 - o
      /\ \A k \in 1 .. p - 1 - o : u[k] = s[o + k] /\ o + k \in 1 .. p
  BY SMT
<1>2. /\ v = [k \in 1 .. Len(v) |-> v[k]] /\ Len(v) = p - 1 - o
      /\ \A k \in 1 .. p - 1 - o : v[k] = t[o + k]
  BY SMT
<1>. HIDE DEF u, v
<1>3. u = v
  BY <1>1, <1>2
<1>. QED  BY <1>3 DEF u, v

LEMMA LineNumbers ==
  ASSUME NEW s, NEW n \in Nat
  PROVE  /\ LineNo(s, n) \in Nat /\ LineNo(s, 0) = 0
         /\ \A p \in 1 .. n : s[p] = NL => LineNo(s, p) \in 1 .. LineNo(s, n)
<1>. DEFINE N(p) == {q \in 1 .. p : s[q] = NL}
<1>1. \A p \in Nat : IsFiniteSet(N(p)) /\ Cardinality(N(p)) \in Nat
  <2>. TAKE p \in Nat
  <2>1. IsFiniteSet(1 .. p)
    BY FS_Interval, SMT
  <2>. QED  BY <2>1, FS_Subset, FS_CardinalityType
<1>2. N(0) = {}
  BY SMT
<1>3. ASSUME NEW p \in 1 .. n, s[p] = NL
      PROVE  LineNo(s, p) \in 1 .. LineNo(s, n)
  <2>1. p \in Nat /\ p \in N(p) /\ N(p) \subseteq N(n)
    BY <1>3, SMT
  <2>2. Cardinality(N(p)) # 0
    BY <1>1, <2>1, FS_EmptySet
  <2>3. Cardinality(N(p)) <= Cardinality(N(n))
    BY <1>1, <2>1, FS_Subset
  <2>. HIDE DEF N
  <2>4. Cardinality(N(p)) \in 1 .. Cardinality(N(n))
    BY <1>1, <2>1, <2>2, <2>3, SMT
  <2>. QED  BY <2>4 DEF LineNo, N
<1>. QED  BY <1>1, <1>2, <1>3, FS_EmptySet DEF LineNo

\* The next newline ends the next line.
LEMMA NextLine ==
  ASSUME NEW s, NEW n \in Nat, NEW i \in Nat, s[n + i + 1] = NL,
         \A q \in n + 1 .. n + i : s[q] # NL
  PROVE  LineNo(s, n + i + 1) = LineNo(s, n) + 1
<1>. DEFINE N(p) == {q \in 1 .. p : s[q] = NL}
<1>1. IsFiniteSet(N(n))
  <2>1. IsFiniteSet(1 .. n)
    BY FS_Interval, SMT
  <2>. QED  BY <2>1, FS_Subset
<1>2. N(n + i + 1) = N(n) \cup {n + i + 1} /\ n + i + 1 \notin N(n)
  BY SMT
<1>. HIDE DEF N
<1>3. Cardinality(N(n + i + 1)) = Cardinality(N(n)) + 1
  BY <1>1, <1>2, FS_AddElement
<1>. QED  BY <1>3 DEF LineNo, N

\* Bytes that come later do not change the lines before them.
LEMMA LinesStay ==
  ASSUME NEW s, NEW t, NEW n \in Nat, \A q \in 1 .. n : s[q] = t[q]
  PROVE  \A p \in 0 .. n : /\ LineNo(s, p) = LineNo(t, p)
                           /\ \A o \in 0 .. p - 1 : IsLine(s, o, p) <=> IsLine(t, o, p)
<1>. TAKE p \in 0 .. n
<1>1. {q \in 1 .. p : s[q] = NL} = {q \in 1 .. p : t[q] = NL}
  BY SMT
<1>2. ASSUME NEW o \in 0 .. p - 1 PROVE IsLine(s, o, p) <=> IsLine(t, o, p)
  <2>1. p \in 1 .. n /\ (o # 0 => o \in 1 .. n) /\ o + 1 .. p - 1 \subseteq 1 .. n
    BY SMT
  <2>. QED  BY <2>1 DEF IsLine
<1>. QED  BY <1>1, <1>2 DEF LineNo

\* The inductive invariant, with lbInv.
NoZero(s) == \A k \in 1 .. Len(s) : s[k] # NUL
streamInv ==
  /\ sent \in Seq(Byte) /\ lines \in Seq(Seq(Byte)) /\ buffer_len \in 0 .. Len(sent)
  /\ LinesOfTheStream

LEMMA StreamBegins ==
  ASSUME sent = <<>>, lines = <<>>, buffer_len = 0
  PROVE  streamInv
<1>1. Len(sent) = 0 /\ Len(lines) = 0 /\ Taken = 0
  BY SMT DEF Taken
<1>2. Contents = SubSeq(sent, Taken + 1, Len(sent))
  BY <1>1, SMT DEF Contents
<1>3. sent \in Seq(Byte) /\ lines \in Seq(Seq(Byte)) /\ buffer_len \in 0 .. Len(sent)
  BY <1>1, SMT
<1>4. LineNo(sent, 0) = 0
  BY LineNumbers, 0 \in Nat
<1>5. 1 .. 0 = {}
  BY SMT
<1>. QED  BY <1>1, <1>2, <1>3, <1>4, <1>5 DEF streamInv, LinesOfTheStream

\* A read that fits comes behind the content, and so behind the stream.
LEMMA AppendKeepsStream ==
  ASSUME lbInv, streamInv, NEW data \in Reads, ~Overflows(Len(data)),
         client_buffer_append(data), looping'
  PROVE  streamInv'
<1>. DEFINE n == buffer_len
            m == Len(data)
<1>1. /\ m \in Nat /\ data \in [1 .. m -> Byte] /\ n \in Nat /\ n + m < SIZE
      /\ data \in Seq(Byte)
  BY ReadIsSequence, Sizes, SMT DEF Overflows, lbInv, ContentTerminated
<1>2. /\ buffer' = Terminate(Copy(data), n + m) /\ buffer_len' = n + m
      /\ sent' = sent \o data /\ lines' = lines
  BY DEF client_buffer_append
<1>3. /\ sent' \in Seq(Byte) /\ Len(sent') = Len(sent) + m
      /\ Len(sent) \in Nat /\ n <= Len(sent)
      /\ \A k \in 1 .. Len(sent) : sent'[k] = sent[k]
      /\ \A k \in 1 .. m : sent'[Len(sent) + k] = data[k]
  BY <1>1, <1>2, SMT DEF streamInv
<1>4. Taken \in Nat /\ Taken <= Len(sent) /\ Taken' = Taken /\ Taken = Len(sent) - n
  BY <1>1, <1>2, <1>3, SMT DEF Taken
<1>5. /\ \A k \in 1 .. n : buffer'[k - 1] = buffer[k - 1]
      /\ \A k \in n + 1 .. n + m : buffer'[k - 1] = data[k - n]
  <2>1. \A i \in Index : i # n + m => buffer'[i] = Copy(data)[i]
    BY <1>2 DEF Terminate, Copy
  <2>2. /\ \A k \in 1 .. n : k - 1 \in Index /\ k - 1 # n + m /\ k - 1 \notin n .. n + m - 1
        /\ \A k \in n + 1 .. n + m : /\ k - 1 \in Index /\ k - 1 # n + m
                                     /\ k - 1 \in n .. n + m - 1 /\ k - 1 - n + 1 = k - n
    BY <1>1, Sizes, SMT DEF Index
  <2>3. /\ \A i \in Index : i \notin n .. n + m - 1 => Copy(data)[i] = buffer[i]
        /\ \A i \in Index : i \in n .. n + m - 1 => Copy(data)[i] = data[i - n + 1]
    BY DEF Copy
  <2>. HIDE DEF n, m
  <2>. QED  BY <2>1, <2>2, <2>3
<1>. HIDE DEF n, m
<1>6. ASSUME NoZero(sent')
      PROVE  LinesOfTheStream'
  <2>1. NoZero(sent)
    BY <1>1, <1>3, <1>6, SMT DEF NoZero
  <2>2. /\ Contents = SubSeq(sent, Taken + 1, Len(sent))
        /\ Taken = 0 \/ sent[Taken] = NL
        /\ Len(lines) = LineNo(sent, Taken)
        /\ \A p \in 1 .. Taken : \A o \in 0 .. p - 1 :
             IsLine(sent, o, p) => lines[LineNo(sent, p)] = Truncated(SubSeq(sent, o + 1, p - 1))
    BY <2>1 DEF streamInv, LinesOfTheStream, NoZero
  <2>3. \A k \in 1 .. n : buffer[k - 1] = sent[Taken + k]
    BY <1>4, <2>2, ContentBytes DEF streamInv, Contents, Taken, n
  <2>4. \A k \in 1 .. n + m : buffer'[k - 1] = sent'[Taken + k]
    <3>. TAKE k \in 1 .. n + m
    <3>1. CASE k <= n
      <4>1. k \in 1 .. n /\ Taken + k \in 1 .. Len(sent)
        BY <1>1, <1>3, <1>4, <3>1, SMT
      <4>. QED  BY <1>3, <1>5, <2>3, <4>1
    <3>2. CASE k > n
      <4>1. k \in n + 1 .. n + m /\ k - n \in 1 .. m /\ Taken + k = Len(sent) + (k - n)
        BY <1>1, <1>3, <1>4, <3>2, SMT
      <4>. QED  BY <1>3, <1>5, <4>1
    <3>. QED  BY <1>1, <3>1, <3>2, SMT
  <2>5. Contents' = SubSeq(sent', Taken + 1, Len(sent'))
    <3>. DEFINE c == n + m
    <3>1. c \in 0 .. Len(sent') /\ Len(sent') - c = Taken
      BY <1>1, <1>3, <1>4, SMT
    <3>2. buffer_len' = c /\ \A k \in 1 .. c : buffer'[k - 1] = sent'[Taken + k]
      BY <1>2, <2>4 DEF n
    <3>. HIDE DEF c
    <3>3. [k \in 1 .. c |-> buffer'[k - 1]] = SubSeq(sent', Len(sent') - c + 1, Len(sent'))
      BY <1>3, <3>1, <3>2, ContentBytes
    <3>. QED  BY <3>1, <3>2, <3>3 DEF Contents
  <2>6. Taken = 0 \/ sent'[Taken] = NL
    BY <1>3, <1>4, <2>2, SMT
  <2>7. \A p \in 0 .. Taken : /\ LineNo(sent', p) = LineNo(sent, p)
                              /\ \A o \in 0 .. p - 1 : IsLine(sent', o, p) <=> IsLine(sent, o, p)
    <3>1. \A q \in 1 .. Taken : sent'[q] = sent[q]
      BY <1>3, <1>4, SMT
    <3>. QED  BY <1>4, <3>1, LinesStay
  <2>8. \A p \in 1 .. Taken : \A o \in 0 .. p - 1 :
          SubSeq(sent', o + 1, p - 1) = SubSeq(sent, o + 1, p - 1)
    <3>. TAKE p \in 1 .. Taken
    <3>1. /\ p \in Nat /\ p <= Len(sent) /\ p <= Len(sent')
          /\ \A q \in 1 .. p : q \in 1 .. Len(sent)
      BY <1>1, <1>3, <1>4, SMT
    <3>. QED  BY <1>3, <3>1, SameBytes DEF streamInv
  <2>9. Taken \in 0 .. Taken /\ 1 .. Taken \subseteq 0 .. Taken
    BY <1>4, SMT
  <2>. QED  BY <1>2, <1>4, <2>2, <2>5, <2>6, <2>7, <2>8, <2>9 DEF LinesOfTheStream, Truncated
<1>7. LinesOfTheStream'
  BY <1>6 DEF NoZero, LinesOfTheStream
<1>8. buffer_len' \in 0 .. Len(sent')
  BY <1>1, <1>2, <1>3, SMT
<1>. QED  BY <1>2, <1>3, <1>7, <1>8 DEF streamInv

\* Taking a line moves the content to behind its newline.
LEMMA ExtractKeepsStream ==
  ASSUME lbInv, streamInv, client_buffer_extract_line
  PROVE  streamInv'
<1>1. PICK i \in Newline :
        /\ lines' = Append(lines, Truncated([k \in 1 .. i |-> buffer[k - 1]]))
        /\ buffer' = Terminate(Move(i + 1, buffer_len - (i + 1)), buffer_len - (i + 1))
        /\ buffer_len' = buffer_len - (i + 1)
  BY DEF client_buffer_extract_line, Consumed
<1>. DEFINE n == buffer_len
            text == [k \in 1 .. i |-> buffer[k - 1]]
<1>2. i \in 0 .. n - 1 /\ n \in Nat /\ n < SIZE /\ n <= Len(sent) /\ i \in Nat
  BY NewlineInside, Sizes, SMT DEF client_buffer_extract_line, lbInv, ContentTerminated, streamInv
<1>3. sent' = sent /\ looping'
  BY DEF client_buffer_extract_line
<1>4. /\ Taken \in Nat /\ Taken = Len(sent) - n /\ Len(sent) \in Nat
      /\ Taken' = Taken + i + 1 /\ Taken' \in Nat /\ Taken' <= Len(sent)
  BY <1>1, <1>2, <1>3, SMT DEF Taken, streamInv
<1>5. \A k \in 1 .. n - (i + 1) : buffer'[k - 1] = buffer[k + i]
  <2>1. \A j \in Index : j < n - (i + 1) => buffer'[j] = buffer[j + (i + 1)]
    <3>1. \A j \in Index : j # n - (i + 1) => buffer'[j] = Move(i + 1, n - (i + 1))[j]
      BY <1>1 DEF Terminate, Move
    <3>2. \A j \in Index : j < n - (i + 1) => Move(i + 1, n - (i + 1))[j] = buffer[j + (i + 1)]
      BY DEF Move
    <3>3. \A j \in Index : j < n - (i + 1) => j # n - (i + 1)
      BY <1>2, Sizes, SMT DEF Index
    <3>. QED  BY <3>1, <3>2, <3>3
  <2>2. \A k \in 1 .. n - (i + 1) : /\ k - 1 \in Index /\ k - 1 < n - (i + 1)
                                    /\ k - 1 + (i + 1) = k + i
    BY <1>2, Sizes, SMT DEF Index
  <2>. HIDE DEF n
  <2>. QED  BY <2>1, <2>2
<1>6. text \in [1 .. i -> Byte] /\ text \in Seq(Byte) /\ Len(text) = i
  <2>1. \A k \in 1 .. i : buffer[k - 1] \in Byte
    BY <1>2, Sizes, SMT DEF lbInv, Index
  <2>. QED  BY <1>2, <2>1, SMT
<1>7. Truncated(text) \in Seq(Byte)
  <2>. HIDE DEF text
  <2>. QED  BY <1>2, <1>6, Sizes, SMT DEF Truncated
<1>8. lines' \in Seq(Seq(Byte)) /\ Len(lines') = Len(lines) + 1 /\ Len(lines) \in Nat
  <2>. HIDE DEF text
  <2>. QED  BY <1>1, <1>7, SMT DEF streamInv, text
<1>. HIDE DEF n
<1>9. ASSUME NoZero(sent)
      PROVE  LinesOfTheStream'
  <2>1. /\ Contents = SubSeq(sent, Taken + 1, Len(sent))
        /\ Taken = 0 \/ sent[Taken] = NL
        /\ Len(lines) = LineNo(sent, Taken)
        /\ \A p \in 1 .. Taken : \A o \in 0 .. p - 1 :
             IsLine(sent, o, p) => lines[LineNo(sent, p)] = Truncated(SubSeq(sent, o + 1, p - 1))
    BY <1>9 DEF streamInv, LinesOfTheStream, NoZero
  <2>2. \A k \in 1 .. n : buffer[k - 1] = sent[Taken + k]
    <3>1. sent \in Seq(Byte) /\ n \in 0 .. Len(sent)
      BY DEF streamInv, n
    <3>2. [k \in 1 .. n |-> buffer[k - 1]] = SubSeq(sent, Len(sent) - n + 1, Len(sent))
      BY <1>4, <2>1 DEF Contents, n
    <3>3. \A k \in 1 .. n : buffer[k - 1] = sent[Len(sent) - n + k]
      BY <3>1, <3>2, ContentBytes
    <3>. QED  BY <1>4, <3>3
  <2>3. Contents' = SubSeq(sent', Taken' + 1, Len(sent'))
    <3>1. \A k \in 1 .. n - (i + 1) : buffer'[k - 1] = sent[Taken' + k]
      <4>. TAKE k \in 1 .. n - (i + 1)
      <4>1. PICK j \in 1 .. n : j - 1 = k + i /\ Taken + j = Taken' + k
        BY <1>2, <1>4, SMT
      <4>. QED  BY <1>5, <2>2, <4>1
    <3>2. n - (i + 1) \in 0 .. Len(sent) /\ Len(sent) - (n - (i + 1)) = Taken'
      BY <1>2, <1>4, SMT
    <3>3. buffer_len' = n - (i + 1)
      BY <1>1 DEF n
    <3>. QED  BY <1>3, <3>1, <3>2, <3>3, ContentBytes DEF streamInv, Contents
  <2>4. /\ sent[Taken + i + 1] = NL
        /\ \A q \in Taken + 1 .. Taken + i : sent[q] # NL
    <3>1. buffer[i] = NL /\ \A j \in 0 .. i - 1 : buffer[j] # NL
      BY DEF Newline
    <3>2. PICK j \in 1 .. n : j - 1 = i /\ Taken + j = Taken + i + 1
      BY <1>2, <1>4, SMT
    <3>3. sent[Taken + i + 1] = NL
      BY <2>2, <3>1, <3>2
    <3>4. ASSUME NEW q \in Taken + 1 .. Taken + i PROVE sent[q] # NL
      <4>1. /\ q - Taken \in 1 .. n /\ q - Taken - 1 \in 0 .. i - 1 /\ Taken + (q - Taken) = q
        BY <1>2, <1>4, SMT
      <4>. QED  BY <2>2, <3>1, <4>1
    <3>. QED  BY <3>3, <3>4
  <2>5. LineNo(sent, Taken + i + 1) = Len(lines) + 1
    <3>1. i \in Nat /\ Taken \in Nat
      BY <1>2, <1>4
    <3>2. LineNo(sent, Taken + i + 1) = LineNo(sent, Taken) + 1
      BY <2>4, <3>1, NextLine
    <3>. QED  BY <2>1, <3>2
  <2>6. text = SubSeq(sent, Taken + 1, Taken + i)
    <3>1. /\ Taken \in Nat /\ i \in Nat /\ Taken + i <= Len(sent)
          /\ \A k \in 1 .. i : k \in 1 .. n
      BY <1>2, <1>4, SMT
    <3>2. \A k \in 1 .. i : text[k] = sent[Taken + k]
      BY <2>2, <3>1
    <3>3. text \in [1 .. i -> Byte] /\ sent \in Seq(Byte)
      BY <1>6 DEF streamInv
    <3>. HIDE DEF text
    <3>. QED  BY <3>1, <3>2, <3>3, LineBytes
  <2>7. ASSUME NEW p \in 1 .. Taken', NEW o \in 0 .. p - 1, IsLine(sent, o, p)
        PROVE  lines'[LineNo(sent, p)] = Truncated(SubSeq(sent, o + 1, p - 1))
    <3>1. CASE p <= Taken
      <4>1. p \in 1 .. Taken /\ sent[p] = NL
        BY <1>4, <2>7, <3>1, SMT DEF IsLine
      <4>2. LineNo(sent, p) \in 1 .. Len(lines)
        BY <1>4, <2>1, <4>1, LineNumbers
      <4>3. lines'[LineNo(sent, p)] = lines[LineNo(sent, p)]
        <5>. HIDE DEF text
        <5>. QED  BY <1>1, <1>7, <4>2, SMT DEF streamInv, text
      <4>. QED  BY <2>1, <2>7, <4>1, <4>3
    <3>2. CASE p > Taken
      <4>1. p = Taken + i + 1
        <5>1. p \notin Taken + 1 .. Taken + i
          BY <2>4, <2>7 DEF IsLine
        <5>. QED  BY <1>2, <1>4, <3>2, <5>1, SMT
      <4>2. o = Taken
        <5>1. ~(o < Taken)
          BY <1>2, <1>4, <2>1, <2>7, <4>1, SMT DEF IsLine
        <5>2. ~(o > Taken)
          <6>1. o = 0 \/ o \notin Taken + 1 .. Taken + i
            BY <2>4, <2>7 DEF IsLine
          <6>. QED  BY <1>2, <1>4, <4>1, <6>1, SMT
        <5>. QED  BY <1>4, <5>1, <5>2, SMT
      <4>3. p - 1 = Taken + i
        BY <1>2, <1>4, <4>1, SMT
      <4>4. lines'[Len(lines) + 1] = Truncated(text)
        <5>. HIDE DEF text
        <5>. QED  BY <1>1, <1>7, <1>8, SMT DEF streamInv, text
      <4>. QED  BY <2>5, <2>6, <4>1, <4>2, <4>3, <4>4
    <3>. QED  BY <1>4, <3>1, <3>2, SMT
  <2>8. Len(lines') = LineNo(sent, Taken') /\ sent[Taken'] = NL
    BY <1>4, <1>8, <2>4, <2>5
  <2>. QED  BY <1>3, <2>3, <2>7, <2>8 DEF LinesOfTheStream, Truncated
<1>10. LinesOfTheStream'
  BY <1>3, <1>9 DEF NoZero, LinesOfTheStream
<1>11. buffer_len' \in 0 .. Len(sent')
  BY <1>1, <1>2, <1>3, <1>4, SMT DEF n
<1>. QED  BY <1>3, <1>8, <1>10, <1>11 DEF streamInv

\* When strchr finds nothing, no complete line is left.
LEMMA FailKeepsStream ==
  ASSUME lbInv, streamInv, extract_fails
  PROVE  streamInv'
<1>1. UNCHANGED <<buffer, buffer_len, sent, lines>> /\ (buffer_len = 0 \/ Newline = {})
  BY DEF extract_fails
<1>2. ASSUME NoZero(sent), NEW k \in 1 .. buffer_len, Contents[k] = NL
      PROVE  FALSE
  <2>. DEFINE T == {j \in 0 .. buffer_len - 1 : buffer[j] = NL}
  <2>1. buffer_len \in Nat /\ buffer_len < SIZE /\ buffer_len <= Len(sent)
    BY Sizes, SMT DEF lbInv, ContentTerminated, streamInv
  <2>2. k - 1 \in 0 .. buffer_len - 1 /\ buffer[k - 1] = NL /\ buffer_len # 0
    BY <1>2, <2>1, SMT DEF Contents
  <2>3. T # {} /\ T \subseteq Nat
    BY <2>1, <2>2, SMT
  <2>4. PICK x \in T : \A y \in T : x <= y
    <3>. HIDE DEF T
    <3>. QED  BY <2>3, LeastElement
  <2>5. \A j \in 0 .. x - 1 : buffer[j] # NL
    BY <2>1, <2>4, SMT
  <2>6. \A j \in 0 .. x - 1 : buffer[j] # NUL
    <3>1. \A l \in 1 .. buffer_len : buffer[l - 1] = sent[Len(sent) - buffer_len + l]
      BY <1>2, ContentBytes DEF NoZero, LinesOfTheStream, streamInv, Contents, Taken
    <3>2. \A j \in 0 .. x - 1 : /\ j + 1 \in 1 .. buffer_len /\ (j + 1) - 1 = j
                                /\ Len(sent) - buffer_len + (j + 1) \in 1 .. Len(sent)
      BY <2>1, SMT DEF streamInv
    <3>3. \A j \in 0 .. x - 1 : buffer[j] = sent[Len(sent) - buffer_len + (j + 1)]
      <4>. TAKE j \in 0 .. x - 1
      <4>. QED  BY <3>1, <3>2
    <3>. QED  BY <1>2, <3>2, <3>3 DEF NoZero
  <2>7. x \in Index /\ buffer[x] = NL
    <3>1. x \in 0 .. buffer_len - 1 /\ buffer[x] = NL
      BY <2>4
    <3>. QED  BY <2>1, <3>1, Sizes, SMT DEF Index
  <2>. QED  BY <1>1, <2>2, <2>5, <2>6, <2>7 DEF Newline
<1>3. LinesOfTheStream'
  BY <1>1, <1>2 DEF NoZero, streamInv, LinesOfTheStream, Contents, Taken, Truncated
<1>. QED  BY <1>1, <1>3 DEF streamInv

LEMMA StreamNext == lbInv /\ streamInv /\ [lbNext]_lbVars => streamInv'
<1>. SUFFICES ASSUME lbInv, streamInv, [lbNext]_lbVars PROVE streamInv'
  OBVIOUS
<1>1. CASE ssl_read
  <2>1. PICK data \in Reads : client_buffer_append(data)
    BY <1>1 DEF ssl_read
  <2>2. looping'
    BY <1>1 DEF ssl_read
  <2>3. CASE Overflows(Len(data))
    <3>1. (sent = <<>> /\ lines = <<>> /\ buffer_len = 0)'
      BY <2>1, <2>3 DEF client_buffer_append
    <3>2. (sent = <<>> /\ lines = <<>> /\ buffer_len = 0 => streamInv)'
      BY StreamBegins, PTL
    <3>. QED  BY <3>1, <3>2
  <2>. QED  BY <2>1, <2>2, <2>3, AppendKeepsStream
<1>2. CASE UNCHANGED lbVars
  BY <1>2 DEF lbVars, streamInv, LinesOfTheStream, Contents, Taken, Truncated
<1>. QED  BY <1>1, <1>2, ExtractKeepsStream, FailKeepsStream DEF lbNext

\* However the peer's bytes come, for any sizes of the array, of the reads and of the
\* lines: the worker takes the lines of the stream from client_buffer_extract_line, each
\* once and in order, and leaves none behind before it waits for the next read.
THEOREM WorkerTakesTheLines == lbSpec => []LinesOfTheStream
<1>1. lbInit => lbInv /\ streamInv
  <2>1. lbInit => lbInv
    BY Sizes, SMT DEF lbInit, lbInv, ContentTerminated
  <2>. QED  BY <2>1, StreamBegins DEF lbInit
<1>2. lbInv /\ streamInv => LinesOfTheStream
  BY DEF streamInv
<1>. QED  BY <1>1, <1>2, lbInductive, StreamNext, PTL DEF lbSpec

----------------------------------------------------------------------------
(* The topic table: the arrays stay well formed, an iteration stays inside *)
(* them, and together they are the bounded relation Subscriptions.         *)

Unique(s) == \A j, k \in 1 .. Len(s) : s[j] = s[k] => j = k
Elements(s) == {s[k] : k \in 1 .. Len(s)}

TopicEntry == [name : Topic, subscribers : Seq(SubscriberFd)]

\* The table ts as the functions of pubsub.c leave it, and who is in it.
WellFormed(ts) ==
  /\ ts \in Seq(TopicEntry)
  /\ Len(ts) <= MAX_TOPICS
  /\ \A i, k \in 1 .. Len(ts) : ts[i].name = ts[k].name => i = k
  /\ \A i \in 1 .. Len(ts) : /\ Len(ts[i].subscribers) <= MAX_SUBSCRIBERS_PER_TOPIC
                             /\ Unique(ts[i].subscribers)

NamesOf(ts) == {ts[i].name : i \in 1 .. Len(ts)}
IsIn(ts, fd, name) ==
  \E i \in 1 .. Len(ts) : ts[i].name = name /\ fd \in Elements(ts[i].subscribers)

psTypes ==
  /\ topics \in Seq(TopicEntry)
  /\ pubsub_lock \in Thread \cup {NULL}
  /\ cursor \in [Thread -> Nat \X Nat \X Nat]

\* CursorInside says nothing of an iteration over no topic: it has no other to turn to.
NoTopicIsLast == \A t \in Thread : cursor[t][1] = 0 => cursor[t][3] = 0

\* The inductive invariant.
psInv == psTypes /\ TableWellFormed /\ CursorInside /\ NoTopicIsLast

----------------------------------------------------------------------------
(* The helpers on lists.                                                   *)

\* Where there is at most one match, the first match is that one.
LEMMA FirstOfUnique ==
  ASSUME NEW S, S \subseteq Nat, \A i, k \in S : i = k
  PROVE  /\ S = {} => First(S) = 0
         /\ \A i \in S : First(S) = i
PROOF
  <1>1. ASSUME NEW i \in S
        PROVE  First(S) = i
    <2>1. \A k \in S : i <= k
      BY <1>1, SMT
    <2> QED
      BY <1>1, <2>1 DEF First
  <1> QED
    BY <1>1 DEF First

\* A list without repetitions has as many elements as entries.
LEMMA CountElements ==
  ASSUME NEW T, NEW s \in Seq(T), Unique(s)
  PROVE  Cardinality(Elements(s)) = Len(s)
PROOF
  <1>1. s \in Bijection(1 .. Len(s), Elements(s))
    <2>1. s \in [1 .. Len(s) -> Elements(s)]
      BY SMT DEF Elements
    <2> QED
      BY <2>1 DEF Bijection, Injection, IsInjective, Surjection, Unique, Elements
  <1>2. ExistsBijection(1 .. Len(s), Elements(s))
    BY <1>1 DEF ExistsBijection
  <1> QED
    BY <1>2, FS_CountingElements, SMT

\* The loop that closes the gap takes out that entry and nothing else.
LEMMA ShiftRemoves ==
  ASSUME NEW T, NEW s \in Seq(T), Unique(s), NEW j \in 1 .. Len(s)
  PROVE  /\ Shift(s, j) \in Seq(T)
         /\ Len(Shift(s, j)) = Len(s) - 1
         /\ Unique(Shift(s, j))
         /\ Elements(Shift(s, j)) = Elements(s) \ {s[j]}
PROOF
  <1> DEFINE r == Shift(s, j)
  <1>1. /\ r \in Seq(T)
        /\ Len(r) = Len(s) - 1
        /\ \A k \in 1 .. Len(s) - 1 : r[k] = IF k < j THEN s[k] ELSE s[k + 1]
    <2>1. r \in [1 .. Len(s) - 1 -> T]
      BY SMT DEF Shift
    <2>2. Len(s) - 1 \in Nat
      BY SMT
    <2> QED
      BY <2>1, <2>2, SMT DEF Shift
  <1> HIDE DEF r
  <1>2. Unique(r)
    BY <1>1, SMT DEF Unique
  <1>3. ASSUME NEW k \in 1 .. Len(r)
        PROVE  r[k] \in Elements(s) \ {s[j]}
    BY <1>1, SMT DEF Elements, Unique
  <1>4. ASSUME NEW k \in 1 .. Len(s), s[k] # s[j]
        PROVE  s[k] \in Elements(r)
    <2>1. CASE k < j
      BY <1>1, <2>1, SMT DEF Elements
    <2>2. CASE k > j
      <3>1. k - 1 \in 1 .. Len(r) /\ r[k - 1] = s[k]
        BY <1>1, <2>2, SMT
      <3> QED
        BY <3>1 DEF Elements
    <2> QED
      BY <1>4, <2>1, <2>2, SMT
  <1>5. Elements(r) = Elements(s) \ {s[j]}
    BY <1>3, <1>4 DEF Elements
  <1> QED
    BY <1>1, <1>2, <1>5 DEF r

\* Unsubscribing from one list removes the descriptor altogether.
LEMMA WithoutRemoves ==
  ASSUME NEW T, NEW s \in Seq(T), Unique(s), NEW fd
  PROVE  /\ Without(s, fd) \in Seq(T)
         /\ Len(Without(s, fd)) <= Len(s)
         /\ Unique(Without(s, fd))
         /\ Elements(Without(s, fd)) = Elements(s) \ {fd}
PROOF
  <1> DEFINE S == {k \in 1 .. Len(s) : s[k] = fd}
  <1>1. S \subseteq Nat /\ \A i, k \in S : i = k
    BY SMT DEF Unique
  <1>2. CASE S = {}
    <2>1. Without(s, fd) = s
      BY <1>1, <1>2, FirstOfUnique DEF Without
    <2> QED
      BY <1>2, <2>1, SMT DEF Elements
  <1>3. CASE S # {}
    <2>1. PICK j \in S : TRUE
      BY <1>3
    <2>2. First(S) = j
      BY <1>1, FirstOfUnique
    <2>3. Without(s, fd) = Shift(s, j)
      BY <2>1, <2>2, SMT DEF Without
    <2> QED
      BY <2>1, <2>3, ShiftRemoves, SMT
  <1> QED
    BY <1>2, <1>3

\* Subscribing adds the descriptor where there is room, and never twice.
LEMMA AddSubscriberAdds ==
  ASSUME NEW T, NEW s \in Seq(T), Unique(s), NEW fd \in T,
         Len(s) <= MAX_SUBSCRIBERS_PER_TOPIC
  PROVE  /\ AddSubscriber(s, fd) \in Seq(T)
         /\ Len(AddSubscriber(s, fd)) <= MAX_SUBSCRIBERS_PER_TOPIC
         /\ Unique(AddSubscriber(s, fd))
         /\ Elements(AddSubscriber(s, fd)) =
              IF Len(s) < MAX_SUBSCRIBERS_PER_TOPIC THEN Elements(s) \cup {fd} ELSE Elements(s)
PROOF
  <1>1. CASE Len(s) < MAX_SUBSCRIBERS_PER_TOPIC /\ \A k \in 1 .. Len(s) : s[k] # fd
    <2> DEFINE r == Append(s, fd)
    <2>1. AddSubscriber(s, fd) = r
      BY <1>1 DEF AddSubscriber
    <2>2. /\ r \in Seq(T)
          /\ Len(r) = Len(s) + 1
          /\ \A k \in 1 .. Len(s) : r[k] = s[k]
          /\ r[Len(s) + 1] = fd
      BY SMT
    <2> HIDE DEF r
    <2>3. Unique(r)
      BY <1>1, <2>2, SMT DEF Unique
    <2>4. Elements(r) = Elements(s) \cup {fd}
      <3>1. 1 .. Len(r) = 1 .. Len(s) \cup {Len(s) + 1}
        BY <2>2, SMT
      <3> QED
        BY <2>2, <3>1, SMT DEF Elements
    <2> QED
      BY <1>1, <2>1, <2>2, <2>3, <2>4, TableSizes, SMT
  <1>2. CASE ~(Len(s) < MAX_SUBSCRIBERS_PER_TOPIC /\ \A k \in 1 .. Len(s) : s[k] # fd)
    <2>1. AddSubscriber(s, fd) = s
      BY <1>2 DEF AddSubscriber
    <2>2. Len(s) < MAX_SUBSCRIBERS_PER_TOPIC => fd \in Elements(s)
      BY <1>2 DEF Elements
    <2> QED
      BY <2>1, <2>2
  <1> QED
    BY <1>1, <1>2

----------------------------------------------------------------------------
(* The inductive invariant.                                                *)

\* With unique names a search finds the slot of the name.
LEMMA SlotOfName ==
  ASSUME NEW ts \in Seq(TopicEntry), NEW name,
         \A i, k \in 1 .. Len(ts) : ts[i].name = ts[k].name => i = k
  PROVE  LET i == First(Slots(ts, name))
         IN  \/ i = 0 /\ \A k \in 1 .. Len(ts) : ts[k].name # name
             \/ i \in 1 .. Len(ts) /\ ts[i].name = name
PROOF
  <1>1. Slots(ts, name) \subseteq Nat /\ \A i, k \in Slots(ts, name) : i = k
    BY SMT DEF Slots
  <1>2. CASE Slots(ts, name) = {}
    BY <1>1, <1>2, FirstOfUnique DEF Slots
  <1>3. CASE Slots(ts, name) # {}
    <2>1. PICK i \in Slots(ts, name) : TRUE
      BY <1>3
    <2>2. First(Slots(ts, name)) = i
      BY <1>1, FirstOfUnique
    <2> QED
      BY <2>1, <2>2 DEF Slots
  <1> QED
    BY <1>2, <1>3

\* A new topic keeps the names unique, and the older entries where they are.
LEMMA WithTopicAdds ==
  ASSUME WellFormed(topics), NEW name \in Topic
  PROVE  LET ts == WithTopic(name)
         IN  /\ WellFormed(ts)
             /\ Len(topics) <= Len(ts)
             /\ \A i \in 1 .. Len(topics) : ts[i] = topics[i]
             /\ \A i \in 1 .. Len(ts) :
                  i > Len(topics) => ts[i] = [name |-> name, subscribers |-> <<>>]
             /\ NamesOf(ts) = NamesOf(topics) \cup IF Len(topics) < MAX_TOPICS THEN {name} ELSE {}
PROOF
  <1> DEFINE new == [name |-> name, subscribers |-> <<>>]
             ts == WithTopic(name)
  <1>1. topics \in Seq(TopicEntry) /\ Len(topics) <= MAX_TOPICS
    BY DEF WellFormed
  <1>2. \A i, k \in 1 .. Len(topics) : topics[i].name = topics[k].name => i = k
    BY DEF WellFormed
  <1>3. new \in TopicEntry
    BY SMT DEF TopicEntry
  <1>4. \/ First(Slots(topics, name)) = 0 /\ \A k \in 1 .. Len(topics) : topics[k].name # name
        \/ /\ First(Slots(topics, name)) \in 1 .. Len(topics)
           /\ topics[First(Slots(topics, name))].name = name
    BY <1>1, <1>2, SlotOfName
  <1>5. CASE First(Slots(topics, name)) = 0 /\ Len(topics) < MAX_TOPICS
    <2>1. ts = Append(topics, new)
      BY <1>5 DEF WithTopic
    <2>2. \A k \in 1 .. Len(topics) : topics[k].name # name
      BY <1>4, <1>5, SMT
    <2>3. /\ ts \in Seq(TopicEntry)
          /\ Len(ts) = Len(topics) + 1
          /\ \A i \in 1 .. Len(topics) : ts[i] = topics[i]
          /\ ts[Len(topics) + 1] = new
      BY <1>1, <1>3, <2>1, SMT
    <2> HIDE DEF ts
    <2>4. new.name = name
      OBVIOUS
    <2>5. 1 .. Len(ts) = 1 .. Len(topics) \cup {Len(topics) + 1}
      BY <1>1, <2>3, SMT
    <2>6. \A i, k \in 1 .. Len(ts) : ts[i].name = ts[k].name => i = k
      BY <1>2, <2>2, <2>3, <2>4, <2>5
    <2>7. NamesOf(ts) = NamesOf(topics) \cup {name}
      BY <2>3, <2>4, <2>5 DEF NamesOf
    <2>8. Len(ts) <= MAX_TOPICS
      BY <1>1, <1>5, <2>3, TableSizes, SMT
    <2>9. \A i \in 1 .. Len(ts) : i > Len(topics) => ts[i] = new
      BY <1>1, <2>3, SMT
    <2>10. \A i \in 1 .. Len(ts) : /\ Len(ts[i].subscribers) <= MAX_SUBSCRIBERS_PER_TOPIC
                                   /\ Unique(ts[i].subscribers)
      <3>1. Len(new.subscribers) = 0 /\ Unique(new.subscribers)
        BY SMT DEF Unique
      <3> QED
        BY <2>3, <2>5, <3>1, TableSizes, SMT DEF WellFormed
    <2>11. WellFormed(ts)
      BY <2>3, <2>6, <2>8, <2>10 DEF WellFormed
    <2> QED
      BY <1>1, <1>5, <2>3, <2>7, <2>9, <2>11, SMT DEF ts
  <1>6. CASE ~(First(Slots(topics, name)) = 0 /\ Len(topics) < MAX_TOPICS)
    <2>1. ts = topics
      BY <1>6 DEF WithTopic
    <2>2. Len(topics) < MAX_TOPICS => name \in NamesOf(topics)
      BY <1>4, <1>6 DEF NamesOf
    <2> QED
      BY <1>1, <1>2, <2>1, <2>2, SMT
  <1> QED
    BY <1>5, <1>6

\* Only the list of one slot changes.
LEMMA PutList ==
  ASSUME NEW ts \in Seq(TopicEntry), NEW i \in 1 .. Len(ts), NEW s \in Seq(SubscriberFd)
  PROVE  LET us == [ts EXCEPT ![i].subscribers = s]
         IN  /\ us \in Seq(TopicEntry)
             /\ Len(us) = Len(ts)
             /\ \A k \in 1 .. Len(ts) : us[k].name = ts[k].name
             /\ \A k \in 1 .. Len(ts) : us[k].subscribers = IF k = i THEN s ELSE ts[k].subscribers
PROOF
  <1> DEFINE e == [ts[i] EXCEPT !.subscribers = s]
             us == [ts EXCEPT ![i] = e]
  <1>1. ts[i] \in TopicEntry
    BY SMT
  <1>2. e \in TopicEntry /\ e.name = ts[i].name /\ e.subscribers = s
    BY <1>1 DEF TopicEntry
  <1>3. /\ us \in Seq(TopicEntry) /\ Len(us) = Len(ts)
        /\ \A k \in 1 .. Len(ts) : us[k] = IF k = i THEN e ELSE ts[k]
    BY <1>2, SMT
  <1>4. us = [ts EXCEPT ![i].subscribers = s]
    OBVIOUS
  <1> HIDE DEF us, e
  <1> QED
    BY <1>2, <1>3, <1>4, SMT

\* A table with the same names and with good lists is good.
LEMMA StaysWellFormed ==
  ASSUME NEW ts, WellFormed(ts), NEW us \in Seq(TopicEntry), Len(us) = Len(ts),
         \A k \in 1 .. Len(ts) : us[k].name = ts[k].name,
         \A k \in 1 .. Len(ts) : /\ Len(us[k].subscribers) <= MAX_SUBSCRIBERS_PER_TOPIC
                                 /\ Unique(us[k].subscribers)
  PROVE  WellFormed(us) /\ NamesOf(us) = NamesOf(ts)
PROOF
  BY SMT DEF WellFormed, NamesOf

\* pubsub_subscribe records a subscription that fits and changes nothing else.
LEMMA SubscribeRecords ==
  ASSUME WellFormed(topics), NEW fd \in SubscriberFd, NEW name \in Topic,
         pubsub_subscribe(fd, name)
  PROVE  /\ WellFormed(topics')
         /\ NamesOf(topics') = NamesOf(topics) \cup IF Len(topics) < MAX_TOPICS THEN {name} ELSE {}
         /\ \A f \in SubscriberFd, a \in Topic :
              IsIn(topics', f, a) <=>
                \/ IsIn(topics, f, a)
                \/ /\ f = fd /\ a = name /\ name \in NamesOf(topics')
                   /\ Cardinality({g \in SubscriberFd : IsIn(topics, g, name)}) < MAX_SUBSCRIBERS_PER_TOPIC
PROOF
  <1> DEFINE ts == WithTopic(name)
             i == First(Slots(ts, name))
  <1>1. /\ WellFormed(ts)
        /\ Len(topics) <= Len(ts)
        /\ \A k \in 1 .. Len(topics) : ts[k] = topics[k]
        /\ \A k \in 1 .. Len(ts) : k > Len(topics) => ts[k] = [name |-> name, subscribers |-> <<>>]
        /\ NamesOf(ts) = NamesOf(topics) \cup IF Len(topics) < MAX_TOPICS THEN {name} ELSE {}
    BY WithTopicAdds
  <1>2. topics' = IF i = 0 THEN ts ELSE [ts EXCEPT ![i].subscribers = AddSubscriber(ts[i].subscribers, fd)]
    BY DEF pubsub_subscribe
  <1>3. \/ i = 0 /\ \A k \in 1 .. Len(ts) : ts[k].name # name
        \/ i \in 1 .. Len(ts) /\ ts[i].name = name
    BY <1>1, SlotOfName DEF WellFormed
  <1> HIDE DEF ts, i
  <1>4. \A f, a : IsIn(ts, f, a) <=> IsIn(topics, f, a)
    <2>1. \A f : f \notin Elements(<<>>)
      BY SMT DEF Elements
    <2>2. ASSUME NEW f, NEW a, IsIn(ts, f, a)
          PROVE  IsIn(topics, f, a)
      <3>1. PICK k \in 1 .. Len(ts) : ts[k].name = a /\ f \in Elements(ts[k].subscribers)
        BY <2>2 DEF IsIn
      <3>2. k <= Len(topics)
        <4> SUFFICES ASSUME k > Len(topics)
                     PROVE  FALSE
          BY SMT DEF WellFormed
        <4>1. ts[k].subscribers = <<>>
          BY <1>1, SMT
        <4> QED
          BY <2>1, <3>1, <4>1
      <3> QED
        BY <1>1, <3>1, <3>2, SMT DEF IsIn, WellFormed
    <2>3. ASSUME NEW f, NEW a, IsIn(topics, f, a)
          PROVE  IsIn(ts, f, a)
      BY <1>1, <2>3, SMT DEF IsIn, WellFormed
    <2> QED
      BY <2>2, <2>3
  <1>5. CASE i = 0
    <2>1. topics' = ts
      BY <1>2, <1>5
    <2>2. name \notin NamesOf(ts)
      BY <1>3, <1>5, SMT DEF NamesOf
    <2> QED
      BY <1>1, <1>4, <2>1, <2>2
  <1>6. CASE i # 0
    <2> DEFINE s == ts[i].subscribers
               r == AddSubscriber(s, fd)
    <2>1. i \in 1 .. Len(ts) /\ ts[i].name = name
      BY <1>3, <1>6
    <2>2. /\ ts \in Seq(TopicEntry)
          /\ s \in Seq(SubscriberFd)
          /\ Len(s) <= MAX_SUBSCRIBERS_PER_TOPIC
          /\ Unique(s)
      <3>1. ts[i] \in TopicEntry
        BY <1>1, <2>1, SMT DEF WellFormed
      <3> QED
        BY <1>1, <2>1, <3>1 DEF WellFormed, TopicEntry
    <2>3. topics' = [ts EXCEPT ![i].subscribers = r]
      BY <1>2, <1>6
    <2> HIDE DEF s
    <2>4. /\ r \in Seq(SubscriberFd)
          /\ Len(r) <= MAX_SUBSCRIBERS_PER_TOPIC
          /\ Unique(r)
          /\ Elements(r) = IF Len(s) < MAX_SUBSCRIBERS_PER_TOPIC THEN Elements(s) \cup {fd} ELSE Elements(s)
      BY <2>2, AddSubscriberAdds
    <2> HIDE DEF r
    <2>5. /\ topics' \in Seq(TopicEntry)
          /\ Len(topics') = Len(ts)
          /\ \A k \in 1 .. Len(ts) : topics'[k].name = ts[k].name
          /\ \A k \in 1 .. Len(ts) : topics'[k].subscribers = IF k = i THEN r ELSE ts[k].subscribers
      BY <2>1, <2>2, <2>3, <2>4, PutList, SMT
    <2>6. WellFormed(topics') /\ NamesOf(topics') = NamesOf(ts)
      <3>1. \A k \in 1 .. Len(ts) : /\ Len(topics'[k].subscribers) <= MAX_SUBSCRIBERS_PER_TOPIC
                                    /\ Unique(topics'[k].subscribers)
        BY <1>1, <2>4, <2>5 DEF WellFormed
      <3> QED
        BY <1>1, <2>5, <3>1, StaysWellFormed
    <2>7. name \in NamesOf(ts)
      BY <2>1 DEF NamesOf
    <2>8. \A k \in 1 .. Len(ts) : ts[k].name = name => k = i
      BY <1>1, <2>1 DEF WellFormed
    <2>9. {g \in SubscriberFd : IsIn(topics, g, name)} = Elements(s)
      <3>1. Elements(s) \subseteq SubscriberFd
        BY <2>2, SMT DEF Elements
      <3>2. \A g : IsIn(ts, g, name) <=> g \in Elements(s)
        BY <2>1, <2>8 DEF IsIn, s
      <3> QED
        BY <1>4, <3>1, <3>2
    <2>10. Cardinality(Elements(s)) = Len(s)
      BY <2>2, CountElements
    <2>11. ASSUME NEW f \in SubscriberFd, NEW a \in Topic
           PROVE  IsIn(topics', f, a) <=>
                    IsIn(ts, f, a) \/ (f = fd /\ a = name /\ Len(s) < MAX_SUBSCRIBERS_PER_TOPIC)
      <3>1. CASE a = name
        <4>1. IsIn(topics', f, a) <=> f \in Elements(r)
          BY <2>1, <2>5, <2>8, <3>1 DEF IsIn
        <4>2. IsIn(ts, f, a) <=> f \in Elements(s)
          BY <2>1, <2>8, <3>1 DEF IsIn, s
        <4> QED
          BY <2>4, <3>1, <4>1, <4>2
      <3>2. CASE a # name
        BY <2>1, <2>5, <3>2 DEF IsIn
      <3> QED
        BY <3>1, <3>2
    <2> QED
      BY <1>1, <1>4, <2>6, <2>7, <2>9, <2>10, <2>11
  <1> QED
    BY <1>5, <1>6

\* pubsub_unsubscribe removes exactly what it names.
LEMMA UnsubscribeRemoves ==
  ASSUME WellFormed(topics), NEW fd \in SubscriberFd, NEW name \in Topic,
         pubsub_unsubscribe(fd, name)
  PROVE  /\ WellFormed(topics')
         /\ NamesOf(topics') = NamesOf(topics)
         /\ \A f \in SubscriberFd, a \in Topic :
              IsIn(topics', f, a) <=> IsIn(topics, f, a) /\ ~(f = fd /\ a = name)
PROOF
  <1> DEFINE i == First(Slots(topics, name))
  <1>1. \/ i = 0 /\ \A k \in 1 .. Len(topics) : topics[k].name # name
        \/ i \in 1 .. Len(topics) /\ topics[i].name = name
    BY SlotOfName DEF WellFormed
  <1>2. topics' = IF i = 0 THEN topics
                  ELSE [topics EXCEPT ![i].subscribers = Without(topics[i].subscribers, fd)]
    BY DEF pubsub_unsubscribe
  <1> HIDE DEF i
  <1>3. CASE i = 0
    BY <1>1, <1>2, <1>3, SMT DEF IsIn
  <1>4. CASE i # 0
    <2> DEFINE s == topics[i].subscribers
               r == Without(s, fd)
    <2>1. i \in 1 .. Len(topics) /\ topics[i].name = name /\ topics[i] \in TopicEntry
      BY <1>1, <1>4, SMT DEF WellFormed
    <2>2. s \in Seq(SubscriberFd) /\ Unique(s) /\ Len(s) <= MAX_SUBSCRIBERS_PER_TOPIC
      BY <2>1 DEF WellFormed, TopicEntry
    <2>3. topics' = [topics EXCEPT ![i].subscribers = r]
      BY <1>2, <1>4
    <2> HIDE DEF s
    <2>4. /\ r \in Seq(SubscriberFd)
          /\ Len(r) <= Len(s)
          /\ Unique(r)
          /\ Elements(r) = Elements(s) \ {fd}
      BY <2>2, WithoutRemoves
    <2> HIDE DEF r
    <2>5. /\ topics' \in Seq(TopicEntry)
          /\ Len(topics') = Len(topics)
          /\ \A k \in 1 .. Len(topics) : topics'[k].name = topics[k].name
          /\ \A k \in 1 .. Len(topics) : topics'[k].subscribers = IF k = i THEN r ELSE topics[k].subscribers
      BY <2>1, <2>3, <2>4, PutList, SMT DEF WellFormed
    <2>6. WellFormed(topics') /\ NamesOf(topics') = NamesOf(topics)
      <3>1. Len(r) <= MAX_SUBSCRIBERS_PER_TOPIC
        BY <2>2, <2>4, TableSizes, SMT
      <3>2. \A k \in 1 .. Len(topics) : /\ Len(topics'[k].subscribers) <= MAX_SUBSCRIBERS_PER_TOPIC
                                        /\ Unique(topics'[k].subscribers)
        BY <2>4, <2>5, <3>1 DEF WellFormed
      <3> QED
        BY <2>5, <3>2, StaysWellFormed
    <2>7. \A k \in 1 .. Len(topics) : topics[k].name = name => k = i
      BY <2>1 DEF WellFormed
    <2>8. ASSUME NEW f \in SubscriberFd, NEW a \in Topic
          PROVE  IsIn(topics', f, a) <=> IsIn(topics, f, a) /\ ~(f = fd /\ a = name)
      <3>1. CASE a = name
        <4>1. IsIn(topics', f, a) <=> f \in Elements(r)
          BY <2>1, <2>5, <2>7, <3>1 DEF IsIn
        <4>2. IsIn(topics, f, a) <=> f \in Elements(s)
          BY <2>1, <2>7, <3>1 DEF IsIn, s
        <4> QED
          BY <2>4, <3>1, <4>1, <4>2
      <3>2. CASE a # name
        BY <2>1, <2>5, <3>2 DEF IsIn
      <3> QED
        BY <3>1, <3>2
    <2> QED
      BY <2>6, <2>8
  <1> QED
    BY <1>3, <1>4

\* pubsub_unsubscribe_all removes the descriptor from every topic.
LEMMA UnsubscribeAllRemoves ==
  ASSUME WellFormed(topics), NEW fd \in SubscriberFd, pubsub_unsubscribe_all(fd)
  PROVE  /\ WellFormed(topics')
         /\ NamesOf(topics') = NamesOf(topics)
         /\ \A f \in SubscriberFd, a \in Topic :
              IsIn(topics', f, a) <=> IsIn(topics, f, a) /\ f # fd
PROOF
  <1> DEFINE r(k) == Without(topics[k].subscribers, fd)
             e(k) == [topics[k] EXCEPT !.subscribers = r(k)]
  <1>1. ASSUME NEW k \in 1 .. Len(topics)
        PROVE  /\ r(k) \in Seq(SubscriberFd)
               /\ Len(r(k)) <= MAX_SUBSCRIBERS_PER_TOPIC
               /\ Unique(r(k))
               /\ Elements(r(k)) = Elements(topics[k].subscribers) \ {fd}
               /\ e(k) \in TopicEntry /\ e(k).name = topics[k].name /\ e(k).subscribers = r(k)
    <2>1. topics[k] \in TopicEntry
      BY SMT DEF WellFormed
    <2>2. /\ topics[k].subscribers \in Seq(SubscriberFd)
          /\ Unique(topics[k].subscribers)
          /\ Len(topics[k].subscribers) <= MAX_SUBSCRIBERS_PER_TOPIC
      BY <2>1 DEF WellFormed, TopicEntry
    <2>3. /\ r(k) \in Seq(SubscriberFd)
          /\ Len(r(k)) <= Len(topics[k].subscribers)
          /\ Unique(r(k))
          /\ Elements(r(k)) = Elements(topics[k].subscribers) \ {fd}
      BY <2>2, WithoutRemoves
    <2> HIDE DEF r
    <2>4. e(k) \in TopicEntry /\ e(k).name = topics[k].name /\ e(k).subscribers = r(k)
      BY <2>1, <2>3 DEF TopicEntry
    <2> QED
      BY <2>2, <2>3, <2>4, TableSizes, SMT
  <1>2. topics' = [k \in 1 .. Len(topics) |-> e(k)]
    BY DEF pubsub_unsubscribe_all
  <1> HIDE DEF e, r
  <1>3. /\ topics' \in Seq(TopicEntry)
        /\ Len(topics') = Len(topics)
        /\ \A k \in 1 .. Len(topics) : topics'[k] = e(k)
    <2>1. Len(topics) \in Nat
      BY SMT DEF WellFormed
    <2> QED
      BY <1>1, <1>2, <2>1, SMT
  <1>4. \A k \in 1 .. Len(topics) : topics'[k].name = topics[k].name /\ topics'[k].subscribers = r(k)
    BY <1>1, <1>3
  <1>5. WellFormed(topics') /\ NamesOf(topics') = NamesOf(topics)
    <2>1. \A k \in 1 .. Len(topics) : /\ Len(topics'[k].subscribers) <= MAX_SUBSCRIBERS_PER_TOPIC
                                      /\ Unique(topics'[k].subscribers)
      BY <1>1, <1>4
    <2> QED
      BY <1>3, <1>4, <2>1, StaysWellFormed
  <1>6. ASSUME NEW f \in SubscriberFd, NEW a \in Topic
        PROVE  IsIn(topics', f, a) <=> IsIn(topics, f, a) /\ f # fd
    BY <1>1, <1>3, <1>4 DEF IsIn
  <1> QED
    BY <1>5, <1>6

LEMMA TypesAndShape ==
  psTypes /\ TableWellFormed <=>
    /\ WellFormed(topics)
    /\ pubsub_lock \in Thread \cup {NULL}
    /\ cursor \in [Thread -> Nat \X Nat \X Nat]
PROOF
  BY DEF psTypes, TableWellFormed, WellFormed, Unique

\* While pubsub_lock is free nobody iterates.
LEMMA FreeMeansNoCursor ==
  ASSUME CursorInside, Unlocked
  PROVE  \A t \in Thread : cursor[t] = NoCursor
PROOF
  BY NullIsNothing DEF CursorInside, Unlocked

LEMMA psInitial ==
  pubsub_init => psInv
PROOF
  <1> SUFFICES ASSUME pubsub_init
               PROVE  psInv
    OBVIOUS
  <1>1. psTypes
    BY SMT DEF pubsub_init, psTypes, NoCursor
  <1>2. TableWellFormed
    BY TableSizes, SMT DEF pubsub_init, TableWellFormed
  <1>3. CursorInside /\ NoTopicIsLast
    BY DEF pubsub_init, CursorInside, NoTopicIsLast, NoCursor
  <1> QED
    BY <1>1, <1>2, <1>3 DEF psInv

\* A change of the table finds no iteration under way.
LEMMA TableChange ==
  ASSUME psInv, Unlocked, WellFormed(topics'), UNCHANGED <<pubsub_lock, cursor>>
  PROVE  psInv'
PROOF
  <1>1. \A t \in Thread : cursor'[t] = NoCursor
    BY FreeMeansNoCursor DEF psInv
  <1>2. psTypes' /\ TableWellFormed'
    BY DEF psInv, psTypes, TableWellFormed, WellFormed, Unique
  <1>3. CursorInside' /\ NoTopicIsLast'
    BY <1>1, SMT DEF CursorInside, NoTopicIsLast, NoCursor
  <1> QED
    BY <1>2, <1>3 DEF psInv

\* An iteration moves on, and the table stays.
LEMMA CursorChange ==
  ASSUME psInv, UNCHANGED topics, NEW t \in Thread, NEW c \in Nat \X Nat \X Nat,
         cursor' = [cursor EXCEPT ![t] = c],
         \A u \in Thread \ {t} : cursor[u] = NoCursor,
         pubsub_lock' \in Thread \cup {NULL},
         c # NoCursor => pubsub_lock' = t,
         c[1] = 0 => c[3] = 0,
         c[1] # 0 => /\ c[1] <= c[3] /\ c[3] <= Len(topics)
                     /\ c[2] \in 1 .. Len(topics[c[1]].subscribers) + 1
  PROVE  psInv'
PROOF
  <1>1. /\ cursor' \in [Thread -> Nat \X Nat \X Nat]
        /\ cursor'[t] = c
        /\ \A u \in Thread \ {t} : cursor'[u] = NoCursor
    BY DEF psInv, psTypes
  <1>2. psTypes' /\ TableWellFormed'
    BY <1>1, SMT DEF psInv, psTypes, TableWellFormed
  <1>3. CursorInside'
    BY <1>1 DEF CursorInside
  <1>4. NoTopicIsLast'
    BY <1>1, SMT DEF NoTopicIsLast, NoCursor
  <1> QED
    BY <1>2, <1>3, <1>4 DEF psInv

LEMMA psInductive ==
  psInv /\ [psNext]_psVars => psInv'
PROOF
  <1> SUFFICES ASSUME psInv, [psNext]_psVars
               PROVE  psInv'
    OBVIOUS
  <1>0. WellFormed(topics) /\ cursor \in [Thread -> Nat \X Nat \X Nat]
    BY TypesAndShape DEF psInv
  <1>1. ASSUME NEW fd \in SubscriberFd, pubsub_unsubscribe_all(fd)
        PROVE  psInv'
    BY <1>0, <1>1, UnsubscribeAllRemoves, TableChange DEF pubsub_unsubscribe_all
  <1>2. ASSUME NEW fd \in SubscriberFd, NEW name \in Topic, pubsub_subscribe(fd, name)
        PROVE  psInv'
    <2>1. WellFormed(topics')
      BY <1>0, <1>2, SubscribeRecords
    <2> QED
      BY <1>2, <2>1, TableChange DEF pubsub_subscribe
  <1>3. ASSUME NEW fd \in SubscriberFd, NEW name \in Topic, pubsub_unsubscribe(fd, name)
        PROVE  psInv'
    <2>1. WellFormed(topics')
      BY <1>0, <1>3, UnsubscribeRemoves
    <2> QED
      BY <1>3, <2>1, TableChange DEF pubsub_unsubscribe
  <1>4. ASSUME NEW t \in Thread, NEW name \in Topic, publish_begin(t, name)
        PROVE  psInv'
    <2> DEFINE i == First(Slots(topics, name))
               c == <<i, 1, i>>
    <2>1. i = 0 \/ i \in 1 .. Len(topics)
      BY <1>0, SlotOfName DEF WellFormed
    <2>2. /\ UNCHANGED topics
          /\ cursor' = [cursor EXCEPT ![t] = c]
          /\ pubsub_lock' = t
          /\ \A u \in Thread : cursor[u] = NoCursor
      BY <1>4, FreeMeansNoCursor DEF publish_begin, psInv
    <2> HIDE DEF i
    <2>3. i # 0 => Len(topics[i].subscribers) \in Nat /\ Len(topics) \in Nat
      <3>1. i # 0 => topics[i] \in TopicEntry
        BY <1>0, <2>1, SMT DEF WellFormed
      <3> QED
        BY <1>0, <3>1, SMT DEF WellFormed, TopicEntry
    <2>4. /\ c \in Nat \X Nat \X Nat
          /\ c[1] = i /\ c[2] = 1 /\ c[3] = i
      BY <1>0, <2>1, SMT DEF WellFormed
    <2> HIDE DEF c
    <2>5. c[1] # 0 => /\ c[1] <= c[3] /\ c[3] <= Len(topics)
                      /\ c[2] \in 1 .. Len(topics[c[1]].subscribers) + 1
      BY <2>1, <2>3, <2>4, SMT
    <2> QED
      BY <2>2, <2>4, <2>5, CursorChange
  <1>5. ASSUME NEW t \in Thread, status_begin(t)
        PROVE  psInv'
    <2> DEFINE c == IF topics = <<>> THEN <<0, 1, 0>> ELSE <<1, 1, Len(topics)>>
    <2>1. /\ UNCHANGED topics
          /\ cursor' = [cursor EXCEPT ![t] = c]
          /\ pubsub_lock' = t
          /\ \A u \in Thread : cursor[u] = NoCursor
      BY <1>5, FreeMeansNoCursor DEF status_begin, psInv
    <2>2. c \in Nat \X Nat \X Nat
      BY <1>0, SMT DEF WellFormed
    <2>3. CASE topics = <<>>
      <3>1. c[1] = 0 /\ c[3] = 0
        BY <2>3
      <3> HIDE DEF c
      <3> QED
        BY <2>1, <2>2, <3>1, CursorChange
    <2>4. CASE topics # <<>>
      <3>1. c[1] = 1 /\ c[2] = 1 /\ c[3] = Len(topics)
        BY <2>4
      <3>2. Len(topics) \in Nat /\ Len(topics) # 0
        BY <1>0, <2>4, SMT DEF WellFormed
      <3>3. topics[1] \in TopicEntry
        BY <1>0, <3>2, SMT DEF WellFormed
      <3>4. Len(topics[1].subscribers) \in Nat
        BY <3>3, SMT DEF TopicEntry
      <3> HIDE DEF c
      <3>5. /\ c[1] <= c[3] /\ c[3] <= Len(topics)
            /\ c[2] \in 1 .. Len(topics[c[1]].subscribers) + 1
            /\ c[1] # 0
        BY <3>1, <3>2, <3>4, SMT
      <3> QED
        BY <2>1, <2>2, <3>5, CursorChange
    <2> QED
      BY <2>3, <2>4
  <1>6. ASSUME NEW t \in Thread, cursor[t] # NoCursor
        PROVE  /\ pubsub_lock = t
               /\ \A u \in Thread \ {t} : cursor[u] = NoCursor
               /\ cursor[t][1] # 0 => /\ cursor[t][1] <= cursor[t][3]
                                     /\ cursor[t][3] <= Len(topics)
                                     /\ cursor[t][2] \in 1 .. Len(topics[cursor[t][1]].subscribers) + 1
    BY <1>6 DEF psInv, CursorInside
  <1>7. ASSUME NEW t \in Thread, publish_next(t)
        PROVE  psInv'
    <2> DEFINE c == [cursor[t] EXCEPT ![2] = @ + 1]
    <2>1. cursor[t] \in Nat \X Nat \X Nat
      BY <1>0
    <2>2. /\ c \in Nat \X Nat \X Nat
          /\ c[1] = cursor[t][1] /\ c[2] = cursor[t][2] + 1 /\ c[3] = cursor[t][3]
      BY <2>1, SMT
    <2>3. /\ UNCHANGED <<topics, pubsub_lock>>
          /\ cursor' = [cursor EXCEPT ![t] = c]
          /\ cursor[t][1] # 0
          /\ cursor[t][2] <= Len(topics[cursor[t][1]].subscribers)
      BY <1>7 DEF publish_next, AtSubscriber
    <2>4. cursor[t] # NoCursor
      BY <2>3, SMT DEF NoCursor
    <2> HIDE DEF c
    <2>5. topics[cursor[t][1]] \in TopicEntry
      <3>1. cursor[t][1] \in 1 .. Len(topics)
        BY <1>0, <1>6, <2>1, <2>3, <2>4, SMT DEF WellFormed
      <3> QED
        BY <1>0, <3>1, SMT DEF WellFormed
    <2>6. Len(topics[cursor[t][1]].subscribers) \in Nat
      BY <2>5, SMT DEF TopicEntry
    <2>7. c[2] \in 1 .. Len(topics[c[1]].subscribers) + 1
      <3> DEFINE j == cursor[t][2]
                 l == Len(topics[cursor[t][1]].subscribers)
      <3>1. j \in Nat
        BY <2>1, SMT
      <3>2. j <= l /\ l \in Nat
        BY <2>3, <2>6, SMT
      <3>3. c[2] = j + 1 /\ Len(topics[c[1]].subscribers) = l
        BY <2>2
      <3> HIDE DEF j, l
      <3> QED
        BY <3>1, <3>2, <3>3, SMT
    <2>8. pubsub_lock' = t /\ \A u \in Thread \ {t} : cursor[u] = NoCursor
      BY <1>6, <2>3, <2>4
    <2>9. c[1] <= c[3] /\ c[3] <= Len(topics) /\ c[1] # 0
      BY <1>6, <2>2, <2>3, <2>4
    <2> QED
      BY <2>2, <2>3, <2>7, <2>8, <2>9, CursorChange
  <1>8. ASSUME NEW t \in Thread, status_next_topic(t)
        PROVE  psInv'
    <2> DEFINE c == <<cursor[t][1] + 1, 1, cursor[t][3]>>
    <2>1. cursor[t] \in Nat \X Nat \X Nat
      BY <1>0
    <2>2. /\ c \in Nat \X Nat \X Nat
          /\ c[1] = cursor[t][1] + 1 /\ c[2] = 1 /\ c[3] = cursor[t][3]
      BY <2>1, SMT
    <2>3. /\ UNCHANGED <<topics, pubsub_lock>>
          /\ cursor' = [cursor EXCEPT ![t] = c]
          /\ cursor[t][1] < cursor[t][3]
      BY <1>8 DEF status_next_topic
    <2>4. cursor[t][1] # 0
      BY <2>1, <2>3, SMT DEF psInv, NoTopicIsLast
    <2>5. cursor[t] # NoCursor
      BY <2>4, SMT DEF NoCursor
    <2> HIDE DEF c
    <2>6. cursor[t][1] + 1 <= cursor[t][3] /\ cursor[t][3] <= Len(topics)
      BY <1>6, <2>1, <2>3, <2>4, <2>5, SMT
    <2>7. topics[c[1]] \in TopicEntry
      <3>1. c[1] \in 1 .. Len(topics)
        BY <1>0, <2>1, <2>2, <2>6, SMT DEF WellFormed
      <3> QED
        BY <1>0, <3>1, SMT DEF WellFormed
    <2>8. Len(topics[c[1]].subscribers) \in Nat
      BY <2>7, SMT DEF TopicEntry
    <2>9. c[2] \in 1 .. Len(topics[c[1]].subscribers) + 1 /\ c[1] <= c[3] /\ c[3] <= Len(topics) /\ c[1] # 0
      <3>1. c[2] = 1 /\ c[1] <= c[3] /\ c[3] <= Len(topics)
        BY <2>2, <2>6
      <3>2. c[1] # 0
        BY <2>1, <2>2, SMT
      <3> QED
        BY <2>8, <3>1, <3>2, SMT
    <2>10. pubsub_lock' = t /\ \A u \in Thread \ {t} : cursor[u] = NoCursor
      BY <1>6, <2>3, <2>5
    <2> QED
      BY <2>2, <2>3, <2>9, <2>10, CursorChange
  <1>9. ASSUME NEW t \in Thread, publish_end(t)
        PROVE  psInv'
    <2>1. /\ UNCHANGED topics
          /\ pubsub_lock' = NULL
          /\ cursor' = [cursor EXCEPT ![t] = NoCursor]
          /\ \A u \in Thread \ {t} : cursor[u] = NoCursor
      BY <1>6, <1>9 DEF publish_end
    <2>2. NoCursor \in Nat \X Nat \X Nat /\ NoCursor[1] = 0 /\ NoCursor[3] = 0
      BY DEF NoCursor
    <2> QED
      BY <2>1, <2>2, CursorChange
  <1>10. CASE UNCHANGED psVars
    BY <1>10 DEF psVars, psInv, psTypes, TableWellFormed, CursorInside, NoTopicIsLast
  <1> QED
    BY <1>1, <1>2, <1>3, <1>4, <1>5, <1>7, <1>8, <1>9, <1>10 DEF psNext

LEMMA psAlways ==
  psSpec => []psInv
PROOF
  BY psInitial, psInductive, PTL DEF psSpec

\* The arrays of pubsub.c never overflow and hold no name and no subscriber twice.
THEOREM TableStaysWellFormed ==
  psSpec => []TableWellFormed
PROOF
  <1>1. psInv => TableWellFormed
    BY DEF psInv
  <1> QED
    BY <1>1, psAlways, PTL

\* pubsub_publish and pubsub_print_status iterate alone and inside the array.
THEOREM IterationStaysInside ==
  psSpec => []CursorInside
PROOF
  <1>1. psInv => CursorInside
    BY DEF psInv
  <1> QED
    BY <1>1, psAlways, PTL

----------------------------------------------------------------------------
(* The refinement.                                                         *)

\* What the refinement mapping reads off the table.
LEMMA MappedTable ==
  ASSUME WellFormed(topics)
  PROVE  /\ Names = NamesOf(topics)
         /\ Relation \subseteq SubscriberFd \X Topic
         /\ \A f \in SubscriberFd, a \in Topic : <<f, a>> \in Relation <=> IsIn(topics, f, a)
         /\ Cardinality(Names) = Len(topics)
PROOF
  <1>1. \A i \in 1 .. Len(topics) : topics[i] \in TopicEntry /\ topics[i].name \in Topic
    <2>1. \A i \in 1 .. Len(topics) : topics[i] \in TopicEntry
      BY SMT DEF WellFormed
    <2> QED
      BY <2>1 DEF TopicEntry
  <1>2. Names = NamesOf(topics)
    BY <1>1 DEF Names, NamesOf, Slots
  <1>3. \A f, a : Subscribed(f, a) <=> IsIn(topics, f, a)
    BY DEF Subscribed, IsIn, Elements
  <1>4. Cardinality(NamesOf(topics)) = Len(topics)
    <2> DEFINE ns == [i \in 1 .. Len(topics) |-> topics[i].name]
    <2>1. Len(topics) \in Nat
      BY SMT DEF WellFormed
    <2>2. ns \in Seq(Topic) /\ Len(ns) = Len(topics) /\ \A i \in 1 .. Len(topics) : ns[i] = topics[i].name
      BY <1>1, <2>1, SMT
    <2> HIDE DEF ns
    <2>3. Unique(ns) /\ Elements(ns) = NamesOf(topics)
      BY <2>2, SMT DEF Unique, Elements, NamesOf, WellFormed
    <2> QED
      BY <2>2, <2>3, CountElements
  <1> QED
    BY <1>2, <1>3, <1>4 DEF Relation

\* The same of the table after a step.
LEMMA MappedTableAfter ==
  ASSUME WellFormed(topics')
  PROVE  /\ Names' = NamesOf(topics')
         /\ Relation' \subseteq SubscriberFd \X Topic
         /\ \A f \in SubscriberFd, a \in Topic : <<f, a>> \in Relation' <=> IsIn(topics', f, a)
PROOF
  <1>1. \A i \in 1 .. Len(topics') : topics'[i] \in TopicEntry /\ topics'[i].name \in Topic
    <2>1. \A i \in 1 .. Len(topics') : topics'[i] \in TopicEntry
      BY SMT DEF WellFormed
    <2> QED
      BY <2>1 DEF TopicEntry
  <1>2. Names' = NamesOf(topics')
    BY <1>1 DEF Names, NamesOf, Slots
  <1>3. Relation' = {s \in SubscriberFd \X Topic : IsIn(topics', s[1], s[2])}
    BY DEF Relation, Subscribed, IsIn, Elements
  <1> QED
    BY <1>2, <1>3

\* The abstract module counts as this one does.
LEMMA SameCount ==
  \A S : Table!Cardinality(S) = Cardinality(S)
PROOF
  BY DEF Table!Cardinality, Cardinality, Table!IsFiniteSet, IsFiniteSet

\* Every step of the table is a step of the relation, or leaves it as it is.
LEMMA StepsMap ==
  psInv /\ [psNext]_psVars => [Table!SubscriptionNext]_<<Relation, Names>>
PROOF
  <1> SUFFICES ASSUME psInv, [psNext]_psVars
               PROVE  Table!SubscriptionNext \/ (Relation' = Relation /\ Names' = Names)
    OBVIOUS
  <1>1. WellFormed(topics)
    BY TypesAndShape DEF psInv
  <1>2. CASE UNCHANGED topics
    BY <1>2, SMT DEF Relation, Names, Subscribed, Slots
  <1>3. ASSUME NEW fd \in SubscriberFd, pubsub_unsubscribe_all(fd)
        PROVE  Table!UnsubscribeAll(fd)
    <2>1. /\ WellFormed(topics')
          /\ NamesOf(topics') = NamesOf(topics)
          /\ \A f \in SubscriberFd, a \in Topic : IsIn(topics', f, a) <=> IsIn(topics, f, a) /\ f # fd
      BY <1>1, <1>3, UnsubscribeAllRemoves
    <2>2. Relation' = Relation \ ({fd} \X Topic)
      BY <1>1, <2>1, MappedTable, MappedTableAfter, SMT
    <2>3. Names' = Names
      BY <1>1, <2>1, MappedTable, MappedTableAfter
    <2> QED
      BY <2>2, <2>3 DEF Table!UnsubscribeAll
  <1>4. ASSUME NEW fd \in SubscriberFd, NEW name \in Topic, pubsub_unsubscribe(fd, name)
        PROVE  Table!Unsubscribe(fd, name)
    <2>1. /\ WellFormed(topics')
          /\ NamesOf(topics') = NamesOf(topics)
          /\ \A f \in SubscriberFd, a \in Topic :
               IsIn(topics', f, a) <=> IsIn(topics, f, a) /\ ~(f = fd /\ a = name)
      BY <1>1, <1>4, UnsubscribeRemoves
    <2>2. Relation' = Relation \ {<<fd, name>>}
      BY <1>1, <2>1, MappedTable, MappedTableAfter, SMT
    <2>3. Names' = Names
      BY <1>1, <2>1, MappedTable, MappedTableAfter
    <2> QED
      BY <2>2, <2>3 DEF Table!Unsubscribe
  <1>5. ASSUME NEW fd \in SubscriberFd, NEW name \in Topic, pubsub_subscribe(fd, name)
        PROVE  Table!Subscribe(fd, name)
    <2> DEFINE room == Cardinality({g \in SubscriberFd : IsIn(topics, g, name)}) < MAX_SUBSCRIBERS_PER_TOPIC
    <2>1. /\ WellFormed(topics')
          /\ NamesOf(topics') = NamesOf(topics) \cup IF Len(topics) < MAX_TOPICS THEN {name} ELSE {}
          /\ \A f \in SubscriberFd, a \in Topic :
               IsIn(topics', f, a) <=>
                 \/ IsIn(topics, f, a)
                 \/ f = fd /\ a = name /\ name \in NamesOf(topics') /\ room
      BY <1>1, <1>5, SubscribeRecords
    <2>2. {g \in SubscriberFd : IsIn(topics, g, name)} = Table!SubscribersOf(name)
      BY <1>1, MappedTable DEF Table!SubscribersOf
    <2>3. Table!HasRoom(name) <=> name \in NamesOf(topics') /\ room
      BY <2>1, <2>2, MappedTableAfter, SameCount DEF Table!HasRoom
    <2> HIDE DEF room
    <2>4. Names' = IF Cardinality(Names) < MAX_TOPICS THEN Names \cup {name} ELSE Names
      BY <1>1, <2>1, MappedTable, MappedTableAfter
    <2>5. Relation' = IF Table!HasRoom(name) THEN Relation \cup {<<fd, name>>} ELSE Relation
      <3>1. \A f \in SubscriberFd, a \in Topic :
              <<f, a>> \in Relation' <=> <<f, a>> \in Relation \/ (f = fd /\ a = name /\ Table!HasRoom(name))
        BY <1>1, <2>1, <2>3, MappedTable, MappedTableAfter
      <3>2. Relation' \subseteq SubscriberFd \X Topic /\ Relation \subseteq SubscriberFd \X Topic
        BY DEF Relation
      <3> QED
        BY <3>1, <3>2, SMT
    <2> QED
      BY <2>4, <2>5, SameCount DEF Table!Subscribe
  <1>6. psNext => \/ UNCHANGED topics
                  \/ \E fd \in SubscriberFd : pubsub_unsubscribe_all(fd)
                  \/ \E fd \in SubscriberFd, name \in Topic :
                       pubsub_subscribe(fd, name) \/ pubsub_unsubscribe(fd, name)
    BY DEF psNext, publish_begin, status_begin, publish_next, status_next_topic, publish_end
  <1> QED
    BY <1>2, <1>3, <1>4, <1>5, <1>6 DEF Table!SubscriptionNext, psVars

\* The topic arrays, with their first-match loops, shifts and silent limits, implement
\* the bounded relation between descriptors and topic names.
THEOREM TableIsRelation ==
  psSpec => ImplementsSubscriptions
PROOF
  <1>1. pubsub_init => Table!SubscriptionInit
    BY SMT DEF pubsub_init, Table!SubscriptionInit, Relation, Names, Subscribed, Slots
  <1> QED
    BY <1>1, psAlways, StepsMap, PTL DEF psSpec, ImplementsSubscriptions, Table!SubscriptionSpec
=============================================================================
