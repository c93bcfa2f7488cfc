-------------------------- MODULE BrokerInvariant ---------------------------
(***************************************************************************)
(* The inductive invariants of the whole broker, what its steps have in    *)
(* common, and what a step of one thread means for the descriptors of the  *)
(* others. WorkerProofs and ThreadProofs show which of these steps the     *)
(* threads take.                                                           *)
(***************************************************************************)
EXTENDS BrokerState, ClientInvariant, TLAPS

\* Most leaves need no arithmetic: Zenon, unless a leaf names SMT.
USE Zenon

----------------------------------------------------------------------------
(* The inductive invariant, beside the registry's own IInv. *)

Places ==
  {"idle", "lookup", "client", "set_hostname", "copy_hostname", "rearm", "commands", "publish",
   "fanout", "relock", "unsubscribe_all", "remove", "destroy", "lobby", "sign", "certificate",
   "close", "scan", "sweep", "find_subscribe", "find_unsubscribe", "subscribe", "unsubscribe",
   "set", "status", "clients", "topics", "list"}
Locals == [fd : Fd \cup {NULL}, topic : Topic \cup {NULL}, cn : Host, conn : 0 .. MaxConn]
Sessions == [auth : BOOLEAN, ssl : BOOLEAN, lines : Seq(Commands)]
Peers == [cn : Host, addr : Address \cup {NULL}, unsent : Seq(Chunks), input : Seq(Chunks),
          closed : BOOLEAN]
Files == [Fd \cup {NULL} -> 0 .. MaxConn]

BTypes ==
  /\ pc \in [Thread -> Places]
  /\ local \in [Thread -> Locals]
  /\ session \in [Client -> Sessions]
  /\ epoll \in [Fd -> {"none", "off", "vault", "lobby"}]
  /\ queue \in Seq(Tasks)
  /\ main_task \in Tasks \cup {NULL}
  /\ peer \in [Conn -> Peers]
  /\ tmp \in [csr : Files, crt : Files]
  /\ load \in Workloads

\* What a thread's position says about its locals and about the client it holds.
Finding == {"find_subscribe", "find_unsubscribe"}
PositionOf(t) ==
  /\ t \in Worker =>
       /\ pc[t] # "idle" => local[t].fd \in Fd
       /\ pc[t] \in {"client", "commands"} => at[t] = "holding"
       /\ pc[t] = "set_hostname" => local[t].cn \in Hostname
  /\ t = Heartbeat => (pc[t] = "remove" => local[t].fd \in Fd)
  /\ t = Cli =>
       /\ pc[t] \in Finding => local[t].cn \in Hostname
       /\ pc[t] \in Finding \cup {"subscribe", "unsubscribe"} => local[t].topic \in Topic
  /\ pc[t] = "publish" => local[t].topic \in Topic
  /\ at[t] = "asking" => pc[t] \in Finding
Positions == \A t \in Thread : PositionOf(t)

\* An open socket is one of the connections accepted so far, and its peer has a name.
SocketsHavePeers ==
  \A f \in Fd : sock[f] # Closed =>
    sock[f].conn \in 1 .. accepted /\ peer[sock[f].conn].cn \in Hostname

\* A lobby descriptor is in one place at a time: armed, in main's hands, in the queue,
\* or with the one worker that will close it.
Enrolling == {"lobby", "sign", "certificate", "close"}
Armed(f) == epoll[f] = "lobby"
LobbyTask(f) == [conn_type |-> "lobby", client_fd |-> f]
Dispatched(f) == main_task = LobbyTask(f)
Queued(f) == \E i \in 1 .. Len(queue) : queue[i] = LobbyTask(f)
Serves(w, f) == pc[w] \in Enrolling /\ local[w].fd = f
Served(f) == \E w \in Worker : Serves(w, f)

LobbyOwned ==
  \A f \in Fd :
    /\ Armed(f) \/ Dispatched(f) \/ Queued(f) \/ Served(f) => sock[f].kind = "lobby"
    /\ Armed(f) => ~Dispatched(f) /\ ~Queued(f) /\ ~Served(f)
    /\ Dispatched(f) => ~Queued(f) /\ ~Served(f)
    /\ Queued(f) => ~Served(f)
    /\ \A i, j \in 1 .. Len(queue) : queue[i] = LobbyTask(f) /\ queue[j] = LobbyTask(f) => i = j
    /\ \A w, u \in Worker : Serves(w, f) /\ Serves(u, f) => w = u

\* The files of a descriptor belong to the peer that the worker is serving.
Verified(n) == n \in 1 .. accepted /\ peer[n].addr \in DNS[peer[n].cn]
FilesOwned ==
  \A w \in Worker :
    /\ pc[w] = "sign" => Verified(Requester(w)) /\ tmp.csr[local[w].fd] = Requester(w)
    /\ pc[w] = "certificate" => Verified(Requester(w)) /\ tmp.crt[local[w].fd] = Requester(w)

IssuedToOwner ==
  \A c \in issued : c.of = c.to /\ Verified(c.to) /\ c.host = peer[c.to].cn

BInv == BTypes /\ Positions /\ SocketsHavePeers /\ LobbyOwned /\ FilesOwned /\ IssuedToOwner

----------------------------------------------------------------------------
(* Where the threads stand, who wakes up a client and who owns a           *)
(* descriptor.                                                             *)

\* How a thread stands with respect to the registry at each place in its own code.
Station(t) ==
  /\ pc[t] \in {"client", "commands"} => at[t] = "holding"
  /\ pc[t] \in {"lookup", "relock", "fanout", "list"} => at[t] \in {"out", "getting"}
  /\ pc[t] = "destroy" => at[t] = "removing"
  /\ pc[t] = "copy_hostname" => at[t] = "naming"
  /\ pc[t] = "clients" => at[t] = "walking"
  /\ pc[t] \in Finding => at[t] \in {"out", "asking"}
  /\ pc[t] \notin Finding \cup {"client", "commands", "lookup", "relock", "fanout", "list",
                                "destroy", "copy_hostname", "clients"} => at[t] = "out"

\* What a thread keeps while it goes through the subscribers: pubsub_lock, and, when it
\* waits for one of them, that one.
Fanning(t) ==
  pc[t] \in {"fanout", "list"} =>
    /\ pubsub_lock = t
    /\ at[t] = "getting" => AtSubscriber(t) /\ ptr[t] = Lookup(Current(t))

\* What a worker knows about the client of its task.
Knows(w) ==
  /\ pc[w] \in {"lookup", "relock"} /\ at[w] = "getting" => ptr[w] = fd_key[local[w].fd]
  /\ pc[w] \in {"client", "commands", "destroy"} => heap[ptr[w]].fd = local[w].fd

AInv ==
  /\ cursor = [t \in Thread |-> cursor[t]]
  /\ \A t \in Thread \ {Main, Heartbeat} : Station(t) /\ Fanning(t)
  /\ \A w \in Worker : Knows(w)

Woken(f) == epoll[f] # "none" /\ (epoll[f] = "vault" \/ QueuedFor(f) \/ \E w \in Worker : Working(w, f))
\* Every registered client is in the epoll set and armed, or its event is on the way to a
\* worker, or a worker is busy with its descriptor.
WInv == \A f \in Fd : fd_key[f] # NULL => Woken(f)

\* Without the heartbeat a vault descriptor too is in one place at a time: armed, in
\* main's hands, in the queue, or with one worker.  Until that worker has taken the
\* client out of the registry the client is registered, and once it has looked it up the
\* connection is the one it deals with.
Tending(w) == pc[w] \notin Enrolling \cup {"idle"}
VaultTask(f) == [conn_type |-> "vault", client_fd |-> f]
VArmed(f) == epoll[f] = "vault"
VDispatched(f) == main_task = VaultTask(f)
VQueued(f) == \E i \in 1 .. Len(queue) : queue[i] = VaultTask(f)
Tends(w, f) == Tending(w) /\ local[w].fd = f
Tended(f) == \E w \in Worker : Tends(w, f)

QueuedOnce(f) ==
  \A i, j \in 1 .. Len(queue) : queue[i] = VaultTask(f) /\ queue[j] = VaultTask(f) => i = j
OwnedOnce(f) ==
  /\ VArmed(f) \/ VDispatched(f) \/ VQueued(f) => fd_key[f] # NULL
  /\ VArmed(f) => ~VDispatched(f) /\ ~VQueued(f) /\ ~Tended(f)
  /\ VDispatched(f) => ~VQueued(f) /\ ~Tended(f)
  /\ VQueued(f) => ~Tended(f)
  /\ QueuedOnce(f)
  /\ \A w, u \in Worker : Tends(w, f) /\ Tends(u, f) => w = u
VaultOwned == \A f \in Fd : OwnedOnce(f)
Owns(w) ==
  Tending(w) =>
    /\ pc[w] # "destroy" => fd_key[local[w].fd] # NULL
    /\ pc[w] # "lookup" => sock[local[w].fd].conn = local[w].conn

OwnedAll == VaultOwned /\ \A w \in Worker : Owns(w)

\* No sweep: the heartbeat thread sleeps.
Asleep == load.sweeps = 0 /\ pc[Heartbeat] = "idle"
OwnInv == ~load.heartbeat => Asleep /\ VaultOwned /\ \A w \in Worker : Owns(w)

----------------------------------------------------------------------------
(* For the modules that use the registry: every call is a step of it. *)

\* The descriptor of an allocated struct is an open vault connection.
LEMMA VaultSocket ==
  ASSUME IInv, NEW q \in Client, heap[q].alloc
  PROVE  heap[q].fd \in Fd /\ sock[heap[q].fd] # Closed /\ sock[heap[q].fd].kind = "vault"
<1>1. heap[q].fd \in Fd /\ sock[heap[q].fd] = [kind |-> "vault", conn |-> heap[q].conn]
  BY DEF IInv, AllocatedIsOpen
<1>. QED  BY <1>1, SMT DEF Closed

LEMMA RegistrySteps ==
  /\ \A p \in Client : grow_idle(p) => cmNext
  /\ \A f \in Fd : accept_lobby(f) => cmNext
  /\ \A f \in Fd : sock[f].kind = "lobby" /\ close_lobby(f) => cmNext
  /\ \A e \in fds_to_remove : sweep_next(e) => cmNext
  /\ \A t \in Thread :
       /\ \A f \in Fd, p \in Client : accept_vault(t, f, p) => cmNext
       /\ \A f \in Fd : /\ get_wait(t, fd_key[f], "getting") => cmNext
                        /\ get_lock(t, fd_key[f]) => cmNext
                        /\ get_visit(t, fd_key[f]) => cmNext
                        /\ client_remove(t, f) => cmNext
       /\ \A h \in Hostname : /\ get_wait(t, host_key[h], "asking") => cmNext
                              /\ get_visit(t, host_key[h]) => cmNext
       /\ \A f \in Fd, h \in Hostname : client_set_hostname(t, f, h) => cmNext
       /\ \A p \in Client : /\ walk_visit(t, p, TRUE) => cmNext
                            /\ walk_visit(t, p, FALSE) => cmNext
       /\ client_add(t) => cmNext
       /\ touch(t) => cmNext
       /\ client_unlock(t) => cmNext
       /\ client_set_hostname_copy(t) => cmNext
       /\ client_remove_destroy(t) => cmNext
       /\ walk_begin(t) => cmNext
       /\ walk_end(t) => cmNext
<1>1. /\ \A p \in Client : grow_idle(p) => cmReads
      /\ \A f \in Fd : accept_lobby(f) => cmReads
      /\ \A f \in Fd : sock[f].kind = "lobby" /\ close_lobby(f) => cmReads
      /\ \A e \in fds_to_remove : sweep_next(e) => cmReads
  BY Zenon DEF cmReads
<1>2. ASSUME NEW t \in Thread
      PROVE  /\ \A f \in Fd, p \in Client : accept_vault(t, f, p) => cmReads
             /\ \A f \in Fd : /\ get_wait(t, fd_key[f], "getting") => cmReads
                              /\ get_lock(t, fd_key[f]) => cmReads
                              /\ get_visit(t, fd_key[f]) => cmReads
             /\ \A h \in Hostname : /\ get_wait(t, host_key[h], "asking") => cmReads
                                    /\ get_visit(t, host_key[h]) => cmReads
             /\ \A p \in Client : /\ walk_visit(t, p, TRUE) => cmReads
                                  /\ walk_visit(t, p, FALSE) => cmReads
  BY Zenon DEF cmReads
<1>3. ASSUME NEW t \in Thread
      PROVE  /\ touch(t) => cmReads
             /\ client_unlock(t) => cmReads
             /\ client_set_hostname_copy(t) => cmReads
             /\ client_remove_destroy(t) => cmReads
             /\ walk_begin(t) => cmReads
             /\ walk_end(t) => cmReads
  BY Zenon DEF cmReads
<1>4. cmReads => cmNext
  BY Zenon DEF cmNext
<1>5. \A t \in Thread :
        /\ client_add(t) => cmNext
        /\ \A f \in Fd : /\ client_remove(t, f) => cmNext
                         /\ \A h \in Hostname : client_set_hostname(t, f, h) => cmNext
  BY Zenon DEF cmNext
<1>. QED  BY Zenon, <1>1, <1>2, <1>3, <1>4, <1>5

\* The lookups that pubsub_publish and pubsub_print_status make with any descriptor.
LEMMA LookupWaits ==
  ASSUME NEW t \in Thread, NEW x, get_wait(t, Lookup(x), "getting")
  PROVE  cmNext
<1>1. x \in Fd
  BY DEF get_wait, Lookup
<1>. QED  BY Zenon, <1>1, RegistrySteps DEF Lookup

\* The registry operations of thread t leave the positions of the others alone.
OthersStay(t) == \A u \in Thread : u # t => at'[u] = at[u]

LEMMA RegistryMoves ==
  ASSUME IInv, NEW t \in Thread
  PROVE  /\ UNCHANGED cmVars => OthersStay(t) /\ at'[t] = at[t]
         /\ client_unlock(t) => OthersStay(t) /\ at'[t] = "out"
         /\ touch(t) => OthersStay(t) /\ at'[t] = at[t]
         /\ \A p : get_wait(t, p, "getting") => OthersStay(t) /\ at'[t] = "getting"
         /\ \A p : get_wait(t, p, "asking") => OthersStay(t) /\ at'[t] = "asking"
         /\ \A p : get_lock(t, p) => OthersStay(t) /\ at'[t] = "holding"
         /\ \A p : get_visit(t, p) => OthersStay(t) /\ at'[t] = "out"
         /\ \A f, h : client_set_hostname(t, f, h) =>
              OthersStay(t) /\ at'[t] \in {"out", "naming"}
         /\ client_set_hostname_copy(t) => OthersStay(t) /\ at'[t] = "out"
         /\ \A f : client_remove(t, f) => OthersStay(t) /\ at'[t] \in {"out", "removing"}
         /\ client_remove_destroy(t) => OthersStay(t) /\ at'[t] = "out"
         /\ client_add(t) => OthersStay(t) /\ at'[t] = "out"
         /\ \A f, p : accept_vault(t, f, p) => OthersStay(t) /\ at'[t] = "adding"
         /\ walk_begin(t) => OthersStay(t) /\ at'[t] = "walking"
         /\ walk_end(t) => OthersStay(t) /\ at'[t] = "out"
<1>1. ASSUME NEW s, NEW p, Goes(t, s, p)
      PROVE  OthersStay(t) /\ at'[t] = s
  BY <1>1 DEF IInv, cmTypeOK, Goes, OthersStay
<1>2. ASSUME at' = at
      PROVE  OthersStay(t) /\ at'[t] = at[t]
  BY <1>2 DEF OthersStay
<1>3. (UNCHANGED cmVars => OthersStay(t) /\ at'[t] = at[t]) /\
      (touch(t) => OthersStay(t) /\ at'[t] = at[t])
  BY <1>2 DEF cmVars, touch
<1>4. /\ client_unlock(t) => OthersStay(t) /\ at'[t] = "out"
      /\ client_set_hostname_copy(t) => OthersStay(t) /\ at'[t] = "out"
      /\ client_remove_destroy(t) => OthersStay(t) /\ at'[t] = "out"
      /\ client_add(t) => OthersStay(t) /\ at'[t] = "out"
      /\ walk_begin(t) => OthersStay(t) /\ at'[t] = "walking"
      /\ walk_end(t) => OthersStay(t) /\ at'[t] = "out"
  BY <1>1 DEF client_unlock, client_set_hostname_copy, client_remove_destroy, client_add,
       walk_begin, walk_end
<1>5. /\ \A p : get_wait(t, p, "getting") => OthersStay(t) /\ at'[t] = "getting"
      /\ \A p : get_wait(t, p, "asking") => OthersStay(t) /\ at'[t] = "asking"
      /\ \A p : get_lock(t, p) => OthersStay(t) /\ at'[t] = "holding"
      /\ \A p : get_visit(t, p) => OthersStay(t) /\ at'[t] = "out"
      /\ \A f, p : accept_vault(t, f, p) => OthersStay(t) /\ at'[t] = "adding"
  BY <1>1 DEF get_wait, get_lock, get_visit, accept_vault
<1>6. ASSUME NEW f, NEW h, client_set_hostname(t, f, h)
      PROVE  OthersStay(t) /\ at'[t] \in {"out", "naming"}
  BY <1>1, <1>2, <1>6 DEF client_set_hostname
<1>7. ASSUME NEW f, client_remove(t, f)
      PROVE  OthersStay(t) /\ at'[t] \in {"out", "removing"}
  BY <1>1, <1>2, <1>7 DEF client_remove
<1>. QED  BY <1>3, <1>4, <1>5, <1>6, <1>7

\* Everything but accept, close and destroy leaves the sockets alone.
LEMMA SameSockets ==
  ASSUME NEW t
  PROVE  /\ UNCHANGED cmVars \/ client_unlock(t) \/ touch(t) \/ client_set_hostname_copy(t)
              \/ client_add(t) \/ walk_begin(t) \/ walk_end(t)
              => sock' = sock /\ accepted' = accepted
         /\ \A p : get_wait(t, p, "getting") \/ get_wait(t, p, "asking") \/ get_lock(t, p)
                     \/ get_visit(t, p) => sock' = sock /\ accepted' = accepted
         /\ \A f : client_remove(t, f) => sock' = sock /\ accepted' = accepted
         /\ \A f, h : client_set_hostname(t, f, h) => sock' = sock /\ accepted' = accepted
         /\ \A p, b : walk_visit(t, p, b) => sock' = sock /\ accepted' = accepted
         /\ \A e : sweep_next(e) => sock' = sock /\ accepted' = accepted
         /\ \A p : grow_idle(p) => sock' = sock /\ accepted' = accepted
BY DEF cmVars, client_unlock, touch, client_set_hostname_copy, client_add, walk_begin, walk_end,
     get_wait, get_lock, get_visit, client_remove, client_set_hostname, walk_visit, sweep_next,
     grow_idle

----------------------------------------------------------------------------
(* What a step of the registry leaves alone. *)

SameStruct(p) ==
  heap'[p].alloc = heap[p].alloc /\ heap'[p].fd = heap[p].fd /\ heap'[p].conn = heap[p].conn

\* Structs and sockets change in accept, in close_lobby and when a client is destroyed.
Accepts(f, p) ==
  /\ sock[f] = Closed /\ ~heap[p].alloc
  /\ \A q \in Client : q # p => SameStruct(q)
  /\ \A g \in Fd : g # f => sock'[g] = sock[g]
Lobbies(f) ==
  /\ sock[f].kind # "vault"
  /\ \A q \in Client : SameStruct(q)
  /\ \A g \in Fd : g # f => sock'[g] = sock[g]
Destroys(t) ==
  /\ at[t] = "removing" /\ at'[t] = "out" /\ heap[ptr[t]].lock = NULL
  /\ \A q \in Client : q # ptr[t] => SameStruct(q)
  /\ \A g \in Fd : g # heap[ptr[t]].fd => sock'[g] = sock[g]

LEMMA StructSteps ==
  ASSUME IInv, [cmNext]_cmVars
  PROVE  \/ sock' = sock /\ \A q \in Client : SameStruct(q)
         \/ \E f \in Fd, p \in Client : Accepts(f, p)
         \/ \E f \in Fd : Lobbies(f)
         \/ \E t \in Thread : Destroys(t)
<1>. USE DEF SameStruct
<1>1. /\ heap \in [Client -> Structs] /\ sock \in [Fd -> Sockets]
      /\ at \in [Thread -> {"out", "adding", "getting", "asking", "holding", "naming", "removing", "walking"}]
  BY DEF IInv, cmTypeOK
<1>2. ASSUME heap' = heap, sock' = sock
      PROVE  sock' = sock /\ \A q \in Client : SameStruct(q)
  BY <1>2
<1>3. ASSUME NEW p, NEW v, sock' = sock,
             \/ heap' = [heap EXCEPT ![p].idle = v] \/ heap' = [heap EXCEPT ![p].lock = v]
             \/ heap' = [heap EXCEPT ![p].hostname = v]
      PROVE  sock' = sock /\ \A q \in Client : SameStruct(q)
  BY <1>1, <1>3, SMT DEF Structs
<1>4. ASSUME NEW f \in Fd, accept_lobby(f) \/ (sock[f].kind = "lobby" /\ close_lobby(f))
      PROVE  Lobbies(f)
  BY <1>1, <1>4, SMT DEF accept_lobby, accept, close_lobby, close, Lobbies, Closed
<1>5. ASSUME NEW t \in Thread, NEW f \in Fd, NEW p \in Client, accept_vault(t, f, p)
      PROVE  Accepts(f, p)
  BY <1>1, <1>5 DEF accept_vault, accept, Accepts
<1>6. ASSUME NEW t \in Thread, client_remove_destroy(t)
      PROVE  Destroys(t)
  BY <1>1, <1>6 DEF client_remove_destroy, Goes, close, Destroys
<1>7. ASSUME NEW t \in Thread,
             \/ client_add(t) \/ walk_begin(t) \/ walk_end(t)
             \/ \E f \in Fd : \/ client_remove(t, f) \/ get_wait(t, fd_key[f], "getting")
                              \/ get_visit(t, fd_key[f])
                              \/ \E h \in Hostname : client_set_hostname(t, f, h)
             \/ \E h \in Hostname : get_wait(t, host_key[h], "asking") \/ get_visit(t, host_key[h])
             \/ \E p \in Client : walk_visit(t, p, TRUE) \/ walk_visit(t, p, FALSE)
      PROVE  heap' = heap /\ sock' = sock
  BY Zenon, <1>7 DEF client_add, walk_begin, walk_end, client_remove, get_wait, get_visit,
       client_set_hostname, walk_visit
<1>8. ASSUME NEW t \in Thread,
             \/ touch(t) \/ client_unlock(t) \/ client_set_hostname_copy(t)
             \/ \E f \in Fd : get_lock(t, fd_key[f])
      PROVE  sock' = sock /\ \A q \in Client : SameStruct(q)
  BY <1>3, <1>8 DEF touch, client_unlock, client_set_hostname_copy, get_lock
<1>9. ASSUME NEW p \in Client, grow_idle(p)
      PROVE  sock' = sock /\ \A q \in Client : SameStruct(q)
  BY <1>3, <1>9 DEF grow_idle
<1>10. ASSUME NEW e \in fds_to_remove, sweep_next(e)
       PROVE  heap' = heap /\ sock' = sock
  BY <1>10 DEF sweep_next
<1>11. CASE UNCHANGED cmVars
  BY <1>2, <1>11 DEF cmVars
<1>12. CASE cmNext
  BY <1>2, <1>4, <1>5, <1>6, <1>7, <1>8, <1>9, <1>10, <1>12 DEF cmNext, cmReads
<1>. QED  BY <1>11, <1>12

\* The descriptor keys change only while nobody reads the map.
LEMMA KeySteps ==
  ASSUME [cmNext]_cmVars, fd_key' # fd_key
  PROVE  rdlock = {}
BY Zenon DEF cmNext, cmReads, cmVars, grow_idle, accept_lobby, close_lobby, sweep_next, accept_vault,
     get_wait, get_lock, get_visit, touch, client_unlock, client_set_hostname_copy,
     client_remove_destroy, walk_begin, walk_end, walk_visit, client_add, client_remove,
     client_set_hostname

\* A registered client stays what it is, and so does one that a thread holds or removes.
LEMMA RegisteredStays ==
  ASSUME IInv, [cmNext]_cmVars, NEW f \in Fd, fd_key[f] # NULL
  PROVE  fd_key[f] \in Client /\ SameStruct(fd_key[f]) /\ sock'[f] = sock[f]
<1>1. /\ fd_key[f] \in Client /\ heap[fd_key[f]].alloc /\ heap[fd_key[f]].fd = f
      /\ sock[f] # Closed /\ sock[f].kind = "vault"
  <2>1. fd_key[f] \in Client /\ heap[fd_key[f]].alloc /\ heap[fd_key[f]].fd = f
    BY DEF IInv, cmTypeOK, KeysLeadToStructs
  <2>. QED  BY <2>1, VaultSocket
<1>2. ASSUME NEW t \in Thread, Destroys(t)
      PROVE  ptr[t] # fd_key[f] /\ heap[ptr[t]].fd # f
  <2>1. ptr[t] \in Client /\ heap[ptr[t]].alloc /\ ~Mapped(ptr[t])
    BY <1>2 DEF IInv, PrivateStructs, Private, Destroys
  <2>. QED  BY <1>1, <2>1 DEF IInv, OneStructPerFd, Mapped
<1>3. CASE \E t \in Thread : Destroys(t)
  BY <1>1, <1>2, <1>3 DEF Destroys
<1>. QED  BY <1>1, <1>3, StructSteps DEF Accepts, Lobbies

LEMMA HeldStays ==
  ASSUME IInv, [cmNext]_cmVars, NEW t \in Thread, at[t] \in {"holding", "removing"},
         at'[t] = at[t]
  PROVE  SameStruct(ptr[t]) /\ sock'[heap[ptr[t]].fd] = sock[heap[ptr[t]].fd]
<1>1. ptr[t] \in Client /\ heap[ptr[t]].alloc
  BY DEF IInv, HoldersOwnLocks, PrivateStructs, Private
<1>2. heap[ptr[t]].fd \in Fd /\ sock[heap[ptr[t]].fd] # Closed /\ sock[heap[ptr[t]].fd].kind = "vault"
  BY <1>1, VaultSocket
<1>3. ASSUME NEW u \in Thread, Destroys(u)
      PROVE  ptr[u] # ptr[t] /\ heap[ptr[u]].fd # heap[ptr[t]].fd
  <2>1. ptr[u] \in Client /\ heap[ptr[u]].alloc /\ at[u] = "removing" /\ u # t
    BY <1>3 DEF IInv, PrivateStructs, Private, Destroys
  <2>2. ptr[u] # ptr[t]
    BY <1>3, <2>1, NullIsNothing DEF IInv, PrivateStructs, Private, HoldersOwnLocks, Destroys
  <2>. QED  BY <1>1, <2>1, <2>2 DEF IInv, OneStructPerFd
<1>4. CASE \E u \in Thread : Destroys(u)
  BY <1>1, <1>2, <1>3, <1>4 DEF Destroys
<1>. QED  BY <1>1, <1>2, <1>4, StructSteps DEF Accepts, Lobbies

\* The operations of thread t leave the other threads alone, and all but client_add and
\* client_remove the descriptor keys.
OthersKeep(t) ==
  \A u \in Thread : u # t => at'[u] = at[u] /\ ptr'[u] = ptr[u] /\ arg'[u] = arg[u]
KeylessCall(t) ==
  \/ UNCHANGED cmVars \/ touch(t) \/ client_unlock(t) \/ client_set_hostname_copy(t)
  \/ client_remove_destroy(t) \/ walk_begin(t) \/ walk_end(t)
  \/ \E p : \/ get_wait(t, p, "getting") \/ get_wait(t, p, "asking") \/ get_lock(t, p)
            \/ get_visit(t, p) \/ grow_idle(p) \/ walk_visit(t, p, TRUE) \/ walk_visit(t, p, FALSE)
  \/ \E f, h : client_set_hostname(t, f, h)
  \/ \E f, p : accept_vault(t, f, p)
  \/ \E f : accept_lobby(f) \/ close_lobby(f)
  \/ \E e : sweep_next(e)

LEMMA RegistryFrames ==
  ASSUME IInv, NEW t \in Thread
  PROVE  /\ KeylessCall(t) => OthersKeep(t) /\ fd_key' = fd_key
         /\ client_add(t) \/ (\E f : client_remove(t, f)) => OthersKeep(t)
<1>1. ASSUME NEW s, NEW p, Goes(t, s, p), \/ arg' = arg \/ \E h : arg' = [arg EXCEPT ![t] = h]
      PROVE  OthersKeep(t)
  BY <1>1 DEF IInv, cmTypeOK, Goes, OthersKeep
<1>2. ASSUME UNCHANGED <<at, ptr, arg>>
      PROVE  OthersKeep(t)
  BY <1>2 DEF OthersKeep
<1>3. KeylessCall(t) => fd_key' = fd_key
  BY Zenon DEF KeylessCall, cmVars, touch, client_unlock, client_set_hostname_copy, client_remove_destroy,
       walk_begin, walk_end, get_wait, get_lock, get_visit, grow_idle, walk_visit,
       client_set_hostname, accept_vault, accept_lobby, close_lobby, sweep_next
<1>4. KeylessCall(t) => \/ UNCHANGED <<at, ptr, arg>>
                        \/ \E s, p : /\ Goes(t, s, p)
                                     /\ arg' = arg \/ \E h : arg' = [arg EXCEPT ![t] = h]
  BY Zenon DEF KeylessCall, cmVars, touch, client_unlock, client_set_hostname_copy, client_remove_destroy,
       walk_begin, walk_end, get_wait, get_lock, get_visit, grow_idle, walk_visit,
       client_set_hostname, accept_vault, accept_lobby, close_lobby, sweep_next
<1>5. client_add(t) => OthersKeep(t)
  BY <1>1 DEF client_add
<1>6. ASSUME NEW f, client_remove(t, f)
      PROVE  OthersKeep(t)
  BY <1>1, <1>2, <1>6 DEF client_remove
<1>. QED  BY <1>1, <1>2, <1>3, <1>4, <1>5, <1>6

\* The client behind a descriptor key, and there is no other struct with its descriptor;
\* so a struct on its way in or out has no key.
LEMMA RegisteredClient ==
  ASSUME IInv, NEW f \in Fd, fd_key[f] # NULL
  PROVE  /\ fd_key[f] \in Client /\ heap[fd_key[f]].alloc /\ heap[fd_key[f]].fd = f
         /\ sock[f].kind = "vault" /\ sock[f] # Closed /\ sock[f].conn = heap[fd_key[f]].conn
         /\ \A p \in Client : heap[p].alloc /\ heap[p].fd = f => p = fd_key[f]
<1>1. fd_key[f] \in Client /\ heap[fd_key[f]].alloc /\ heap[fd_key[f]].fd = f
  BY DEF IInv, cmTypeOK, KeysLeadToStructs
<1>2. sock[f] = [kind |-> "vault", conn |-> heap[fd_key[f]].conn]
  BY <1>1 DEF IInv, AllocatedIsOpen
<1>3. \A p \in Client : heap[p].alloc /\ heap[p].fd = f => p = fd_key[f]
  BY <1>1 DEF IInv, OneStructPerFd
<1>. QED  BY <1>1, <1>2, <1>3, SMT DEF Closed

LEMMA PrivateHasNoKey ==
  ASSUME IInv, NEW t \in Thread, Private(t)
  PROVE  /\ ptr[t] \in Client /\ heap[ptr[t]].alloc /\ heap[ptr[t]].fd \in Fd
         /\ fd_key[heap[ptr[t]].fd] = NULL
<1>1. ptr[t] \in Client /\ heap[ptr[t]].alloc /\ ~Mapped(ptr[t])
  BY DEF IInv, PrivateStructs
<1>2. heap[ptr[t]].fd \in Fd
  BY <1>1, VaultSocket
<1>. QED  BY <1>1, <1>2, RegisteredClient DEF Mapped

----------------------------------------------------------------------------
(* Steps that more than one kind of thread takes are steps of the registry *)
(* and of the topic table, or leave them alone.                            *)

LEMMA LookupVisits ==
  ASSUME IInv, Positions, NEW t \in Thread, pc[t] \notin Finding, NEW x, get_visit(t, Lookup(x))
  PROVE  cmNext
<1>1. at[t] # "asking"
  BY DEF Positions, PositionOf
<1>2. CASE at[t] = "getting"
  <2>1. PICK f \in Fd : fd_key[f] = ptr[t]
    BY <1>2 DEF IInv, WaitersKeepMap, Mapped
  <2>2. get_visit(t, fd_key[f])
    BY <1>2 DEF get_visit, Found
  <2>. QED  BY Zenon, <2>2, RegistrySteps
<1>3. CASE at[t] = "out"
  <2>1. x \in Fd
    BY <1>3 DEF get_visit, Lookup, Found
  <2>. QED  BY Zenon, <2>1, RegistrySteps DEF Lookup
<1>. QED  BY <1>1, <1>2, <1>3 DEF get_visit

\* What more than one kind of thread does.
LEMMA SharedRegistrySteps ==
  ASSUME IInv, BInv, NEW t \in Thread, NEW next,
         \/ local[t].fd \in Fd /\ remove_unmap(t, next)
         \/ remove_destroy(t, next) \/ publish_lock(t) \/ publish_skip(t) \/ publish_wait(t)
         \/ publish_write(t) \/ publish_unlock(t, next)
  PROVE  [cmNext]_cmVars
<1>1. CASE local[t].fd \in Fd /\ remove_unmap(t, next)
  BY Zenon, <1>1, RegistrySteps DEF remove_unmap
<1>2. CASE remove_destroy(t, next)
  BY Zenon, <1>2, RegistrySteps DEF remove_destroy
<1>3. CASE publish_wait(t)
  BY <1>3, LookupWaits DEF publish_wait
<1>4. CASE publish_write(t)
  BY <1>4, LookupVisits DEF publish_write, At, Finding, BInv
<1>5. CASE publish_lock(t) \/ publish_skip(t) \/ publish_unlock(t, next)
  BY <1>5 DEF publish_lock, publish_skip, publish_unlock
<1>. QED  BY <1>1, <1>2, <1>3, <1>4, <1>5

LEMMA TableSteps ==
  /\ \A fd \in SubscriberFd : pubsub_unsubscribe_all(fd) => psNext
  /\ \A fd \in SubscriberFd, name \in Topic : /\ pubsub_subscribe(fd, name) => psNext
                                              /\ pubsub_unsubscribe(fd, name) => psNext
  /\ \A t \in Thread : /\ \A name \in Topic : publish_begin(t, name) => psNext
                       /\ status_begin(t) => psNext
                       /\ publish_next(t) => psNext
                       /\ status_next_topic(t) => psNext
                       /\ publish_end(t) => psNext
BY DEF psNext

LEMMA SharedTableSteps ==
  ASSUME BInv, NEW t \in Thread, NEW next,
         \/ remove_unmap(t, next) \/ remove_destroy(t, next) \/ publish_lock(t) \/ publish_skip(t)
         \/ publish_wait(t) \/ publish_write(t) \/ publish_unlock(t, next)
  PROVE  [psNext]_psVars
<1>1. CASE remove_unmap(t, next) \/ remove_destroy(t, next) \/ publish_wait(t)
  BY <1>1 DEF remove_unmap, remove_destroy, publish_wait
<1>2. CASE publish_lock(t)
  <2>1. local[t].topic \in Topic
    BY <1>2 DEF BInv, Positions, PositionOf, publish_lock, At
  <2>. QED  BY <1>2, <2>1, TableSteps DEF publish_lock
<1>3. CASE publish_skip(t) \/ publish_write(t) \/ publish_unlock(t, next)
  BY <1>3, TableSteps DEF publish_skip, publish_write, publish_unlock
<1>. QED  BY <1>1, <1>2, <1>3

----------------------------------------------------------------------------
(* Most steps are quiet: they touch no socket, task or file, no peer's     *)
(* identity, and no worker that is busy with an enrolment.                 *)

SameIdentities ==
  \A n \in Conn : peer'[n].cn = peer[n].cn /\ peer'[n].addr = peer[n].addr

Quiet ==
  /\ sock' = sock /\ accepted' = accepted /\ queue' = queue /\ main_task' = main_task
  /\ tmp' = tmp /\ issued' = issued
  /\ SameIdentities
  /\ \A f \in Fd : epoll'[f] = "lobby" => epoll[f] = "lobby"
  /\ \A w \in Worker : pc'[w] \in Enrolling => pc'[w] = pc[w] /\ local'[w] = local[w]

LEMMA AcceptedIsConn ==
  ASSUME IInv, NEW n \in 1 .. accepted
  PROVE  n \in Conn
BY ConnBound, SMT DEF IInv, cmTypeOK, Conn

\* The peers of accepted connections stay who they are.
LEMMA StaysVerified ==
  ASSUME IInv, SameIdentities, accepted' = accepted, NEW n, Verified(n)
  PROVE  Verified(n)' /\ peer'[n].cn = peer[n].cn
BY AcceptedIsConn DEF Verified, SameIdentities

\* Who has connected stays who they are, whoever connects.
SamePeople ==
  \A n \in 1 .. accepted :
    n \in 1 .. accepted' /\ peer'[n].cn = peer[n].cn /\ peer'[n].addr = peer[n].addr

LEMMA PeopleStayVerified ==
  ASSUME SamePeople, NEW n, Verified(n)
  PROVE  Verified(n)' /\ peer'[n].cn = peer[n].cn
BY DEF SamePeople, Verified

LEMMA AcceptedGrows ==
  ASSUME IInv, [cmNext]_cmVars
  PROVE  \A n \in 1 .. accepted : n \in 1 .. accepted' /\ n # accepted + 1
<1>. DEFINE Grows == accepted' = accepted \/ accepted' = accepted + 1
<1>1. /\ \A f : accept_lobby(f) \/ close_lobby(f) => Grows
      /\ \A t, f, p : accept_vault(t, f, p) => Grows
  BY DEF accept_lobby, close_lobby, accept_vault, accept
<1>2. cmNext => Grows
  <2>. HIDE DEF Grows
  <2>1. accepted' = accepted => Grows
    BY DEF Grows
  <2>2. \A t : /\ touch(t) \/ client_unlock(t) \/ client_set_hostname_copy(t)
                    \/ client_remove_destroy(t) \/ walk_begin(t) \/ walk_end(t) => Grows
               /\ \A p : /\ grow_idle(p) \/ walk_visit(t, p, TRUE) \/ walk_visit(t, p, FALSE) => Grows
                         /\ get_wait(t, p, "getting") \/ get_wait(t, p, "asking")
                              \/ get_lock(t, p) \/ get_visit(t, p) => Grows
               /\ \A e : sweep_next(e) => Grows
    BY <2>1, SameSockets DEF client_remove_destroy
  <2>3. cmReads => Grows
    BY <1>1, <2>2 DEF cmReads
  <2>. QED  BY <2>1, <2>3 DEF cmNext, client_add, client_remove, client_set_hostname
<1>3. accepted' \in {accepted, accepted + 1}
  BY <1>2 DEF cmVars
<1>4. accepted \in Nat
  BY ConnBound, SMT DEF IInv, cmTypeOK
<1>. QED  BY <1>3, <1>4, SMT

LEMMA SamePeopleStay ==
  ASSUME IInv, [cmNext]_cmVars, SameIdentities
  PROVE  SamePeople
BY AcceptedGrows, AcceptedIsConn DEF SamePeople, SameIdentities

LEMMA QuietSockets ==
  ASSUME IInv, SocketsHavePeers, SameIdentities, sock' = sock, accepted' = accepted
  PROVE  SocketsHavePeers'
BY AcceptedIsConn DEF SocketsHavePeers, SameIdentities

LEMMA QuietKeeps ==
  ASSUME IInv, BInv, Quiet
  PROVE  (SocketsHavePeers /\ LobbyOwned /\ FilesOwned /\ IssuedToOwner)'
<1>1. SocketsHavePeers'
  BY QuietSockets DEF BInv, Quiet
<1>2. LobbyOwned'
  <2>1. ASSUME NEW f \in Fd
        PROVE  /\ Armed(f)' => Armed(f)
               /\ Dispatched(f)' <=> Dispatched(f)
               /\ Queued(f)' <=> Queued(f)
               /\ \A w \in Worker : Serves(w, f)' => Serves(w, f)
    BY DEF Quiet, Armed, Dispatched, Queued, LobbyTask, Serves
  <2>2. \A f \in Fd : Served(f)' => Served(f)
    BY <2>1 DEF Served
  <2>3. \A f \in Fd : \A i, j \in 1 .. Len(queue') :
          queue'[i] = LobbyTask(f)' /\ queue'[j] = LobbyTask(f)' => i = j
    BY DEF BInv, LobbyOwned, Quiet, LobbyTask
  <2>. QED  BY <2>1, <2>2, <2>3 DEF BInv, LobbyOwned, Quiet
<1>3. FilesOwned'
  <2>1. ASSUME NEW w \in Worker, pc'[w] \in {"sign", "certificate"}
        PROVE  pc'[w] = pc[w] /\ local'[w] = local[w] /\ Requester(w)' = Requester(w)
    BY <2>1 DEF Quiet, Enrolling, Requester
  <2>. QED  BY <2>1, StaysVerified, SMT DEF BInv, FilesOwned, Quiet
<1>4. IssuedToOwner'
  BY StaysVerified DEF BInv, IssuedToOwner, Quiet
<1>. QED  BY <1>1, <1>2, <1>3, <1>4

----------------------------------------------------------------------------
(* Facts about moving on. *)

\* Only thread t moved.
Moves(t, b, l) ==
  /\ pc' \in [Thread -> Places] /\ local' \in [Thread -> Locals]
  /\ pc'[t] = b /\ local'[t] = l
  /\ \A u \in Thread : u # t => pc'[u] = pc[u] /\ local'[u] = local[u]

LEMMA GotoWithMoves ==
  ASSUME BTypes, NEW t \in Thread, NEW b \in Places, NEW l \in Locals, GotoWith(t, b, l)
  PROVE  Moves(t, b, l)
BY DEF BTypes, GotoWith, Moves

LEMMA NoLocalType == NoLocal \in Locals
BY ConnBound, SMT DEF NoLocal, Locals, Host

\* The locals a thread goes on with.
Carried(t, b) == IF b = "idle" THEN NoLocal ELSE local[t]

LEMMA GotoMoves ==
  ASSUME BTypes, NEW t \in Thread, NEW b \in Places, Goto(t, b)
  PROVE  Moves(t, b, Carried(t, b))
<1>1. Carried(t, b) \in Locals
  BY NoLocalType DEF BTypes, Carried
<1>. QED  BY <1>1, GotoWithMoves DEF Goto, Carried

LEMMA MovesKeep ==
  ASSUME Positions, NEW t \in Thread, NEW b, NEW l, Moves(t, b, l), OthersStay(t), PositionOf(t)'
  PROVE  Positions'
BY DEF Positions, PositionOf, Moves, OthersStay

LEMMA UnregisterTypes ==
  ASSUME BTypes, NEW f \in Fd, Unregister(f)
  PROVE  /\ epoll' \in [Fd -> {"none", "off", "vault", "lobby"}]
         /\ epoll'[f] = "none"
         /\ \A g \in Fd : g # f => epoll'[g] = epoll[g]
BY DEF BTypes, Unregister

----------------------------------------------------------------------------
(* What the threads do in common. *)

\* A step outside enrolment: one thread moves, sessions change, descriptors are re-armed
\* and input is taken.
LEMMA OrdinaryStep ==
  ASSUME IInv, BInv, NEW t \in Thread, NEW b, NEW l, Moves(t, b, l), OthersStay(t),
         b \notin Enrolling, PositionOf(t)', load' \in Workloads,
         sock' = sock, accepted' = accepted, UNCHANGED <<queue, main_task, tmp, issued>>,
         session' \in [Client -> Sessions],
         epoll' \in [Fd -> {"none", "off", "vault", "lobby"}],
         \A g \in Fd : epoll'[g] = "lobby" => epoll[g] = "lobby",
         peer' \in [Conn -> Peers], SameIdentities
  PROVE  BInv'
<1>1. Positions'
  BY MovesKeep DEF BInv
<1>2. BTypes'
  BY DEF BInv, BTypes, Moves
<1>3. Quiet
  BY Threads DEF Quiet, Moves
<1>. QED  BY <1>1, <1>2, <1>3, QuietKeeps DEF BInv

\* A thread that only moves, outside enrolment, keeps everything.
LEMMA JustMoves ==
  ASSUME IInv, BInv, NEW t \in Thread, NEW b, NEW l, Moves(t, b, l), OthersStay(t),
         b \notin Enrolling, PositionOf(t)', load' \in Workloads,
         sock' = sock, accepted' = accepted, UNCHANGED <<session, netVars, enrollVars>>
  PROVE  BInv'
<1>1. UNCHANGED <<session, epoll, queue, main_task, peer, tmp, issued>>
  BY DEF netVars, enrollVars
<1>2. SameIdentities
  BY <1>1 DEF SameIdentities
<1>. QED  BY <1>1, <1>2, OrdinaryStep DEF BInv, BTypes

\* So does a step in which no thread moves.
LEMMA NoOneMoves ==
  ASSUME IInv, BInv, NEW t \in Thread, OthersStay(t), PositionOf(t)',
         sock' = sock, accepted' = accepted,
         UNCHANGED <<pc, local, session, queue, main_task, tmp, issued, load>>,
         epoll' \in [Fd -> {"none", "off", "vault", "lobby"}],
         \A g \in Fd : epoll'[g] = "lobby" => epoll[g] = "lobby",
         peer' \in [Conn -> Peers], SameIdentities
  PROVE  BInv'
<1>1. Positions'
  BY DEF BInv, Positions, PositionOf, OthersStay
<1>2. BTypes'
  BY DEF BInv, BTypes
<1>3. Quiet
  BY DEF Quiet
<1>. QED  BY <1>1, <1>2, <1>3, QuietKeeps DEF BInv

LEMMA StaysPut ==
  ASSUME IInv, BInv, NEW t \in Thread, OthersStay(t), PositionOf(t)',
         sock' = sock, accepted' = accepted,
         UNCHANGED <<pc, local, session, netVars, enrollVars, load>>
  PROVE  BInv'
<1>1. UNCHANGED <<pc, local, session, epoll, queue, main_task, peer, tmp, issued, load>>
  BY DEF netVars, enrollVars
<1>2. SameIdentities
  BY <1>1 DEF SameIdentities
<1>. QED  BY <1>1, <1>2, NoOneMoves DEF BInv, BTypes

LEMMA LoadStays == BInv => load \in Workloads
BY DEF BInv, BTypes

\* A socket that is closed while it is a registered client's is no lobby socket.
LEMMA DestroyKeeps ==
  ASSUME IInv, BInv, NEW t \in Thread, NEW next \in {"idle", "sweep"}, remove_destroy(t, next)
  PROVE  BInv'
<1>. DEFINE f == heap[ptr[t]].fd
<1>1. Moves(t, next, Carried(t, next))
  BY GotoMoves DEF BInv, Places, remove_destroy
<1>2. OthersStay(t) /\ at'[t] = "out"
  BY RegistryMoves DEF remove_destroy
<1>3. f \in Fd /\ sock[f].kind = "vault"
  <2>1. ptr[t] \in Client /\ heap[ptr[t]].alloc
    BY DEF IInv, PrivateStructs, Private, remove_destroy, client_remove_destroy
  <2>. QED  BY <2>1, VaultSocket
<1>4. sock' = [sock EXCEPT ![f] = Closed] /\ accepted' = accepted
  BY DEF remove_destroy, client_remove_destroy, close
<1>5. Unregister(f) /\ UNCHANGED <<session, queue, main_task, peer, tmp, issued, load>>
  BY DEF remove_destroy, dataVars, enrollVars
<1>6. Positions'
  <2>1. PositionOf(t)'
    <3>1. t \in Worker => next = "idle" \/ local'[t].fd \in Fd
      BY <1>1, Threads DEF BInv, Positions, PositionOf, Moves, Carried, remove_destroy, At
    <3>. QED  BY <1>1, <1>2, <3>1 DEF PositionOf, Moves, Carried, Finding
  <2>. QED  BY <1>1, <1>2, <2>1, MovesKeep DEF BInv
<1>7. BTypes'
  BY <1>1, <1>3, <1>5, UnregisterTypes DEF BInv, BTypes, Moves
<1>8. SocketsHavePeers'
  BY <1>3, <1>4, <1>5 DEF BInv, SocketsHavePeers, IInv, cmTypeOK
<1>9. ~Armed(f) /\ ~Dispatched(f) /\ ~Queued(f) /\ ~Served(f)
  BY <1>3 DEF BInv, LobbyOwned
<1>10. ASSUME NEW g \in Fd
       PROVE  /\ Armed(g)' => Armed(g) /\ g # f
              /\ Dispatched(g)' <=> Dispatched(g)
              /\ Queued(g)' <=> Queued(g)
              /\ \A w \in Worker : Serves(w, g)' => Serves(w, g)
              /\ g # f => sock'[g] = sock[g]
  <2>1. \A w \in Worker : Serves(w, g)' => Serves(w, g)
    BY <1>1, Threads DEF Serves, Moves, Enrolling
  <2>2. Armed(g)' => Armed(g) /\ g # f
    BY <1>3, <1>5, UnregisterTypes DEF BInv, Armed
  <2>. QED  BY <1>3, <1>4, <1>5, <2>1, <2>2 DEF Dispatched, Queued, LobbyTask, IInv, cmTypeOK
<1>11. LobbyOwned'
  <2>1. \A g \in Fd : Served(g)' => Served(g)
    BY <1>10 DEF Served
  <2>2. \A g \in Fd : \A i, j \in 1 .. Len(queue') :
          queue'[i] = LobbyTask(g)' /\ queue'[j] = LobbyTask(g)' => i = j
    BY <1>5 DEF BInv, LobbyOwned, LobbyTask
  <2>. QED  BY <1>9, <1>10, <2>1, <2>2, SMT DEF BInv, LobbyOwned
<1>12. FilesOwned'
  <2>1. ASSUME NEW w \in Worker, pc'[w] \in {"sign", "certificate"}
        PROVE  /\ pc'[w] = pc[w] /\ local'[w] = local[w] /\ local[w].fd \in Fd
               /\ local[w].fd # f
    <3>1. pc'[w] = pc[w] /\ local'[w] = local[w]
      BY <1>1, <2>1, Threads DEF Moves
    <3>2. local[w].fd \in Fd
      BY <2>1, <3>1, Threads DEF BInv, Positions, PositionOf
    <3>. QED  BY <1>9, <2>1, <3>1, <3>2 DEF Served, Serves, Enrolling
  <2>2. ASSUME NEW w \in Worker, pc'[w] \in {"sign", "certificate"}
        PROVE  Requester(w)' = Requester(w)
    BY <1>10, <2>1, <2>2 DEF Requester
  <2>3. SameIdentities
    BY <1>5 DEF SameIdentities
  <2>4. ASSUME NEW w \in Worker, pc'[w] \in {"sign", "certificate"}
        PROVE  /\ pc'[w] = "sign" => Verified(Requester(w))' /\ tmp'.csr[local'[w].fd] = Requester(w)'
               /\ pc'[w] = "certificate" =>
                    Verified(Requester(w))' /\ tmp'.crt[local'[w].fd] = Requester(w)'
    <3>1. /\ pc[w] = "sign" => Verified(Requester(w)) /\ tmp.csr[local[w].fd] = Requester(w)
          /\ pc[w] = "certificate" => Verified(Requester(w)) /\ tmp.crt[local[w].fd] = Requester(w)
      BY DEF BInv, FilesOwned
    <3>2. Verified(Requester(w)) => Verified(Requester(w))'
      BY <1>4, <2>2, <2>3, <2>4, StaysVerified
    <3>. QED  BY <1>5, <2>1, <2>2, <2>4, <3>1, <3>2
  <2>. QED  BY <2>4 DEF FilesOwned
<1>13. IssuedToOwner'
  <2>1. SameIdentities
    BY <1>5 DEF SameIdentities
  <2>. QED  BY <1>4, <1>5, <2>1, StaysVerified DEF BInv, IssuedToOwner
<1>. QED  BY <1>6, <1>7, <1>8, <1>11, <1>12, <1>13 DEF BInv

LEMMA SharedStepsKeep ==
  ASSUME IInv, BInv, NEW t \in Thread, NEW next \in {"idle", "sweep", "relock"},
         \/ remove_unmap(t, next) /\ (t \in Worker => next = "idle")
         \/ publish_lock(t) \/ publish_skip(t) \/ publish_wait(t)
         \/ publish_write(t) \/ publish_unlock(t, next)
  PROVE  BInv'
<1>1. load \in Workloads /\ PositionOf(t)
  BY LoadStays DEF BInv, Positions
<1>2. CASE remove_unmap(t, next) /\ (t \in Worker => next = "idle")
  <2>. DEFINE b == IF at'[t] = "removing" THEN "destroy" ELSE next
  <2>1. b \in {"destroy", "idle", "sweep", "relock"}
    OBVIOUS
  <2>2. Moves(t, b, Carried(t, b))
    BY <1>2, <2>1, GotoMoves DEF BInv, Places, remove_unmap
  <2>3. OthersStay(t) /\ at'[t] \in {"out", "removing"} /\ sock' = sock /\ accepted' = accepted
    BY <1>2, RegistryMoves, SameSockets DEF remove_unmap
  <2>4. PositionOf(t)'
    BY <1>1, <1>2, <2>1, <2>2, <2>3 DEF PositionOf, Moves, Carried, Finding, remove_unmap, At
  <2>. QED  BY <1>1, <1>2, <2>1, <2>2, <2>3, <2>4, JustMoves DEF remove_unmap, dataVars, Enrolling
<1>3. CASE publish_lock(t)
  <2>1. Moves(t, "fanout", Carried(t, "fanout"))
    BY <1>3, GotoMoves DEF BInv, Places, publish_lock
  <2>2. OthersStay(t) /\ at'[t] = at[t] /\ sock' = sock /\ accepted' = accepted
    BY <1>3, RegistryMoves, SameSockets DEF publish_lock
  <2>3. PositionOf(t)'
    BY <1>1, <1>3, <2>1, <2>2 DEF PositionOf, Moves, Carried, Finding, publish_lock, At
  <2>. QED  BY <1>1, <1>3, <2>1, <2>2, <2>3, JustMoves DEF publish_lock, dataVars, Enrolling
<1>4. CASE publish_unlock(t, next)
  <2>1. Moves(t, next, Carried(t, next))
    BY <1>4, GotoMoves DEF BInv, Places, publish_unlock
  <2>2. OthersStay(t) /\ at'[t] = at[t] /\ sock' = sock /\ accepted' = accepted
    BY <1>4, RegistryMoves, SameSockets DEF publish_unlock
  <2>3. PositionOf(t)'
    BY <1>1, <1>4, <2>1, <2>2 DEF PositionOf, Moves, Carried, Finding, publish_unlock, At
  <2>. QED  BY <1>1, <1>4, <2>1, <2>2, <2>3, JustMoves DEF publish_unlock, dataVars, Enrolling
<1>5. CASE publish_skip(t) \/ publish_wait(t) \/ publish_write(t)
  <2>1. OthersStay(t) /\ at'[t] \in {at[t], "getting", "out"} /\ sock' = sock /\ accepted' = accepted
    BY Zenon, <1>5, RegistryMoves, SameSockets DEF publish_skip, publish_wait, publish_write
  <2>2. UNCHANGED <<pc, local, session, netVars, enrollVars, load>>
    BY Zenon, <1>5 DEF publish_skip, publish_wait, publish_write, brokerVars, dataVars
  <2>3. pc[t] \in {"fanout", "list"}
    BY Zenon, <1>5 DEF publish_skip, publish_wait, publish_write, At
  <2>4. PositionOf(t)'
    BY <1>1, <2>1, <2>2, <2>3 DEF PositionOf, Finding
  <2>. QED  BY <2>1, <2>2, <2>4, StaysPut
<1>. QED  BY <1>2, <1>3, <1>4, <1>5

----------------------------------------------------------------------------
(* They hold initially. *)

LEMMA BrokerInit == Init => BInv
<1>. SUFFICES ASSUME Init PROVE BInv
  OBVIOUS
<1>1. BTypes
  <2>1. pc \in [Thread -> Places] /\ local \in [Thread -> Locals]
    BY NoLocalType DEF Init, Places
  <2>2. session \in [Client -> Sessions] /\ peer \in [Conn -> Peers]
    <3>1. NoSession \in Sessions
      BY SMT DEF NoSession, Sessions
    <3>2. NoPeer \in Peers
      BY SMT DEF NoPeer, Peers, Host
    <3>. QED  BY <3>1, <3>2 DEF Init
  <2>3. tmp \in [csr : Files, crt : Files]
    BY ConnBound, SMT DEF Init, Files
  <2>. QED  BY <2>1, <2>2, <2>3, Inputs, SMT DEF Init, BTypes
<1>2. Positions
  BY Zenon DEF Init, client_manager_init, Positions, PositionOf, Finding
<1>3. SocketsHavePeers
  BY DEF Init, client_manager_init, SocketsHavePeers
<1>4. LobbyOwned
  <2>1. ASSUME NEW f \in Fd
        PROVE  ~Armed(f) /\ ~Dispatched(f) /\ ~Queued(f) /\ \A w \in Worker : ~Serves(w, f)
    <3>1. ~Dispatched(f)
      <4>1. LobbyTask(f) \in Tasks
        BY DEF LobbyTask, Tasks
      <4>. QED  BY <4>1, NullIsNoTask DEF Init, Dispatched
    <3>2. ~Queued(f)
      BY SMT DEF Init, Queued
    <3>. QED  BY <3>1, <3>2, Threads DEF Init, Armed, Serves, Enrolling
  <2>2. \A i \in 1 .. Len(queue) : FALSE
    BY SMT DEF Init
  <2>3. \A f \in Fd : ~Served(f)
    BY <2>1 DEF Served
  <2>. QED  BY Zenon, <2>1, <2>2, <2>3 DEF LobbyOwned
<1>5. FilesOwned /\ IssuedToOwner
  BY Threads DEF Init, FilesOwned, IssuedToOwner
<1>. QED  BY <1>1, <1>2, <1>3, <1>4, <1>5 DEF BInv

LEMMA ServiceInit == Init => AInv /\ WInv
<1>. SUFFICES ASSUME Init PROVE AInv /\ WInv
  OBVIOUS
<1>1. /\ \A t \in Thread : at[t] = "out" /\ pc[t] = "idle"
      /\ cursor = [t \in Thread |-> cursor[t]] /\ \A f \in Fd : fd_key[f] = NULL
  BY DEF Init, client_manager_init, pubsub_init
<1>2. \A t \in Thread : Station(t) /\ Fanning(t) /\ Knows(t)
  BY Zenon, <1>1 DEF Station, Fanning, Knows, Finding
<1>3. WInv
  BY <1>1 DEF WInv
<1>. QED  BY <1>1, <1>2, <1>3, Threads DEF AInv

LEMMA OwnInit == Init => OwnInv
<1>. SUFFICES ASSUME Init, ~load.heartbeat PROVE Asleep /\ OwnedAll
  BY DEF OwnInv, OwnedAll
<1>1. /\ \A t \in Thread : pc[t] = "idle"
      /\ queue = <<>> /\ main_task = NULL /\ \A f \in Fd : epoll[f] = "none"
  BY DEF Init
<1>2. Asleep
  BY <1>1, Inputs, Threads DEF Init, Asleep
<1>3. \A w \in Worker : ~Tending(w)
  BY <1>1, Threads DEF Tending
<1>4. ASSUME NEW f \in Fd PROVE OwnedOnce(f)
  <2>1. ~VArmed(f) /\ ~VDispatched(f) /\ ~VQueued(f) /\ QueuedOnce(f)
    BY <1>1, NullIsNoTask, SMT DEF VArmed, VDispatched, VQueued, QueuedOnce, VaultTask, Tasks
  <2>. QED  BY <1>3, <2>1 DEF OwnedOnce, Tends
<1>. QED  BY <1>2, <1>3, <1>4 DEF OwnedAll, VaultOwned, Owns

----------------------------------------------------------------------------
(* A step of one thread: what it leaves alone. *)

PcAlone(t) == \A u \in Thread : u # t => pc'[u] = pc[u] /\ local'[u] = local[u]
TableCall(t) ==
  \/ UNCHANGED psVars
  \/ \E fd : \/ pubsub_unsubscribe_all(fd)
             \/ \E name : pubsub_subscribe(fd, name) \/ pubsub_unsubscribe(fd, name)
  \/ \E name : publish_begin(t, name)
  \/ status_begin(t) \/ publish_next(t) \/ status_next_topic(t)
  \/ pubsub_lock = t /\ publish_end(t)

LEMMA GotoEffect ==
  ASSUME BTypes, NEW t \in Thread
  PROVE  /\ \A b, l : GotoWith(t, b, l) => PcAlone(t) /\ pc'[t] = b /\ local'[t] = l
         /\ \A b : Goto(t, b) => PcAlone(t) /\ pc'[t] = b /\ (b # "idle" => local'[t] = local[t])
         /\ UNCHANGED <<pc, local>> => PcAlone(t) /\ pc'[t] = pc[t] /\ local'[t] = local[t]
<1>1. \A b, l : GotoWith(t, b, l) => PcAlone(t) /\ pc'[t] = b /\ local'[t] = l
  BY DEF BTypes, GotoWith, PcAlone
<1>. QED  BY <1>1 DEF Goto, PcAlone

\* Who holds pubsub_lock finds its list and its place in it as they were.
LEMMA TableFrames ==
  ASSUME cursor = [u \in Thread |-> cursor[u]], NEW t \in Thread, TableCall(t)
  PROVE  /\ cursor' = [u \in Thread |-> cursor'[u]]
         /\ \A u \in Thread : u # t /\ pubsub_lock = u =>
              pubsub_lock' = u /\ topics' = topics /\ cursor'[u] = cursor[u]
<1>1. CASE UNCHANGED psVars
  BY <1>1 DEF psVars
<1>2. CASE \E fd : \/ pubsub_unsubscribe_all(fd)
                   \/ \E name : pubsub_subscribe(fd, name) \/ pubsub_unsubscribe(fd, name)
  <2>1. pubsub_lock = NULL /\ cursor' = cursor
    BY <1>2 DEF pubsub_unsubscribe_all, pubsub_subscribe, pubsub_unsubscribe, Unlocked
  <2>. QED  BY <2>1, NullIsNothing
<1>3. CASE (\E name : publish_begin(t, name)) \/ status_begin(t)
  BY <1>3, NullIsNothing DEF publish_begin, status_begin, Unlocked
<1>4. CASE publish_next(t) \/ status_next_topic(t)
  BY <1>4 DEF publish_next, status_next_topic
<1>5. CASE pubsub_lock = t /\ publish_end(t)
  BY <1>5 DEF publish_end
<1>. QED  BY <1>1, <1>2, <1>3, <1>4, <1>5 DEF TableCall

\* What a worker knows, and what a thread among the subscribers keeps, while others move.
LEMMA KnowsStays ==
  ASSUME IInv, AInv, [cmNext]_cmVars, NEW w \in Worker, pc'[w] = pc[w], local'[w] = local[w],
         at'[w] = at[w], ptr'[w] = ptr[w]
  PROVE  Knows(w)'
<1>1. w \in Thread /\ Station(w) /\ Knows(w)
  BY Threads DEF AInv
<1>2. at[w] = "getting" => fd_key' = fd_key
  BY <1>1, KeySteps DEF IInv, WaitersKeepMap
<1>3. at[w] \in {"holding", "removing"} => heap'[ptr[w]].fd = heap[ptr[w]].fd
  BY <1>1, HeldStays DEF SameStruct
<1>. QED  BY <1>1, <1>2, <1>3 DEF Knows, Station

LEMMA FanningStays ==
  ASSUME IInv, AInv, [cmNext]_cmVars, NEW t \in Thread, Fanning(t), pc'[t] = pc[t],
         at'[t] = at[t], ptr'[t] = ptr[t],
         pubsub_lock = t => pubsub_lock' = t /\ topics' = topics /\ cursor'[t] = cursor[t]
  PROVE  Fanning(t)'
<1>1. at[t] = "getting" => fd_key' = fd_key
  BY KeySteps DEF IInv, WaitersKeepMap
<1>. QED  BY <1>1 DEF Fanning, AtSubscriber, Current, Lookup

\* A thread moves and stands where its place in the code says.
Moved(t) ==
  /\ PcAlone(t) /\ OthersKeep(t) /\ TableCall(t)
  /\ t \notin {Main, Heartbeat} => Station(t)' /\ Fanning(t)'
  /\ t \in Worker => Knows(t)'

LEMMA MovedKeeps ==
  ASSUME IInv, AInv, [cmNext]_cmVars, NEW t \in Thread, Moved(t)
  PROVE  AInv'
<1>1. \A u \in Worker : Knows(u)'
  BY KnowsStays, Threads DEF Moved, PcAlone, OthersKeep
<1>2. /\ cursor' = [u \in Thread |-> cursor'[u]]
      /\ \A u \in Thread : u # t /\ pubsub_lock = u =>
           pubsub_lock' = u /\ topics' = topics /\ cursor'[u] = cursor[u]
  BY TableFrames DEF AInv, Moved
<1>3. ASSUME NEW u \in Thread \ {Main, Heartbeat}, u # t
      PROVE  Station(u)' /\ Fanning(u)'
  <2>1. pc'[u] = pc[u] /\ at'[u] = at[u] /\ ptr'[u] = ptr[u] /\ Station(u) /\ Fanning(u)
    BY <1>3 DEF AInv, Moved, PcAlone, OthersKeep
  <2>2. Station(u)'
    BY <2>1 DEF Station
  <2>. QED  BY <1>2, <1>3, <2>1, <2>2, FanningStays
<1>. QED  BY <1>1, <1>2, <1>3 DEF AInv, Moved

\* Mostly it ends up outside the registry.
LEMMA OutStation ==
  ASSUME NEW t, at'[t] = "out",
         pc'[t] \notin {"client", "commands", "destroy", "copy_hostname", "clients", "fanout", "list"}
  PROVE  Station(t)' /\ Fanning(t)' /\ Knows(t)'
BY DEF Station, Fanning, Knows

LEMMA Stationed ==
  ASSUME AInv, NEW t \in Worker \cup {Cli}
  PROVE  t \in Thread /\ Station(t) /\ Fanning(t) /\ t \notin {Main, Heartbeat}
BY Threads DEF AInv

----------------------------------------------------------------------------
(* What a worker's step means for the descriptor of its task. *)

Settled == queue' = queue /\ main_task' = main_task
SameKeys == fd_key' = fd_key

\* It goes on with its client, which it may just have found;
GoesOn(w) ==
  /\ Tending(w) /\ Tending(w)' /\ local'[w].fd = local[w].fd
  /\ pc[w] # "destroy" /\ pc'[w] # "destroy"
  /\ pc'[w] # "lookup" =>
       \/ pc[w] # "lookup" /\ local'[w].conn = local[w].conn
       \/ fd_key[local[w].fd] # NULL /\ local'[w].conn = heap[fd_key[local[w].fd]].conn
  /\ Settled /\ SameKeys /\ epoll' = epoll

\* re-arms it and has done; or there is no client;
Rearms(w) ==
  Tending(w) /\ pc[w] # "destroy" /\ pc'[w] = "idle" /\ Rearm(local[w].fd) /\ Settled /\ SameKeys

Drops(w) ==
  /\ Tending(w) /\ pc'[w] = "idle" /\ fd_key[local[w].fd] = NULL
  /\ Settled /\ SameKeys /\ epoll' = epoll

\* takes the client out of the registry, and destroys it;
Unmaps(w) ==
  /\ pc[w] = "remove" /\ pc'[w] = "destroy" /\ local'[w] = local[w]
  /\ fd_key' = [fd_key EXCEPT ![local[w].fd] = NULL] /\ Settled /\ epoll' = epoll

Finishes(w) ==
  /\ pc[w] \in {"destroy", "close"} /\ pc'[w] = "idle" /\ fd_key[local[w].fd] = NULL
  /\ Unregister(local[w].fd) /\ Settled /\ SameKeys

\* takes the next task, or goes on with an enrolment.
Takes(w) ==
  /\ pc[w] = "idle" /\ queue # <<>> /\ queue' = Tail(queue) /\ main_task' = main_task
  /\ pc'[w] = IF Head(queue).conn_type = "vault" THEN "lookup" ELSE "lobby"
  /\ local'[w].fd = Head(queue).client_fd /\ SameKeys /\ epoll' = epoll

Enrols(w) ==
  /\ pc[w] \in Enrolling /\ pc'[w] \in Enrolling /\ local'[w] = local[w]
  /\ Settled /\ SameKeys /\ epoll' = epoll

Turn(w) ==
  \/ GoesOn(w) \/ Rearms(w) \/ Drops(w) \/ Unmaps(w) \/ Finishes(w) \/ Takes(w) \/ Enrols(w)

\* A worker or the operator publishes.
LEMMA PublishTurns ==
  ASSUME IInv, BInv, AInv, NEW t \in Worker \cup {Cli}, NEW next \in {"idle", "relock"},
         \/ publish_lock(t) \/ publish_skip(t) \/ publish_wait(t) \/ publish_write(t)
         \/ publish_unlock(t, next)
  PROVE  /\ Moved(t) /\ Settled /\ SameKeys /\ epoll' = epoll
         /\ pc[t] \in {"publish", "fanout", "list"} /\ pc'[t] \in {"fanout", "list", next}
         /\ pc'[t] # "idle" => local'[t] = local[t]
<1>1. t \in Thread /\ BTypes /\ Station(t) /\ Fanning(t) /\ t \notin {Main, Heartbeat}
  BY Stationed DEF BInv
<1>2. /\ Settled /\ epoll' = epoll
      /\ UNCHANGED cmVars \/ \E p : get_wait(t, p, "getting") \/ get_visit(t, p)
  BY Zenon DEF publish_lock, publish_skip, publish_wait, publish_write, publish_unlock, Settled, netVars,
       brokerVars
<1>3. OthersKeep(t) /\ SameKeys
  BY Zenon, <1>1, <1>2, RegistryFrames DEF KeylessCall, SameKeys
<1>4. CASE publish_lock(t)
  <2>1. PcAlone(t) /\ pc'[t] = "fanout" /\ local'[t] = local[t]
    BY <1>1, <1>4, GotoEffect, SMT DEF publish_lock
  <2>2. at'[t] = "out" /\ pubsub_lock' = t /\ TableCall(t) /\ pc[t] = "publish"
    <3>1. TableCall(t) /\ pc[t] = "publish" /\ UNCHANGED cmVars /\ pubsub_lock' = t
      BY Zenon, <1>4 DEF publish_lock, At, publish_begin, TableCall
    <3>. QED  BY <1>1, <3>1 DEF Station, Finding, cmVars
  <2>. QED  BY <1>2, <1>3, <2>1, <2>2 DEF Moved, Station, Fanning, Knows, Finding
<1>5. CASE publish_skip(t) \/ publish_write(t)
  <2>1. /\ pc[t] \in {"fanout", "list"} /\ publish_next(t) /\ UNCHANGED <<pc, local>>
        /\ (at[t] = "out" /\ UNCHANGED cmVars) \/ \E p : get_visit(t, p)
    BY Zenon, <1>5 DEF publish_skip, publish_write, At, brokerVars
  <2>2. PcAlone(t)
    BY <1>1, <2>1, GotoEffect
  <2>3. at'[t] = "out" /\ pubsub_lock' = t /\ TableCall(t)
    <3>1. at'[t] = "out"
      BY Zenon, <1>1, <2>1, RegistryMoves
    <3>. QED  BY <1>1, <2>1, <3>1 DEF Fanning, publish_next, TableCall
  <2>. QED  BY <1>2, <1>3, <2>1, <2>2, <2>3 DEF Moved, Station, Fanning, Knows, Finding
<1>6. CASE publish_wait(t)
  <2>1. /\ pc[t] \in {"fanout", "list"} /\ UNCHANGED psVars /\ UNCHANGED <<pc, local>>
        /\ AtSubscriber(t) /\ get_wait(t, Lookup(Current(t)), "getting")
    BY <1>6 DEF publish_wait, brokerVars
  <2>2. PcAlone(t)
    BY <1>1, <2>1, GotoEffect
  <2>3. at'[t] = "getting" /\ ptr'[t] = Lookup(Current(t))
    BY <1>1, <2>1 DEF get_wait, Goes, IInv, cmTypeOK
  <2>4. Fanning(t)'
    <3>1. pubsub_lock' = pubsub_lock /\ AtSubscriber(t)' /\ Lookup(Current(t))' = Lookup(Current(t))
      BY Zenon, <1>3, <2>1 DEF psVars, AtSubscriber, Current, Lookup, SameKeys
    <3>. QED  BY <1>1, <2>1, <2>3, <3>1 DEF Fanning
  <2>. QED  BY <1>2, <1>3, <2>1, <2>2, <2>3, <2>4 DEF Moved, Station, Knows, Finding, TableCall
<1>7. CASE publish_unlock(t, next)
  <2>1. pc[t] = "fanout" /\ publish_end(t) /\ UNCHANGED cmVars /\ Goto(t, next)
    BY <1>7 DEF publish_unlock, At
  <2>2. PcAlone(t) /\ pc'[t] = next /\ (next # "idle" => local'[t] = local[t])
    BY <1>1, <2>1, GotoEffect
  <2>3. at'[t] = "out" /\ TableCall(t)
    BY <1>1, <2>1 DEF Fanning, Station, publish_end, cmVars, TableCall
  <2>. QED  BY <1>2, <1>3, <2>1, <2>2, <2>3, OutStation DEF Moved
<1>. QED  BY <1>4, <1>5, <1>6, <1>7

----------------------------------------------------------------------------
(* Such a step forgets no client. *)

\* What tasks and busy workers there are for f, after a step of thread t.
LEMMA OthersWork ==
  ASSUME NEW t \in Thread, PcAlone(t), NEW f
  PROVE  /\ Settled /\ QueuedFor(f) => QueuedFor(f)'
         /\ \A u \in Worker : u # t /\ Working(u, f) => Working(u, f)'
BY Threads DEF PcAlone, Settled, QueuedFor, Working

LEMMA TakenOrQueued ==
  ASSUME BTypes, NEW w \in Worker, Takes(w), NEW f, QueuedFor(f)
  PROVE  QueuedFor(f)' \/ Working(w, f)'
<1>1. CASE main_task # NULL /\ main_task.client_fd = f
  BY <1>1 DEF QueuedFor, Takes
<1>2. CASE \E i \in 1 .. Len(queue) : queue[i].client_fd = f
  <2>1. PICK i \in 1 .. Len(queue) : queue[i].client_fd = f
    BY <1>2
  <2>2. queue \in Seq(Tasks) /\ queue # <<>> /\ queue' = Tail(queue)
    BY DEF BTypes, Takes
  <2>3. CASE i = 1
    <3>1. Head(queue) = queue[1]
      BY <2>2, SMT
    <3>. QED  BY <2>1, <2>3, <3>1 DEF Takes, Working
  <2>4. CASE i # 1
    <3>1. i - 1 \in 1 .. Len(queue') /\ queue'[i - 1] = queue[i]
      BY <2>1, <2>2, <2>4, SMT
    <3>. QED  BY <2>1, <3>1 DEF QueuedFor
  <2>. QED  BY <2>3, <2>4
<1>. QED  BY <1>1, <1>2 DEF QueuedFor

LEMMA TurnKeepsWakeup ==
  ASSUME BInv, WInv, fd_key \in [Fd -> Client \cup {NULL}], NEW w \in Worker, PcAlone(w), Turn(w)
  PROVE  WInv'
<1>. SUFFICES ASSUME NEW f \in Fd, fd_key'[f] # NULL
              PROVE  Woken(f)'
  BY DEF WInv, Woken
<1>1. /\ w \in Thread /\ epoll \in [Fd -> {"none", "off", "vault", "lobby"}]
      /\ pc[w] # "idle" => local[w].fd \in Fd
  BY Threads DEF BInv, BTypes, Positions, PositionOf
<1>2. fd_key[f] # NULL /\ Woken(f)
  <2>1. fd_key[f] # NULL
    BY DEF Turn, GoesOn, Rearms, Drops, Unmaps, Finishes, Takes, Enrols, SameKeys
  <2>. QED  BY <2>1 DEF WInv
<1>3. /\ Settled /\ QueuedFor(f) => QueuedFor(f)'
      /\ \A u \in Worker : u # w /\ Working(u, f) => Working(u, f)'
  BY <1>1, OthersWork
<1>4. CASE GoesOn(w) \/ Enrols(w)
  <2>1. Settled /\ epoll' = epoll /\ (Working(w, f) => Working(w, f)')
    BY <1>4 DEF GoesOn, Enrols, Enrolling, Tending, Working
  <2>. QED  BY <1>2, <1>3, <2>1 DEF Woken
<1>5. CASE Rearms(w)
  <2>1. Settled /\ local[w].fd \in Fd /\ Rearm(local[w].fd)
    BY <1>1, <1>5 DEF Rearms, Tending
  <2>2. /\ epoll'[f] # "none" /\ (epoll[f] = "vault" => epoll'[f] = "vault")
        /\ f = local[w].fd => epoll'[f] = "vault"
    BY <1>1, <1>2, <2>1 DEF Rearm, Woken
  <2>3. Working(w, f) => f = local[w].fd
    BY DEF Working
  <2>. QED  BY <1>2, <1>3, <2>1, <2>2, <2>3 DEF Woken
<1>6. CASE Drops(w) \/ Unmaps(w) \/ Finishes(w)
  <2>1. Settled /\ local[w].fd \in Fd /\ f # local[w].fd
    BY <1>1, <1>2, <1>6 DEF Drops, Unmaps, Finishes, Tending
  <2>2. epoll'[f] = epoll[f]
    BY <1>1, <1>6, <2>1 DEF Drops, Unmaps, Finishes, Unregister
  <2>3. ~Working(w, f)
    BY <2>1 DEF Working
  <2>. QED  BY <1>2, <1>3, <2>1, <2>2, <2>3 DEF Woken
<1>7. CASE Takes(w)
  <2>1. epoll' = epoll /\ ~Working(w, f)
    BY <1>7 DEF Takes, Working
  <2>2. QueuedFor(f) => QueuedFor(f)' \/ Working(w, f)'
    BY <1>7, TakenOrQueued DEF BInv
  <2>. QED  BY <1>2, <1>3, <2>1, <2>2 DEF Woken
<1>. QED  BY <1>4, <1>5, <1>6, <1>7 DEF Turn

----------------------------------------------------------------------------
(* Without the heartbeat no connection is taken for another. *)

\* A descriptor that comes to no new place is owned as before.
LEMMA StaysOwned ==
  ASSUME NEW f, OwnedOnce(f), VArmed(f)' => VArmed(f), VDispatched(f)' => VDispatched(f),
         VQueued(f)' => VQueued(f), QueuedOnce(f)', \A u \in Worker : Tends(u, f)' => Tends(u, f),
         fd_key'[f] # NULL \/ ~(VArmed(f) \/ VDispatched(f) \/ VQueued(f)) \/ fd_key'[f] = fd_key[f]
  PROVE  OwnedOnce(f)'
BY DEF OwnedOnce, Tended

LEMMA SettledTasks ==
  ASSUME NEW f, Settled, QueuedOnce(f)
  PROVE  /\ VDispatched(f)' <=> VDispatched(f)
         /\ VQueued(f)' <=> VQueued(f)
         /\ QueuedOnce(f)'
BY DEF Settled, VDispatched, VQueued, QueuedOnce, VaultTask

\* A worker that does not move keeps its client.
LEMMA OwnsStays ==
  ASSUME IInv, BInv, AInv, [cmNext]_cmVars, NEW u \in Worker, pc'[u] = pc[u], local'[u] = local[u],
         at'[u] = at[u], Owns(u),
         Tending(u) /\ pc[u] # "destroy" => fd_key'[local[u].fd] # NULL
  PROVE  Owns(u)'
<1>1. u \in Thread /\ Station(u) /\ Knows(u) /\ (pc[u] # "idle" => local[u].fd \in Fd)
  BY Threads DEF AInv, BInv, Positions, PositionOf
<1>2. Tending(u) => sock'[local[u].fd] = sock[local[u].fd]
  <2>1. CASE Tending(u) /\ pc[u] # "destroy"
    BY <1>1, <2>1, RegisteredStays DEF Owns, Tending
  <2>2. CASE pc[u] = "destroy"
    <3>1. at[u] = "removing" /\ heap[ptr[u]].fd = local[u].fd
      BY <1>1, <2>2 DEF Station, Knows
    <3>. QED  BY <1>1, <3>1, HeldStays
  <2>. QED  BY <2>1, <2>2
<1>. QED  BY <1>2 DEF Owns, Tending

\* Tasks leave the queue in order.
LEMMA TakesTask ==
  ASSUME BTypes, NEW w \in Worker, Takes(w), NEW f, QueuedOnce(f)
  PROVE  /\ VDispatched(f)' <=> VDispatched(f)
         /\ VQueued(f)' => VQueued(f)
         /\ QueuedOnce(f)'
         /\ Tends(w, f)' => VQueued(f) /\ ~VQueued(f)'
<1>1. queue \in Seq(Tasks) /\ queue # <<>> /\ queue' = Tail(queue) /\ main_task' = main_task
  BY DEF BTypes, Takes
<1>2. /\ 1 \in 1 .. Len(queue) /\ Head(queue) = queue[1] /\ Head(queue) \in Tasks
      /\ \A i \in 1 .. Len(queue') : i + 1 \in 1 .. Len(queue) /\ queue'[i] = queue[i + 1]
  BY <1>1, SMT
<1>3. VDispatched(f)' <=> VDispatched(f)
  BY <1>1 DEF VDispatched, VaultTask
<1>4. VQueued(f)' => VQueued(f)
  BY <1>2 DEF VQueued, VaultTask
<1>5. QueuedOnce(f)'
  <2>. SUFFICES ASSUME NEW i \in 1 .. Len(queue'), NEW j \in 1 .. Len(queue'),
                       queue'[i] = VaultTask(f), queue'[j] = VaultTask(f)
                PROVE  i = j
    BY DEF QueuedOnce, VaultTask
  <2>1. i + 1 = j + 1
    BY <1>2, SMT DEF QueuedOnce
  <2>. QED  BY <2>1, SMT
<1>6. ASSUME Tends(w, f)'
      PROVE  VQueued(f) /\ ~VQueued(f)'
  <2>1. Head(queue).conn_type = "vault" /\ Head(queue).client_fd = f
    BY <1>6 DEF Takes, Tends, Tending, Enrolling
  <2>2. queue[1] = VaultTask(f)
    BY <1>2, <2>1 DEF Tasks, VaultTask
  <2>3. ASSUME NEW i \in 1 .. Len(queue'), queue'[i] = VaultTask(f)
        PROVE  FALSE
    <3>1. i + 1 = 1
      BY <1>2, <2>2, <2>3 DEF QueuedOnce
    <3>. QED  BY <3>1, SMT
  <2>. QED  BY <1>2, <2>2, <2>3 DEF VQueued, VaultTask
<1>. QED  BY <1>3, <1>4, <1>5, <1>6

LEMMA TurnKeepsOwned ==
  ASSUME BInv, VaultOwned, NEW w \in Worker, Owns(w), PcAlone(w), Turn(w),
         fd_key \in [Fd -> Client \cup {NULL}]
  PROVE  VaultOwned'
<1>. SUFFICES ASSUME NEW f \in Fd PROVE OwnedOnce(f)'
  BY DEF VaultOwned
<1>1. /\ w \in Thread /\ epoll \in [Fd -> {"none", "off", "vault", "lobby"}] /\ BTypes
      /\ OwnedOnce(f) /\ QueuedOnce(f) /\ (pc[w] # "idle" => local[w].fd \in Fd)
  BY Threads DEF BInv, BTypes, VaultOwned, OwnedOnce, Positions, PositionOf
<1>2. \A u \in Worker : u # w => (Tends(u, f)' <=> Tends(u, f))
  BY Threads DEF PcAlone, Tends, Tending
<1>3. Settled => /\ VDispatched(f)' <=> VDispatched(f)
                 /\ VQueued(f)' <=> VQueued(f)
                 /\ QueuedOnce(f)'
  BY <1>1, SettledTasks
<1>4. CASE GoesOn(w) \/ Enrols(w) \/ Drops(w) \/ Finishes(w)
  <2>1. Settled /\ SameKeys /\ (Tends(w, f)' => Tends(w, f))
    BY <1>4 DEF GoesOn, Enrols, Drops, Finishes, Tends, Tending, Enrolling
  <2>2. VArmed(f)' => VArmed(f)
    BY <1>1, <1>4 DEF GoesOn, Enrols, Drops, Finishes, VArmed, Unregister
  <2>. QED  BY <1>1, <1>2, <1>3, <2>1, <2>2, StaysOwned DEF SameKeys
<1>5. CASE Unmaps(w)
  <2>1. Settled /\ epoll' = epoll /\ (Tends(w, f)' <=> Tends(w, f)) /\ Tends(w, local[w].fd)
    BY <1>5 DEF Unmaps, Tends, Tending, Enrolling
  <2>2. VArmed(f)' <=> VArmed(f)
    BY <2>1 DEF VArmed
  <2>3. CASE f = local[w].fd
    <3>1. ~(VArmed(f) \/ VDispatched(f) \/ VQueued(f))
      BY <1>1, <2>1, <2>3 DEF OwnedOnce, Tended
    <3>. QED  BY <1>1, <1>2, <1>3, <2>1, <2>2, <3>1, StaysOwned
  <2>4. CASE f # local[w].fd
    <3>1. fd_key'[f] = fd_key[f]
      BY <1>5, <2>4 DEF Unmaps
    <3>. QED  BY <1>1, <1>2, <1>3, <2>1, <2>2, <3>1, StaysOwned
  <2>. QED  BY <2>3, <2>4
<1>6. CASE Rearms(w)
  <2>1. /\ Settled /\ SameKeys /\ ~Tends(w, f)' /\ Tends(w, local[w].fd) /\ pc[w] # "destroy"
        /\ Rearm(local[w].fd)
    BY <1>6 DEF Rearms, Tends, Tending
  <2>2. CASE f = local[w].fd
    <3>1. fd_key[f] # NULL
      BY <2>1, <2>2 DEF Owns, Tends
    <3>2. ~VDispatched(f) /\ ~VQueued(f) /\ \A u \in Worker : Tends(u, f) => u = w
      BY <1>1, <2>1, <2>2 DEF OwnedOnce, Tended
    <3>. QED  BY <1>2, <1>3, <2>1, <3>1, <3>2 DEF OwnedOnce, Tended, SameKeys
  <2>3. CASE f # local[w].fd
    <3>1. VArmed(f)' => VArmed(f)
      BY <1>1, <2>1, <2>3 DEF Rearm, VArmed
    <3>. QED  BY <1>1, <1>2, <1>3, <2>1, <3>1, StaysOwned DEF SameKeys
  <2>. QED  BY <2>2, <2>3
<1>7. CASE Takes(w)
  <2>1. /\ VDispatched(f)' <=> VDispatched(f)
        /\ VQueued(f)' => VQueued(f)
        /\ QueuedOnce(f)'
        /\ Tends(w, f)' => VQueued(f) /\ ~VQueued(f)'
    BY <1>1, <1>7, TakesTask
  <2>2. (VArmed(f)' <=> VArmed(f)) /\ SameKeys
    BY <1>7 DEF Takes, VArmed
  <2>3. CASE Tends(w, f)'
    <3>1. ~VArmed(f) /\ ~VDispatched(f) /\ ~Tended(f)
      BY <1>1, <2>1, <2>3 DEF OwnedOnce
    <3>. QED  BY <1>2, <2>1, <2>2, <2>3, <3>1 DEF OwnedOnce, Tended
  <2>4. CASE ~Tends(w, f)'
    BY <1>1, <1>2, <2>1, <2>2, <2>4, StaysOwned DEF SameKeys
  <2>. QED  BY <2>3, <2>4
<1>. QED  BY <1>4, <1>5, <1>6, <1>7 DEF Turn

\* The worker that moves keeps its client or is done with it.
LEMMA TurnOwns ==
  ASSUME IInv, BInv, [cmNext]_cmVars, VaultOwned, NEW w \in Worker, Owns(w), Turn(w)
  PROVE  Owns(w)'
<1>. DEFINE f == local[w].fd
<1>1. /\ w \in Thread /\ fd_key \in [Fd -> Client \cup {NULL}] /\ (pc[w] # "idle" => f \in Fd)
  BY Threads DEF BInv, Positions, PositionOf, IInv, cmTypeOK
<1>2. CASE Rearms(w) \/ Drops(w) \/ Finishes(w) \/ Enrols(w)
  BY <1>2 DEF Rearms, Drops, Finishes, Enrols, Owns, Tending
<1>3. ASSUME Tending(w), pc[w] # "destroy"
      PROVE  f \in Fd /\ fd_key[f] # NULL /\ sock'[f] = sock[f] /\ sock[f].conn = heap[fd_key[f]].conn
  <2>1. f \in Fd /\ fd_key[f] # NULL
    BY <1>1, <1>3 DEF Owns, Tending
  <2>. QED  BY <2>1, RegisteredStays, RegisteredClient
<1>4. CASE GoesOn(w)
  <2>1. fd_key[f] # NULL /\ sock'[f] = sock[f] /\ sock[f].conn = heap[fd_key[f]].conn
    BY <1>3, <1>4 DEF GoesOn
  <2>. QED  BY <1>4, <2>1 DEF GoesOn, Owns, SameKeys
<1>5. CASE Unmaps(w)
  <2>1. Tending(w) /\ pc[w] # "destroy"
    BY <1>5 DEF Unmaps, Tending, Enrolling
  <2>. QED  BY <1>3, <1>5, <2>1 DEF Unmaps, Owns
<1>6. CASE Takes(w)
  <2>. SUFFICES ASSUME Tending(w)' PROVE fd_key'[local'[w].fd] # NULL /\ pc'[w] = "lookup"
    BY DEF Owns
  <2>1. queue \in Seq(Tasks) /\ queue # <<>> /\ pc'[w] = "lookup"
    BY <1>6 DEF Takes, Tending, Enrolling, BInv, BTypes
  <2>2. /\ Head(queue) = queue[1] /\ 1 \in 1 .. Len(queue) /\ queue[1] \in Tasks
        /\ queue[1].conn_type = "vault" /\ local'[w].fd = queue[1].client_fd
    BY <1>6, <2>1, SMT DEF Takes
  <2>3. queue[1] = VaultTask(local'[w].fd) /\ local'[w].fd \in Fd
    BY <2>2 DEF Tasks, VaultTask
  <2>4. fd_key[local'[w].fd] # NULL
    BY <2>2, <2>3 DEF VaultOwned, OwnedOnce, VQueued
  <2>. QED  BY <1>6, <2>1, <2>4 DEF Takes, SameKeys
<1>. QED  BY <1>2, <1>4, <1>5, <1>6 DEF Turn

\* The keys of the other workers' clients are not touched.
LEMMA TurnKeepsKeys ==
  ASSUME BInv, VaultOwned, NEW w \in Worker, NEW u \in Worker, u # w, Turn(w), Owns(u),
         Tending(u), pc[u] # "destroy"
  PROVE  fd_key'[local[u].fd] # NULL
<1>1. local[u].fd \in Fd /\ fd_key[local[u].fd] # NULL
  BY Threads DEF BInv, Positions, PositionOf, Owns, Tending
<1>2. CASE Unmaps(w)
  <2>1. Tends(w, local[w].fd) /\ Tends(u, local[u].fd)
    BY <1>2 DEF Unmaps, Tends, Tending, Enrolling
  <2>2. local[w].fd # local[u].fd
    BY <1>1, <2>1 DEF VaultOwned, OwnedOnce
  <2>. QED  BY <1>1, <1>2, <2>2, SMT DEF Unmaps
<1>. QED  BY <1>1, <1>2 DEF Turn, GoesOn, Rearms, Drops, Finishes, Takes, Enrols, SameKeys

LEMMA WorkerKeepsOwned ==
  ASSUME IInv, BInv, AInv, [cmNext]_cmVars, OwnedAll, NEW w \in Worker, Moved(w), Turn(w)
  PROVE  OwnedAll'
<1>1. VaultOwned'
  BY TurnKeepsOwned DEF OwnedAll, Moved, IInv, cmTypeOK
<1>2. ASSUME NEW u \in Worker PROVE Owns(u)'
  <2>1. CASE u = w
    BY <2>1, TurnOwns DEF OwnedAll
  <2>2. CASE u # w
    <3>1. pc'[u] = pc[u] /\ local'[u] = local[u] /\ at'[u] = at[u] /\ Owns(u)
      BY <2>2, Threads DEF Moved, PcAlone, OthersKeep, OwnedAll
    <3>2. Tending(u) /\ pc[u] # "destroy" => fd_key'[local[u].fd] # NULL
      BY <2>2, <3>1, TurnKeepsKeys DEF OwnedAll
    <3>. QED  BY <3>1, <3>2, OwnsStays
  <2>. QED  BY <2>1, <2>2
<1>. QED  BY <1>1, <1>2 DEF OwnedAll

\* When no worker moves the workers keep their clients, as long as no key goes away.
LEMMA RestKeepsOwns ==
  ASSUME IInv, BInv, AInv, [cmNext]_cmVars, OwnedAll, NEW t \in {Main, Cli}, Moved(t),
         \A f \in Fd : fd_key[f] # NULL => fd_key'[f] # NULL
  PROVE  \A u \in Worker : Owns(u)' /\ \A f : Tends(u, f)' <=> Tends(u, f)
<1>. SUFFICES ASSUME NEW u \in Worker PROVE Owns(u)' /\ \A f : Tends(u, f)' <=> Tends(u, f)
  OBVIOUS
<1>1. pc'[u] = pc[u] /\ local'[u] = local[u] /\ at'[u] = at[u] /\ Owns(u)
  BY Threads DEF Moved, PcAlone, OthersKeep, OwnedAll
<1>2. Tending(u) /\ pc[u] # "destroy" => fd_key'[local[u].fd] # NULL
  BY <1>1, Threads DEF BInv, Positions, PositionOf, Owns, Tending
<1>. QED  BY <1>1, <1>2, OwnsStays DEF Tends, Tending

\* The client a worker holds while it executes commands, or is about to destroy, is the
\* connection it deals with.
LEMMA OwnsItsClient ==
  ASSUME IInv, BInv, AInv, OwnInv, ~load.heartbeat, NEW w \in Worker,
         pc[w] \in {"commands", "destroy"}
  PROVE  heap[ptr[w]].conn = local[w].conn
<1>1. sock[local[w].fd].conn = local[w].conn
  BY DEF OwnInv, Owns, Tending, Enrolling
<1>2. w \in Thread /\ at[w] \in {"holding", "removing"} /\ heap[ptr[w]].fd = local[w].fd
  BY Threads DEF AInv, Station, Knows
<1>3. ptr[w] \in Client /\ heap[ptr[w]].alloc
  BY <1>2 DEF IInv, HoldersOwnLocks, PrivateStructs, Private
<1>4. sock[heap[ptr[w]].fd] = [kind |-> "vault", conn |-> heap[ptr[w]].conn]
  BY <1>3 DEF IInv, AllocatedIsOpen
<1>. QED  BY <1>1, <1>2, <1>4, SMT
=============================================================================
