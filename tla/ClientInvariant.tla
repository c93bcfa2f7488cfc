--------------------------- MODULE ClientInvariant ---------------------------
(* The inductive invariant of the registry. *)
EXTENDS ClientManager

Mapped(p) == \E f \in Fd : fd_key[f] = p

\* From malloc to free a struct owns its descriptor: the socket is open and is the
\* connection the struct was made for.
AllocatedIsOpen ==
  \A p \in Client : heap[p].alloc =>
    /\ heap[p].fd \in Fd
    /\ heap[p].conn \in Conn
    /\ sock[heap[p].fd] = [kind |-> "vault", conn |-> heap[p].conn]

\* No two allocated structs share a descriptor.
OneStructPerFd ==
  \A p, q \in Client : heap[p].alloc /\ heap[q].alloc /\ heap[p].fd = heap[q].fd => p = q

\* A descriptor key leads to an allocated struct with that descriptor.
KeysLeadToStructs ==
  \A f \in Fd : fd_key[f] # NULL => heap[fd_key[f]].alloc /\ heap[fd_key[f]].fd = f

\* A struct that is being added or removed is in the map no longer or not yet, and is
\* known to one thread only.
Private(t) == at[t] \in {"adding", "removing"}
PrivateStructs ==
  \A t \in Thread : Private(t) =>
    /\ ptr[t] \in Client /\ heap[ptr[t]].alloc /\ ~Mapped(ptr[t])
    /\ \A u \in Thread : Private(u) /\ ptr[u] = ptr[t] => u = t

\* A thread that holds a client owns the lock of an allocated struct.
HoldersOwnLocks ==
  \A t \in Thread : at[t] = "holding" =>
    ptr[t] \in Client /\ heap[ptr[t]].alloc /\ heap[ptr[t]].lock = t

\* A thread that waits for c->lock keeps clients_rwlock, and so keeps c in the map.
WaitersKeepMap ==
  \A t \in Thread :
    /\ at[t] \in {"getting", "asking"} => t \in rdlock /\ ptr[t] \in Client
    /\ at[t] = "getting" => Mapped(ptr[t])
    /\ at[t] = "naming" => ptr[t] \in Client /\ arg[t] \in Hostname

\* A thread that walks the map keeps clients_rwlock, and so keeps in the map what it
\* has still to visit.
WalkersKeepMap ==
  \A t \in Thread : at[t] = "walking" => t \in rdlock /\ \A p \in todo[t] : Mapped(p)

IInv ==
  /\ cmTypeOK
  /\ AllocatedIsOpen /\ OneStructPerFd /\ KeysLeadToStructs
  /\ PrivateStructs /\ HoldersOwnLocks /\ WaitersKeepMap /\ WalkersKeepMap
==============================================================================
