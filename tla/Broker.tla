------------------------------- MODULE Broker -------------------------------
(***************************************************************************)
(* The running broker: the epoll thread, the worker pool, the heartbeat    *)
(* and the admin CLI over the shared registry and topic table.             *)
(***************************************************************************)
EXTENDS EventLoop, WorkerPool, HeartbeatSweep, AdminCli

Next ==
  \/ MainStep \/ MainAccept
  \/ \E w \in Worker : WorkerStep(w)
  \/ HeartbeatStep
  \/ CliStep
  \/ PeerStep

Spec == Init /\ [][Next]_vars

\* The scheduler runs every thread.  Strong fairness where the heartbeat's 10 s sleep
\* justifies it: clients_rwlock is free of its scan, and time passes, in between.
\* Peers and the operator need do nothing.
Fairness ==
  /\ WF_vars(MainStep)
  /\ WF_vars(HeartbeatStep)
  /\ WF_vars(CliWork)
  /\ \A w \in Worker : WF_vars(WorkerStep(w))
  /\ SF_vars(main_client_add)
  /\ \A w \in Worker : SF_vars(worker_set_hostname(w) \/ remove_unmap(w, "idle"))
  /\ \A p \in Client : SF_vars(client_silent(p))

FairSpec == Spec /\ Fairness

----------------------------------------------------------------------------
(* The components the broker is made of.                                   *)

\* The broker uses the registry only in the ways ClientManager allows, so what holds
\* of every client of that module (HeldIsLive, RegisteredIsOpen, OneDestroyer) holds
\* here: in particular close() by descriptor number in worker.c's lobby branch never
\* hits a socket that by then belongs to a registered client.
ImplementsRegistry == cmSpec

\* The broker uses the topic table only through its functions and never touches it
\* or iterates over it without pubsub_lock.
ImplementsTopicTable == psSpec

----------------------------------------------------------------------------
(* Wake-ups and service.                                                   *)

\* No client is forgotten: the one-shot epoll registration of every registered client
\* is armed, or its event is on the way to a worker, or a worker is busy with its
\* descriptor and will re-arm or remove it; also when the heartbeat removes clients and
\* descriptors are reused in between.
ClientHasWakeup ==
  \A f \in Fd : fd_key[f] # NULL =>
    epoll[f] = "vault" \/ QueuedFor(f) \/ \E w \in Worker : Working(w, f)

\* "Ghost connection sweeping": while the heartbeat runs no vault connection, however
\* its peer behaves, stays open for ever once the peer is silent; the 10 s sweep or a
\* worker closes it.
VaultSevered ==
  \A n \in Conn :
    (load.sweeps = -1 /\ \E f \in Fd : sock[f] = [kind |-> "vault", conn |-> n]) ~> ~Open(n)

\* A connection whose peer has hung up, on either port, is closed by a worker, without
\* any help of the heartbeat.
DroppedIsSevered ==
  \A n \in Conn : (load.sweeps = 0 /\ Open(n) /\ peer[n].closed) ~> ~Open(n)

\* "Without dropping background traffic": what a peer has sent is read by a worker, or
\* its connection is closed, whatever the operator does at the prompt meanwhile; also
\* this without the heartbeat.
TrafficServed ==
  \A n \in Conn :
    (load.sweeps = 0 /\ Open(n) /\ peer[n].input # <<>>) ~> (~Open(n) \/ peer[n].input = <<>>)

----------------------------------------------------------------------------
(* Connections are not mixed up.  Threads name a connection by its         *)
(* descriptor number, which the kernel reuses.                             *)

\* A worker that got to destroying a client destroys the one whose event it handled, in
\* every behaviour without the heartbeat's sweep, the only other thread that closes
\* clients: descriptors of disconnected clients are reused, but not too early.
RemovesItsOwn ==
  ~load.heartbeat => \A w \in Worker : At(w, "destroy") => heap[ptr[w]].conn = local[w].conn

\* The client a worker holds while it executes command lines is the one it read them
\* from, although PUBLISH drops c->lock and looks the descriptor up again (but for a
\* sweep in between).
ServesItsOwn ==
  ~load.heartbeat => \A w \in Worker : At(w, "commands") => heap[ptr[w]].conn = local[w].conn

\* A row that a client's command writes carries that client's certificate name, which
\* DNS has under the client's address: no command runs between the handshake and the
\* assignment of c->hostname (again, but for a sweep in between).
RowsNameTheirSender ==
  ~load.heartbeat => \A r \in db : r.conn # 0 => r.host = peer[r.conn].cn /\ peer[r.conn].addr \in DNS[r.host]

\* "Named using the socket FD to avoid collisions": a lobby peer is sent the certificate
\* made from its own request, never that of another worker's or of an earlier peer with
\* the same descriptor, although a failed signature leaves its output file behind.
OwnCertificate ==
  \A c \in issued : c.of = c.to /\ c.host = peer[c.to].cn /\ peer[c.to].addr \in DNS[c.host]

\* "Safe destruction: wait for any active worker threads using c->lock to finish":
\* the struct client_set_hostname is about to lock and write to has not been freed.
SafeDestruction ==
  \A t \in Thread : at[t] = "naming" => heap[ptr[t]].alloc

\* The CLI answers "No active connection found" only when no registered client has
\* that hostname, as long as no two connections use one name: of two that do the second
\* takes the key over, and takes it away when it leaves.
NamesAreUnique == \A m, n \in 1 .. accepted : peer[m].cn = peer[n].cn => m = n
CliFindsConnected ==
  NamesAreUnique /\ pc[Cli] \in {"find_subscribe", "find_unsubscribe"} /\ host_key[local[Cli].cn] = NULL =>
    \A f \in Fd : fd_key[f] # NULL => heap[fd_key[f]].hostname # local[Cli].cn

----------------------------------------------------------------------------
(* The message bus.                                                        *)

\* Who subscribes a descriptor that it may no longer mean: the operator's SUBSCRIBE, with
\* the number it read before it unlocked the client.
OperatorSubscribes == \E c \in load.typed : c.op = "find_subscribe"

\* Published messages are written only to connections that have authenticated.
OnlyAuthenticatedReceive ==
  \A n \in Conn : \A i \in 1 .. Len(inbox[n]) : inbox[n][i].auth

\* Who has disconnected is no longer subscribed: worker.c unsubscribes a descriptor
\* before it is closed and can be handed out again, and a client whose handshake failed
\* was never subscribed.  The sweep does it in another order, see the run
\* ghost_subscriber, and the operator may come too late.
NoGhostSubscriptions ==
  ~load.heartbeat /\ ~OperatorSubscribes =>
    \A f \in Fd, a \in Topic : Subscribed(f, a) => fd_key[f] # NULL

\* So nobody is sent a message before they have authenticated.
ReceiversAuthenticated == ~load.heartbeat /\ ~OperatorSubscribes => OnlyAuthenticatedReceive

\* Two messages reach all their common subscribers in the same order, whoever publishes
\* them: pubsub_lock is held over the whole fan-out.
Same(m, k) == m.no = k.no
SameOrder ==
  \A m, n \in Conn : \A i, j \in DOMAIN inbox[m], k, l \in DOMAIN inbox[n] :
    /\ Same(inbox[m][i], inbox[n][k]) /\ Same(inbox[m][j], inbox[n][l])
    /\ ~Same(inbox[m][i], inbox[m][j])
    /\ i < j
    => k < l

\* "Drop the client's mutex lock here to prevent thread deadlocks": pubsub_publish
\* never waits, pubsub_lock held, for a client whose holder waits for pubsub_lock.
PublishNeverDeadlocks ==
  \A t \in Worker, u \in Thread :
    /\ pubsub_lock = u /\ at[u] = "getting" /\ heap[ptr[u]].lock = t
    => ~ (Looping(t) /\ Line(t).op \in {"SUBSCRIBE", "UNSUBSCRIBE"} /\ Allowed(t))
=============================================================================
