---------------------------- MODULE BrokerState ----------------------------
(***************************************************************************)
(* The state that the broker's threads share, and the operations that more *)
(* than one kind of thread performs: the registry (ClientManager), the     *)
(* topic table (PubSub), the task queue, the epoll set and the peers at    *)
(* the other end of the sockets.  EventLoop, WorkerPool, HeartbeatSweep and*)
(* AdminCli add the threads; Broker puts them together.                    *)
(*                                                                         *)
(* The task queue appears as the FIFO that TsQueue is shown to implement.  *)
(* db_lock and the locks inside OpenSSL are never held while another lock  *)
(* is taken, so a database call is part of the step that makes it.         *)
(***************************************************************************)
EXTENDS ClientManager, PubSub

CONSTANTS
  Worker, Main, Heartbeat, Cli,    \* the threads, by what they run
  Granted,                         \* {<<hostname, command, topic>>} rbac.c allows
  DNS,                             \* the addresses getaddrinfo has for a hostname
  Workload,                        \* what happens to the broker: a set of records, see load
  QUEUE_MAX_SIZE

ASSUME Threads ==
  /\ Thread = Worker \cup {Main, Heartbeat, Cli}
  /\ Main \notin Worker /\ Heartbeat \notin Worker /\ Cli \notin Worker
  /\ Main # Heartbeat /\ Main # Cli /\ Heartbeat # Cli

\* What reaches the broker.  A peer sends chunks: parts of the TLS handshake, or one
\* record of whole lines; the operator types commands.
Host == Hostname \cup {NULL}       \* NULL: the empty c->hostname
Address == UNION {w.addrs : w \in Workload}
Commands == [op : STRING, topic : Topic]
Chunks == [kind : {"hello", "finish", "bad", "data", "csr", "other"}, lines : Seq(Commands)]
TypedCommands ==
  [op : {"status"}, host : {NULL}, topic : {NULL}]
    \cup [op : {"publish"}, host : {NULL}, topic : Topic]
    \cup [op : {"find_subscribe", "find_unsubscribe", "set"}, host : Hostname, topic : Topic]
Workloads ==
  [connections : 0 .. MaxConn, commands : Nat, sweeps : Nat \cup {-1}, heartbeat : BOOLEAN,
   ports : SUBSET {"vault", "lobby"}, addrs : SUBSET Address,
   scripts : SUBSET Seq(Chunks), typed : SUBSET TypedCommands]

Tasks == [conn_type : {"vault", "lobby"}, client_fd : Fd]

ASSUME NullIsNoTask == NULL \notin Tasks
ASSUME QueueSize == QUEUE_MAX_SIZE \in Nat \ {0}
ASSUME Inputs == Workload \subseteq Workloads /\ \A w \in Workload : w.sweeps # 0 => w.heartbeat

VARIABLES
  pc,          \* where each thread is in its own code
  local,       \* its local variables: task->client_fd, topic, client_cn, and the
               \* connection it is dealing with (a history value)
  session,     \* per struct: auth_status, ssl, and the complete lines in buffer
  epoll,       \* per descriptor: "none" not registered, "off" one shot spent, or
               \* the sign of the armed ev.data.fd: "vault" (+) or "lobby" (-)
  queue,       \* task_queue
  main_task,   \* the task main is about to queue_write, or NULL
  peer,        \* per connection: the other end
  db,          \* rows written to SQLite, each with the connection it came from
  inbox,       \* per connection: the published messages written to its socket
  published,   \* history: how many messages have been published, which numbers them,
  publishing,  \* and per thread: the message it published last
  tmp,         \* /tmp: per file name, the connection whose request or certificate it holds
  issued,      \* certificates sent: [to, of, host]
  load         \* scripts: the sequences of chunks a vault peer may send; ports and
               \* addrs: where connections go to and come from; typed: the commands the
               \* operator may give; heartbeat: whether it sweeps; and bounds: connections,
               \* commands and sweeps still to come (-1: the heartbeat never stops)

netVars == <<epoll, queue, main_task, peer>>
enrollVars == <<tmp, issued>>
busVars == <<inbox, published, publishing>>
dataVars == <<db, busVars, enrollVars>>
brokerVars == <<pc, local, session, netVars, dataVars, load>>
vars == <<cmVars, psVars, brokerVars>>

NoPeer == [cn |-> NULL, addr |-> NULL, unsent |-> <<>>, input |-> <<>>, closed |-> FALSE]
NoSession == [auth |-> FALSE, ssl |-> FALSE, lines |-> <<>>]
NoLocal == [fd |-> NULL, topic |-> NULL, cn |-> NULL, conn |-> 0]

Init ==
  /\ client_manager_init
  /\ pubsub_init
  /\ pc = [t \in Thread |-> "idle"]
  /\ local = [t \in Thread |-> NoLocal]
  /\ session = [p \in Client |-> NoSession]
  /\ epoll = [f \in Fd |-> "none"]
  /\ queue = <<>>
  /\ main_task = NULL
  /\ peer = [n \in Conn |-> NoPeer]
  /\ db = {}
  /\ inbox = [n \in Conn |-> <<>>]
  /\ published = 0
  /\ publishing = [t \in Thread |-> 0]
  /\ tmp = [csr |-> [f \in Fd \cup {NULL} |-> 0], crt |-> [f \in Fd \cup {NULL} |-> 0]]
  /\ issued = {}
  /\ load \in Workload

----------------------------------------------------------------------------

At(t, a) == pc[t] = a

\* Thread t goes on at b with locals l.
GotoWith(t, b, l) ==
  /\ pc' = [pc EXCEPT ![t] = b]
  /\ local' = [local EXCEPT ![t] = l]

\* Its locals die with the task or command.
Goto(t, b) == GotoWith(t, b, IF b = "idle" THEN NoLocal ELSE local[t])

\* The connection behind a struct's socket.
ConnOf(p) == sock[heap[p].fd].conn

\* The lobby peer that a worker enrols.
Requester(w) == sock[local[w].fd].conn

\* A worker is busy with a descriptor; its event is on the way to one.
Working(w, f) == pc[w] # "idle" /\ local[w].fd = f
QueuedFor(f) ==
  \/ main_task # NULL /\ main_task.client_fd = f
  \/ \E i \in 1 .. Len(queue) : queue[i].client_fd = f

\* Fault: the descriptor is not re-armed.
Rearm_Lost(f) == epoll' = epoll

\* epoll_ctl(EPOLL_CTL_MOD) with ev.data.fd = +f; fails silently on a descriptor
\* that is not in the epoll set.
Rearm(f) == epoll' = [epoll EXCEPT ![f] = IF @ = "none" THEN "none" ELSE "vault"]

\* close() takes the descriptor out of the epoll set.
Unregister(f) == epoll' = [epoll EXCEPT ![f] = "none"]

\* The peer's address is one that DNS has for the hostname.
auth_verify_identity(n, host) == peer[n].addr \in DNS[host]

\* EPOLLIN: something to read, or the peer has hung up.
Readable(f) ==
  /\ sock[f] # Closed
  /\ peer[sock[f].conn].input # <<>> \/ peer[sock[f].conn].closed

----------------------------------------------------------------------------
(* client_remove and pubsub_publish, which workers, the heartbeat and the  *)
(* CLI all call.  `next' is where the caller goes on.                      *)

remove_unmap(t, next) ==
  /\ At(t, "remove")
  /\ client_remove(t, local[t].fd)
  /\ Goto(t, IF at'[t] = "removing" THEN "destroy" ELSE next)
  /\ UNCHANGED <<psVars, session, netVars, dataVars, load>>

remove_destroy(t, next) ==
  /\ At(t, "destroy")
  /\ client_remove_destroy(t)
  /\ Unregister(heap[ptr[t]].fd)
  /\ Goto(t, next)
  /\ UNCHANGED <<psVars, session, queue, main_task, peer, dataVars, load>>

publish_lock(t) ==
  /\ At(t, "publish")
  /\ publish_begin(t, local[t].topic)
  /\ published' = published + 1
  /\ publishing' = [publishing EXCEPT ![t] = published']
  /\ Goto(t, "fanout")
  /\ UNCHANGED <<cmVars, session, netVars, db, inbox, enrollVars, load>>

\* The subscriber is no registered client any more.
publish_skip(t) ==
  /\ pc[t] \in {"fanout", "list"}
  /\ AtSubscriber(t)
  /\ at[t] = "out"
  /\ Lookup(Current(t)) = NULL
  /\ publish_next(t)
  /\ UNCHANGED <<cmVars, brokerVars>>

\* The subscriber's c->lock is taken.
publish_wait(t) ==
  /\ pc[t] \in {"fanout", "list"}
  /\ AtSubscriber(t)
  /\ get_wait(t, Lookup(Current(t)), "getting")
  /\ UNCHANGED <<psVars, brokerVars>>

\* The message goes out through c->ssl, or in the clear while there is none.  The
\* result of SSL_write is ignored: a socket whose buffer is full loses it.
publish_write(t) ==
  /\ At(t, "fanout")
  /\ AtSubscriber(t)
  /\ get_visit(t, Lookup(Current(t)))
  /\ publish_next(t)
  /\ LET p == Found(t, Lookup(Current(t)))
         m == [topic |-> local[t].topic, no |-> publishing[t], tls |-> session[p].ssl,
               auth |-> session[p].auth]
     IN  inbox' \in {inbox, [inbox EXCEPT ![ConnOf(p)] = Append(@, m)]}
  /\ UNCHANGED <<pc, local, session, netVars, db, published, publishing, enrollVars, load>>

publish_unlock(t, next) ==
  /\ At(t, "fanout")
  /\ publish_end(t)
  /\ Goto(t, next)
  /\ UNCHANGED <<cmVars, session, netVars, dataVars, load>>
=============================================================================
