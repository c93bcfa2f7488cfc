---------------------------- MODULE WorkerProofs ----------------------------
(***************************************************************************)
(* The workers: every step of theirs is one of the registry's and of the   *)
(* topic table's, keeps the broker's invariant, and is a turn that the     *)
(* descriptor of the task takes.                                           *)
(***************************************************************************)
EXTENDS WorkerPool, BrokerInvariant

\* Most leaves need no arithmetic: Zenon, unless a leaf names SMT.
USE Zenon

----------------------------------------------------------------------------
(* What the fields of the state may hold. *)

\* The client a worker holds has an open socket with a peer.
LEMMA HeldClient ==
  ASSUME IInv, BInv, NEW w \in Worker, pc[w] \in {"client", "commands"}
  PROVE  /\ at[w] = "holding" /\ local[w].fd \in Fd
         /\ C(w) \in Client /\ heap[C(w)].fd \in Fd /\ session[C(w)] \in Sessions
         /\ ConnOf(C(w)) \in Conn /\ Peer(w) \in Peers /\ Peer(w).cn \in Hostname
<1>1. w \in Thread /\ at[w] = "holding" /\ local[w].fd \in Fd
  BY Threads DEF BInv, Positions, PositionOf
<1>2. ptr[w] \in Client /\ heap[ptr[w]].alloc
  BY <1>1 DEF IInv, HoldersOwnLocks
<1>3. /\ heap[ptr[w]].fd \in Fd /\ heap[ptr[w]].conn \in Conn
      /\ sock[heap[ptr[w]].fd] = [kind |-> "vault", conn |-> heap[ptr[w]].conn]
  BY <1>2 DEF IInv, AllocatedIsOpen
<1>4. ConnOf(C(w)) \in Conn /\ sock[heap[ptr[w]].fd] # Closed
  BY <1>3, SMT DEF ConnOf, C, Closed
<1>5. Peer(w).cn \in Hostname
  BY <1>3, <1>4 DEF BInv, SocketsHavePeers, Peer, ConnOf, C
<1>. QED  BY <1>1, <1>2, <1>3, <1>4, <1>5 DEF BInv, BTypes, Peer, C

\* SSL_read takes a chunk; the peer stays the same.
LEMMA ReceiveTypes ==
  ASSUME BTypes, NEW w, ConnOf(C(w)) \in Conn, ~NoInput(w)
  PROVE  /\ Head(Peer(w).input) \in Chunks
         /\ Receive(w) => peer' \in [Conn -> Peers] /\ SameIdentities
<1>1. peer[ConnOf(C(w))] \in Peers /\ peer[ConnOf(C(w))].input \in Seq(Chunks)
  BY DEF BTypes, Peers
<1>2. Head(Peer(w).input) \in Chunks /\ Tail(Peer(w).input) \in Seq(Chunks)
  BY <1>1, SMT DEF Peer, NoInput
<1>3. [peer[ConnOf(C(w))] EXCEPT !.input = Tail(@)] \in Peers
  BY Zenon, <1>1, <1>2 DEF Peers, Peer
<1>4. ASSUME Receive(w)
      PROVE  peer' \in [Conn -> Peers] /\ SameIdentities
  BY <1>1, <1>3, <1>4 DEF BTypes, Receive, SameIdentities, Peers
<1>. QED  BY <1>2, <1>4

\* The lines of a session are commands on topics.
LEMMA LineTypes ==
  ASSUME NEW w, session[C(w)] \in Sessions, Looping(w)
  PROVE  Line(w).topic \in Topic /\ Tail(session[C(w)].lines) \in Seq(Commands)
<1>1. session[C(w)].lines \in Seq(Commands) /\ session[C(w)].lines # <<>>
  BY DEF Sessions, Looping
<1>2. Head(session[C(w)].lines) \in Commands /\ Tail(session[C(w)].lines) \in Seq(Commands)
  BY <1>1, SMT
<1>. QED  BY <1>2 DEF Line, Commands

LEMMA SessionTypes ==
  ASSUME BTypes, NEW w, C(w) \in Client,
         \/ UNCHANGED session \/ session' = [session EXCEPT ![C(w)].ssl = TRUE]
         \/ session' = [session EXCEPT ![C(w)].ssl = TRUE, ![C(w)].auth = TRUE]
         \/ session[C(w)].lines # <<>> /\ PopLine(w)
  PROVE  session' \in [Client -> Sessions]
<1>1. session \in [Client -> Sessions] /\ session[C(w)] \in Sessions
  BY DEF BTypes
<1>2. CASE session[C(w)].lines # <<>> /\ PopLine(w)
  <2>1. Tail(session[C(w)].lines) \in Seq(Commands)
    BY <1>1, <1>2, SMT DEF Sessions
  <2>2. [session[C(w)] EXCEPT !.lines = Tail(@)] \in Sessions
    BY <1>1, <2>1 DEF Sessions
  <2>. QED  BY <1>1, <1>2, <2>2 DEF PopLine
<1>3. CASE session' = [session EXCEPT ![C(w)].ssl = TRUE]
  <2>1. [session[C(w)] EXCEPT !.ssl = TRUE] \in Sessions
    BY Zenon, <1>1 DEF Sessions
  <2>. QED  BY <1>1, <1>3, <2>1
<1>4. CASE session' = [session EXCEPT ![C(w)].ssl = TRUE, ![C(w)].auth = TRUE]
  <2>1. [[session[C(w)] EXCEPT !.ssl = TRUE] EXCEPT !.auth = TRUE] \in Sessions
    BY Zenon, <1>1 DEF Sessions
  <2>2. session' = [session EXCEPT ![C(w)] = [[session[C(w)] EXCEPT !.ssl = TRUE] EXCEPT !.auth = TRUE]]
    BY Zenon, <1>1, <1>4
  <2>. QED  BY <1>1, <2>1, <2>2
<1>. QED  BY <1>1, <1>2, <1>3, <1>4

LEMMA RearmTypes ==
  ASSUME BTypes, NEW f, Rearm(f)
  PROVE  /\ epoll' \in [Fd -> {"none", "off", "vault", "lobby"}]
         /\ \A g \in Fd : epoll'[g] = "lobby" => epoll[g] = "lobby"
BY Zenon DEF BTypes, Rearm

----------------------------------------------------------------------------
(* The registry and the topic table. *)

LEMMA WorkerRegistrySteps ==
  ASSUME IInv, BInv, NEW w \in Worker, WorkerStep(w)
  PROVE  [cmNext]_cmVars
<1>1. w \in Thread /\ (pc[w] # "idle" => local[w].fd \in Fd)
  BY Threads DEF BInv, Positions, PositionOf
<1>2. CASE \/ worker_queue_read(w) \/ worker_rearm(w) \/ command_no_effect(w)
           \/ command_set_get(w) \/ command_subscribe(w) \/ command_unsubscribe(w)
           \/ worker_unsubscribe_all(w) \/ worker_lobby(w) \/ enroll_sign(w) \/ enroll_reply(w)
  BY <1>2 DEF worker_queue_read, worker_rearm, command_no_effect, command_set_get,
       command_subscribe, command_unsubscribe, worker_unsubscribe_all, worker_lobby,
       enroll_sign, enroll_reply
<1>3. CASE \/ handshake_pending(w) \/ handshake_failed(w) \/ handshake_done(w)
           \/ read_nothing(w) \/ read_disconnected(w) \/ command_publish(w) \/ commands_done(w)
  <2>1. client_unlock(w)
    BY <1>3 DEF handshake_pending, handshake_failed, handshake_done, read_nothing,
         read_disconnected, command_publish, commands_done
  <2>. QED  BY Zenon, <1>1, <2>1, RegistrySteps
<1>4. CASE read_data(w)
  BY Zenon, <1>1, <1>4, RegistrySteps DEF read_data
<1>5. CASE worker_lookup(w) \/ worker_relock(w)
  <2>1. local[w].fd \in Fd
    BY <1>1, <1>5 DEF worker_lookup, worker_relock, At
  <2>2. \/ UNCHANGED cmVars
        \/ get_wait(w, fd_key[local[w].fd], "getting") \/ get_lock(w, fd_key[local[w].fd])
    BY <1>5, <2>1 DEF worker_lookup, worker_relock, Lookup
  <2>. QED  BY Zenon, <1>1, <2>1, <2>2, RegistrySteps
<1>6. CASE worker_set_hostname(w)
  <2>1. local[w].fd \in Fd /\ local[w].cn \in Hostname
    BY <1>1, <1>6 DEF worker_set_hostname, At, BInv, Positions, PositionOf
  <2>. QED  BY Zenon, <1>1, <1>6, <2>1, RegistrySteps DEF worker_set_hostname
<1>7. CASE worker_copy_hostname(w)
  BY Zenon, <1>1, <1>7, RegistrySteps DEF worker_copy_hostname
<1>8. CASE worker_close(w)
  <2>1. local[w].fd \in Fd /\ Served(local[w].fd)
    BY <1>1, <1>8 DEF worker_close, At, Served, Serves, Enrolling
  <2>2. sock[local[w].fd].kind = "lobby"
    BY <2>1 DEF BInv, LobbyOwned
  <2>. QED  BY <1>8, <2>1, <2>2, RegistrySteps DEF worker_close
<1>9. CASE \/ remove_unmap(w, "idle") \/ remove_destroy(w, "idle") \/ publish_lock(w)
           \/ publish_skip(w) \/ publish_wait(w) \/ publish_write(w) \/ publish_unlock(w, "relock")
  <2>1. remove_unmap(w, "idle") => local[w].fd \in Fd
    BY <1>1 DEF remove_unmap, At
  <2>. QED  BY <1>1, <1>9, <2>1, SharedRegistrySteps
<1>. QED  BY <1>2, <1>3, <1>4, <1>5, <1>6, <1>7, <1>8, <1>9 DEF WorkerStep

LEMMA WorkerTableSteps ==
  ASSUME IInv, BInv, NEW w \in Worker, WorkerStep(w)
  PROVE  [psNext]_psVars
<1>1. w \in Thread
  BY Threads
<1>2. CASE \/ worker_queue_read(w) \/ worker_lookup(w) \/ handshake_pending(w)
           \/ handshake_failed(w) \/ handshake_done(w) \/ worker_set_hostname(w)
           \/ worker_copy_hostname(w) \/ worker_rearm(w) \/ read_nothing(w)
           \/ read_disconnected(w) \/ read_data(w)
  BY Zenon, <1>2 DEF worker_queue_read, worker_lookup, handshake_pending, handshake_failed,
       handshake_done, worker_set_hostname, worker_copy_hostname, worker_rearm, read_nothing,
       read_disconnected, read_data
<1>3. CASE \/ command_no_effect(w) \/ command_set_get(w) \/ command_publish(w)
           \/ worker_relock(w) \/ commands_done(w) \/ worker_lobby(w) \/ enroll_sign(w)
           \/ enroll_reply(w) \/ worker_close(w)
  BY <1>3 DEF command_no_effect, command_set_get, command_publish, worker_relock,
       commands_done, worker_lobby, enroll_sign, enroll_reply, worker_close
<1>4. CASE command_subscribe(w) \/ command_unsubscribe(w)
  <2>1. Looping(w) /\ pc[w] = "commands"
    BY <1>4 DEF command_subscribe, command_unsubscribe, Looping, At
  <2>2. heap[C(w)].fd \in SubscriberFd /\ Line(w).topic \in Topic
    BY <2>1, HeldClient, LineTypes DEF SubscriberFd
  <2>. QED  BY <1>4, <2>2, TableSteps DEF command_subscribe, command_unsubscribe
<1>5. CASE worker_unsubscribe_all(w)
  <2>1. local[w].fd \in SubscriberFd
    BY <1>1, <1>5 DEF worker_unsubscribe_all, At, BInv, Positions, PositionOf, SubscriberFd
  <2>. QED  BY <1>5, <2>1, TableSteps DEF worker_unsubscribe_all
<1>. QED  BY <1>1, <1>2, <1>3, <1>4, <1>5, SharedTableSteps DEF WorkerStep

----------------------------------------------------------------------------
(* Serving a client. *)

\* It lets the client go, after a handshake step, a read or the last line.
LEMMA UnlockStepsKeep ==
  ASSUME IInv, BInv, NEW w \in Worker,
         \/ handshake_pending(w) \/ handshake_failed(w) \/ handshake_done(w)
         \/ read_nothing(w) \/ read_disconnected(w) \/ command_publish(w) \/ commands_done(w)
  PROVE  BInv'
<1>1. w \in Thread /\ load \in Workloads
  BY Threads, LoadStays
<1>2. client_unlock(w)
  BY DEF handshake_pending, handshake_failed, handshake_done, read_nothing,
       read_disconnected, command_publish, commands_done
<1>3. OthersStay(w) /\ at'[w] = "out" /\ sock' = sock /\ accepted' = accepted
  BY <1>1, <1>2, RegistryMoves, SameSockets
<1>4. UNCHANGED <<queue, main_task, tmp, issued, load>>
  BY DEF handshake_pending, handshake_failed, handshake_done, read_nothing, read_disconnected,
       command_publish, commands_done, netVars, dataVars, enrollVars
<1>5. pc[w] \in {"client", "commands"}
  BY DEF handshake_pending, handshake_failed, handshake_done, read_nothing, read_disconnected,
       command_publish, commands_done, Handshaking, Reading, Looping, At
<1>6. /\ local[w] \in Locals /\ local[w].fd \in Fd /\ PositionOf(w)
      /\ C(w) \in Client /\ session[C(w)] \in Sessions
      /\ ConnOf(C(w)) \in Conn /\ Peer(w).cn \in Hostname
  BY <1>1, <1>5, HeldClient DEF BInv, BTypes, Positions
<1>7. epoll' \in [Fd -> {"none", "off", "vault", "lobby"}] /\
      \A g \in Fd : epoll'[g] = "lobby" => epoll[g] = "lobby"
  <2>1. UNCHANGED epoll \/ Rearm(heap[C(w)].fd)
    BY DEF handshake_pending, handshake_failed, handshake_done, read_nothing, read_disconnected,
         command_publish, commands_done, netVars
  <2>. QED  BY <2>1, RearmTypes DEF BInv, BTypes
<1>8. peer' \in [Conn -> Peers] /\ SameIdentities
  <2>1. UNCHANGED peer \/ (~NoInput(w) /\ Receive(w))
    BY DEF handshake_pending, handshake_failed, handshake_done, read_nothing, read_disconnected,
         command_publish, commands_done, netVars
  <2>. QED  BY <1>6, <2>1, ReceiveTypes DEF BInv, BTypes, SameIdentities
<1>9. session' \in [Client -> Sessions]
  <2>1. \/ UNCHANGED session \/ session' = [session EXCEPT ![C(w)].ssl = TRUE]
        \/ session' = [session EXCEPT ![C(w)].ssl = TRUE, ![C(w)].auth = TRUE]
        \/ session[C(w)].lines # <<>> /\ PopLine(w)
    BY DEF handshake_pending, handshake_failed, handshake_done, read_nothing, read_disconnected,
         command_publish, commands_done, Looping
  <2>. QED  BY <1>6, <2>1, SessionTypes DEF BInv
<1>10. \E b \in Places \ Enrolling, l \in Locals : Moves(w, b, l) /\ PositionOf(w)'
  <2>1. CASE \/ handshake_pending(w) \/ handshake_failed(w) \/ read_nothing(w)
             \/ read_disconnected(w) \/ commands_done(w)
    <3>1. PICK b \in {"idle", "remove", "unsubscribe_all"} : Goto(w, b)
      BY <2>1 DEF handshake_pending, handshake_failed, read_nothing, read_disconnected,
           commands_done
    <3>2. b \in Places \ Enrolling /\ Carried(w, b) \in Locals
      BY <1>6, NoLocalType DEF Places, Enrolling, Carried
    <3>3. Moves(w, b, Carried(w, b))
      BY <1>1, <3>1, <3>2, GotoMoves DEF BInv
    <3>4. PositionOf(w)'
      BY <1>3, <1>6, <3>1, <3>3, Threads DEF PositionOf, Moves, Carried, Finding
    <3>. QED  BY <3>2, <3>3, <3>4
  <2>2. CASE handshake_done(w)
    <3>. DEFINE l == [local[w] EXCEPT !.cn = Peer(w).cn]
    <3>1. l \in Locals /\ l.fd = local[w].fd /\ l.cn \in Hostname
      BY <1>6 DEF Locals, Host
    <3>2. Moves(w, "set_hostname", l)
      BY <1>1, <2>2, <3>1, GotoWithMoves DEF BInv, Places, handshake_done
    <3>3. PositionOf(w)'
      BY <1>3, <1>6, <3>1, <3>2, Threads DEF PositionOf, Moves, Finding
    <3>. QED  BY <3>1, <3>2, <3>3 DEF Places, Enrolling
  <2>3. CASE command_publish(w)
    <3>. DEFINE l == [local[w] EXCEPT !.topic = Line(w).topic]
    <3>1. Line(w).topic \in Topic
      BY <1>6, <2>3, LineTypes DEF command_publish
    <3>2. l \in Locals /\ l.fd = local[w].fd /\ l.topic \in Topic
      BY <1>6, <3>1 DEF Locals
    <3>3. Moves(w, "publish", l)
      BY <1>1, <2>3, <3>2, GotoWithMoves DEF BInv, Places, command_publish
    <3>4. PositionOf(w)'
      BY <1>3, <1>6, <3>2, <3>3, Threads DEF PositionOf, Moves, Finding
    <3>. QED  BY <3>2, <3>3, <3>4 DEF Places, Enrolling
  <2>. QED  BY <2>1, <2>2, <2>3
<1>. QED  BY <1>1, <1>3, <1>4, <1>7, <1>8, <1>9, <1>10, OrdinaryStep

\* It reads, and executes lines that need no PUBLISH, with the client in its hands.
LEMMA HoldingStepsKeep ==
  ASSUME IInv, BInv, NEW w \in Worker,
         \/ read_data(w) \/ command_no_effect(w) \/ command_set_get(w)
         \/ command_subscribe(w) \/ command_unsubscribe(w)
  PROVE  BInv'
<1>1. w \in Thread /\ load \in Workloads
  BY Threads, LoadStays
<1>2. pc[w] \in {"client", "commands"}
  BY Zenon DEF read_data, command_no_effect, command_set_get, command_subscribe, command_unsubscribe,
       Reading, Looping, At
<1>3. /\ local[w] \in Locals /\ local[w].fd \in Fd /\ PositionOf(w) /\ at[w] = "holding"
      /\ C(w) \in Client /\ session[C(w)] \in Sessions /\ ConnOf(C(w)) \in Conn
  BY <1>1, <1>2, HeldClient DEF BInv, BTypes, Positions
<1>4. OthersStay(w) /\ at'[w] = "holding" /\ sock' = sock /\ accepted' = accepted
  BY Zenon, <1>1, <1>3, RegistryMoves, SameSockets DEF read_data, command_no_effect, command_set_get,
       command_subscribe, command_unsubscribe
<1>5. UNCHANGED <<queue, main_task, epoll, tmp, issued, load>>
  BY Zenon DEF read_data, command_no_effect, command_set_get, command_subscribe, command_unsubscribe,
       netVars, dataVars, enrollVars
<1>6. epoll' \in [Fd -> {"none", "off", "vault", "lobby"}] /\
      \A g \in Fd : epoll'[g] = "lobby" => epoll[g] = "lobby"
  BY <1>5 DEF BInv, BTypes
<1>7. CASE read_data(w)
  <2>1. ~NoInput(w) /\ Receive(w)
    BY <1>7 DEF read_data
  <2>2. peer' \in [Conn -> Peers] /\ SameIdentities /\ Head(Peer(w).input) \in Chunks
    BY <1>3, <2>1, ReceiveTypes DEF BInv
  <2>3. session' \in [Client -> Sessions]
    <3>1. Head(Peer(w).input).lines \in Seq(Commands) /\ session[C(w)].lines \in Seq(Commands)
      BY <1>3, <2>2 DEF Chunks, Sessions
    <3>2. session[C(w)].lines \o Head(Peer(w).input).lines \in Seq(Commands)
      BY <3>1, SMT
    <3>3. [session[C(w)] EXCEPT !.lines = @ \o Head(Peer(w).input).lines] \in Sessions
      BY Zenon, <1>3, <3>2 DEF Sessions
    <3>. QED  BY <1>3, <1>7, <3>3 DEF read_data, BInv, BTypes
  <2>4. Moves(w, "commands", Carried(w, "commands"))
    BY <1>1, <1>7, GotoMoves DEF BInv, Places, read_data
  <2>5. PositionOf(w)'
    BY <1>3, <1>4, <2>4, Threads DEF PositionOf, Moves, Carried, Finding
  <2>. QED  BY <1>1, <1>4, <1>5, <1>6, <2>2, <2>3, <2>4, <2>5, OrdinaryStep DEF Enrolling
<1>8. CASE \/ command_no_effect(w) \/ command_set_get(w)
           \/ command_subscribe(w) \/ command_unsubscribe(w)
  <2>1. UNCHANGED <<pc, local, peer>> /\ session[C(w)].lines # <<>> /\ PopLine(w) /\ pc[w] = "commands"
    BY <1>8 DEF command_no_effect, command_set_get, command_subscribe, command_unsubscribe,
         netVars, Looping, At
  <2>2. session' \in [Client -> Sessions]
    BY Zenon, <1>3, <2>1, SessionTypes DEF BInv
  <2>3. peer' \in [Conn -> Peers] /\ SameIdentities
    BY <2>1 DEF BInv, BTypes, SameIdentities
  <2>4. Moves(w, "commands", local[w])
    BY <2>1 DEF BInv, BTypes, Moves
  <2>5. PositionOf(w)'
    BY <1>3, <1>4, <2>1, Threads DEF PositionOf, Finding
  <2>. QED  BY <1>1, <1>4, <1>5, <1>6, <2>2, <2>3, <2>4, <2>5, OrdinaryStep DEF Enrolling
<1>. QED  BY <1>7, <1>8

\* It looks a client up, names it, and forgets it.
LEMMA SearchStepsKeep ==
  ASSUME IInv, BInv, NEW w \in Worker,
         \/ worker_lookup(w) \/ worker_relock(w) \/ worker_set_hostname(w)
         \/ worker_copy_hostname(w) \/ worker_rearm(w) \/ worker_unsubscribe_all(w)
  PROVE  BInv'
<1>1. w \in Thread /\ load \in Workloads
  BY Threads, LoadStays
<1>2. local[w] \in Locals /\ local[w].fd \in Fd /\ PositionOf(w) /\ w # Heartbeat /\ w # Cli
  BY <1>1, Threads DEF BInv, BTypes, Positions, PositionOf, At, worker_lookup, worker_relock,
       worker_set_hostname, worker_copy_hostname, worker_rearm, worker_unsubscribe_all
<1>3. UNCHANGED <<session, queue, main_task, peer, tmp, issued, load>>
  BY DEF worker_lookup, worker_relock, worker_set_hostname, worker_copy_hostname, worker_rearm,
       worker_unsubscribe_all, netVars, dataVars, enrollVars
<1>4. /\ session' \in [Client -> Sessions] /\ peer' \in [Conn -> Peers] /\ SameIdentities
  BY <1>3 DEF BInv, BTypes, SameIdentities
<1>5. epoll' \in [Fd -> {"none", "off", "vault", "lobby"}] /\
      \A g \in Fd : epoll'[g] = "lobby" => epoll[g] = "lobby"
  <2>1. UNCHANGED epoll \/ Rearm(local[w].fd)
    BY DEF worker_lookup, worker_relock, worker_set_hostname, worker_copy_hostname, worker_rearm,
         worker_unsubscribe_all, netVars
  <2>. QED  BY <2>1, RearmTypes DEF BInv, BTypes
<1>6. ASSUME NEW b \in Places \ (Enrolling \cup {"client", "commands", "set_hostname", "publish"}),
             Goto(w, b), OthersStay(w), at'[w] # "asking", sock' = sock, accepted' = accepted
      PROVE  BInv'
  <2>1. Moves(w, b, Carried(w, b))
    BY <1>1, <1>6, GotoMoves DEF BInv
  <2>2. PositionOf(w)'
    BY <1>2, <1>6, <2>1 DEF PositionOf, Moves, Carried
  <2>. QED  BY <1>1, <1>3, <1>4, <1>5, <1>6, <2>1, <2>2, OrdinaryStep
<1>7. CASE worker_rearm(w) \/ worker_unsubscribe_all(w)
  <2>1. Goto(w, "idle") \/ Goto(w, "remove")
    BY <1>7 DEF worker_rearm, worker_unsubscribe_all
  <2>2. UNCHANGED cmVars
    BY <1>7 DEF worker_rearm, worker_unsubscribe_all
  <2>3. at[w] # "asking"
    BY <1>2, <1>7 DEF PositionOf, Finding, worker_rearm, worker_unsubscribe_all, At
  <2>4. OthersStay(w) /\ at'[w] # "asking" /\ sock' = sock /\ accepted' = accepted
    BY <1>1, <2>2, <2>3, RegistryMoves, SameSockets
  <2>. QED  BY <1>6, <2>1, <2>4 DEF Places, Enrolling
<1>8. CASE worker_set_hostname(w) \/ worker_copy_hostname(w)
  <2>1. PICK b \in {"copy_hostname", "rearm"} : Goto(w, b)
    BY <1>8 DEF worker_set_hostname, worker_copy_hostname
  <2>2. OthersStay(w) /\ at'[w] # "asking" /\ sock' = sock /\ accepted' = accepted
    BY <1>1, <1>8, RegistryMoves, SameSockets DEF worker_set_hostname, worker_copy_hostname
  <2>. QED  BY <1>6, <2>1, <2>2 DEF Places, Enrolling
<1>9. CASE worker_lookup(w) \/ worker_relock(w)
  <2>. DEFINE p == Lookup(local[w].fd)
  <2>1. CASE at[w] = "out" /\ UNCHANGED cmVars /\ (Goto(w, "idle") \/ Goto(w, "unsubscribe_all"))
    <3>1. OthersStay(w) /\ at'[w] # "asking" /\ sock' = sock /\ accepted' = accepted
      BY <1>1, <2>1, RegistryMoves, SameSockets
    <3>. QED  BY <1>6, <2>1, <3>1 DEF Places, Enrolling
  <2>2. CASE get_wait(w, p, "getting") /\ UNCHANGED <<pc, local>>
    <3>1. OthersStay(w) /\ at'[w] = "getting" /\ sock' = sock /\ accepted' = accepted
      BY <1>1, <2>2, RegistryMoves, SameSockets
    <3>2. pc[w] \in {"lookup", "relock"}
      BY <1>9 DEF worker_lookup, worker_relock, At
    <3>3. PositionOf(w)' /\ Moves(w, pc[w], local[w])
      BY <1>2, <2>2, <3>1, <3>2 DEF PositionOf, Moves, BInv, BTypes
    <3>. QED  BY <1>1, <1>3, <1>4, <1>5, <3>1, <3>2, <3>3, OrdinaryStep DEF Enrolling
  <2>3. CASE /\ get_lock(w, p)
             /\ \/ Goto(w, "commands")
                \/ GotoWith(w, "client", [local[w] EXCEPT !.conn = heap[Found(w, p)].conn])
    <3>1. OthersStay(w) /\ at'[w] = "holding" /\ sock' = sock /\ accepted' = accepted
      BY <1>1, <2>3, RegistryMoves, SameSockets
    <3>2. Found(w, p) \in Client
      BY <1>1, <1>2, <2>3 DEF get_lock, Found, Lookup, IInv, cmTypeOK, WaitersKeepMap
    <3>3. [local[w] EXCEPT !.conn = heap[Found(w, p)].conn] \in Locals
      BY Zenon, <1>2, <3>2 DEF IInv, cmTypeOK, Structs, Locals
    <3>4. CASE Goto(w, "commands")
      <4>1. Moves(w, "commands", Carried(w, "commands"))
        BY <1>1, <3>4, GotoMoves DEF BInv, Places
      <4>2. PositionOf(w)'
        BY <1>2, <3>1, <4>1 DEF PositionOf, Moves, Carried, Finding
      <4>. QED  BY <1>1, <1>3, <1>4, <1>5, <3>1, <4>1, <4>2, OrdinaryStep DEF Enrolling
    <3>5. CASE GotoWith(w, "client", [local[w] EXCEPT !.conn = heap[Found(w, p)].conn])
      <4>1. Moves(w, "client", [local[w] EXCEPT !.conn = heap[Found(w, p)].conn])
        BY <1>1, <3>3, <3>5, GotoWithMoves DEF BInv, Places
      <4>2. PositionOf(w)'
        BY <1>2, <3>1, <4>1 DEF PositionOf, Moves, Finding, Locals
      <4>. QED  BY <1>1, <1>3, <1>4, <1>5, <3>1, <4>1, <4>2, OrdinaryStep, SMT DEF Enrolling
    <3>. QED  BY <2>3, <3>4, <3>5
  <2>. QED  BY <1>9, <2>1, <2>2, <2>3 DEF worker_lookup, worker_relock
<1>. QED  BY <1>7, <1>8, <1>9

----------------------------------------------------------------------------
(* Enrolment: the lobby descriptor changes hands. *)

\* A worker takes the task at the head of the queue.
LEMMA QueueReadKeeps ==
  ASSUME IInv, BInv, NEW w \in Worker, worker_queue_read(w)
  PROVE  BInv'
<1>. DEFINE task == Head(queue)
            b == IF task.conn_type = "vault" THEN "lookup" ELSE "lobby"
            l == [NoLocal EXCEPT !.fd = task.client_fd]
<1>1. w \in Thread /\ w # Heartbeat /\ w # Cli /\ pc[w] = "idle"
  BY Threads DEF worker_queue_read, At
<1>2. /\ queue \in Seq(Tasks) /\ queue # <<>> /\ task = queue[1] /\ task \in Tasks
      /\ queue' = Tail(queue) /\ queue' \in Seq(Tasks) /\ Len(queue') = Len(queue) - 1
      /\ Len(queue) \in Nat /\ 1 \in 1 .. Len(queue)
      /\ \A i \in 1 .. Len(queue') : i + 1 \in 1 .. Len(queue) /\ queue'[i] = queue[i + 1]
  BY SMT DEF BInv, BTypes, worker_queue_read
<1>3. l \in Locals /\ l.fd = task.client_fd /\ l.fd \in Fd /\ b \in {"lookup", "lobby"}
  BY <1>2, NoLocalType DEF Tasks, Locals, NoLocal
<1>4. Moves(w, b, l)
  BY <1>1, <1>3, GotoWithMoves DEF BInv, Places, worker_queue_read
<1>5. UNCHANGED <<cmVars, session, epoll, main_task, peer, tmp, issued, load>>
  BY DEF worker_queue_read, dataVars, enrollVars
<1>6. OthersStay(w) /\ at'[w] = at[w] /\ sock' = sock /\ accepted' = accepted
  BY <1>1, <1>5, RegistryMoves, SameSockets
<1>7. Positions'
  <2>1. PositionOf(w) /\ at[w] # "asking"
    BY <1>1 DEF BInv, Positions, PositionOf, Finding
  <2>2. PositionOf(w)'
    BY <1>1, <1>3, <1>4, <1>6, <2>1 DEF PositionOf, Moves
  <2>. QED  BY <1>1, <1>4, <1>6, <2>2, MovesKeep DEF BInv
<1>8. BTypes'
  BY <1>2, <1>4, <1>5 DEF BInv, BTypes, Moves
<1>9. SameIdentities
  BY <1>5 DEF SameIdentities
<1>10. ASSUME NEW g \in Fd
       PROVE  /\ Armed(g)' <=> Armed(g)
              /\ Dispatched(g)' <=> Dispatched(g)
              /\ Queued(g)' => Queued(g)
              /\ \A u \in Worker : u # w => (Serves(u, g)' <=> Serves(u, g))
              /\ Serves(w, g)' => task = LobbyTask(g) /\ Queued(g)
              /\ task = LobbyTask(g) => ~Queued(g)'
  <2>1. \A u \in Worker : u # w => (Serves(u, g)' <=> Serves(u, g))
    BY <1>1, <1>4, Threads DEF Serves, Moves
  <2>2. Queued(g)' => Queued(g)
    BY <1>2 DEF Queued, LobbyTask
  <2>3. Serves(w, g)' => task = LobbyTask(g) /\ Queued(g)
    <3>1. Serves(w, g)' => task.client_fd = g /\ task.conn_type # "vault"
      BY <1>3, <1>4 DEF Serves, Moves, Enrolling
    <3>. QED  BY <1>2, <3>1 DEF Tasks, LobbyTask, Queued
  <2>4. task = LobbyTask(g) => ~Queued(g)'
    <3>1. ASSUME task = LobbyTask(g), NEW i \in 1 .. Len(queue'), queue'[i] = LobbyTask(g)
          PROVE  FALSE
      <4>1. i + 1 = 1
        BY <1>2, <3>1 DEF BInv, LobbyOwned
      <4>. QED  BY <4>1, SMT
    <3>. QED  BY <3>1 DEF Queued, LobbyTask
  <2>. QED  BY <1>5, <2>1, <2>2, <2>3, <2>4 DEF Armed, Dispatched, LobbyTask
<1>11. LobbyOwned'
  <2>1. ASSUME NEW g \in Fd, NEW i \in 1 .. Len(queue'), NEW j \in 1 .. Len(queue'),
               queue'[i] = LobbyTask(g), queue'[j] = LobbyTask(g)
        PROVE  i = j
    <3>1. i + 1 = j + 1
      BY <1>2, <2>1, SMT DEF BInv, LobbyOwned
    <3>. QED  BY <3>1, SMT
  <2>2. \A g \in Fd : Served(g)' => Served(g) \/ Serves(w, g)'
    BY <1>10 DEF Served
  <2>3. ASSUME NEW g \in Fd, NEW u \in Worker, NEW v \in Worker, Serves(u, g)', Serves(v, g)'
        PROVE  u = v
    <3>1. CASE u # w /\ v # w
      BY <1>10, <2>3, <3>1 DEF BInv, LobbyOwned
    <3>2. CASE u = w \/ v = w
      BY <1>10, <2>3, <3>2 DEF BInv, LobbyOwned, Served
    <3>. QED  BY <3>1, <3>2
  <2>4. ASSUME NEW g \in Fd
        PROVE  /\ Armed(g)' \/ Dispatched(g)' \/ Queued(g)' \/ Served(g)' => sock'[g].kind = "lobby"
               /\ Armed(g)' => ~Dispatched(g)' /\ ~Queued(g)' /\ ~Served(g)'
               /\ Dispatched(g)' => ~Queued(g)' /\ ~Served(g)'
               /\ Queued(g)' => ~Served(g)'
    BY <1>6, <1>10, <2>2 DEF BInv, LobbyOwned
  <2>. QED  BY <2>1, <2>3, <2>4 DEF LobbyOwned, LobbyTask
<1>12. FilesOwned'
  <2>1. ASSUME NEW u \in Worker, pc'[u] \in {"sign", "certificate"}
        PROVE  pc'[u] = pc[u] /\ local'[u] = local[u] /\ Requester(u)' = Requester(u)
    BY <1>3, <1>4, <1>6, <2>1, Threads DEF Moves, Requester
  <2>. QED  BY <1>5, <1>6, <1>9, <2>1, StaysVerified DEF BInv, FilesOwned
<1>13. SocketsHavePeers' /\ IssuedToOwner'
  BY <1>5, <1>6, <1>9, QuietSockets, StaysVerified DEF BInv, IssuedToOwner
<1>. QED  BY <1>7, <1>8, <1>11, <1>12, <1>13 DEF BInv

\* The steps of an enrolment: the worker keeps the descriptor, and its files are its own.
LEMMA EnrolmentKeeps ==
  ASSUME IInv, BInv, NEW w \in Worker, worker_lobby(w) \/ enroll_sign(w) \/ enroll_reply(w)
  PROVE  BInv'
<1>. DEFINE f == local[w].fd
            n == Requester(w)
<1>1. w \in Thread /\ w # Heartbeat /\ w # Cli /\ load \in Workloads
  BY Threads, LoadStays
<1>2. pc[w] \in Enrolling \ {"close"}
  BY DEF worker_lobby, enroll_sign, enroll_reply, At, Enrolling
<1>3. f \in Fd /\ PositionOf(w) /\ at[w] # "asking"
  BY <1>1, <1>2 DEF BInv, Positions, PositionOf, Enrolling, Finding
<1>4. n \in 1 .. accepted /\ n \in Conn
  <2>1. sock[f].kind = "lobby"
    BY <1>2, <1>3 DEF BInv, LobbyOwned, Served, Serves
  <2>2. sock[f] # Closed
    BY <2>1, SMT DEF Closed
  <2>. QED  BY <1>3, <2>2, AcceptedIsConn DEF BInv, SocketsHavePeers, Requester
<1>5. PICK b \in {"sign", "certificate", "close"} : Goto(w, b)
  BY DEF worker_lobby, enroll_sign, enroll_reply
<1>6. Moves(w, b, local[w])
  <2>1. Carried(w, b) = local[w]
    BY <1>5 DEF Carried
  <2>. QED  BY <1>1, <1>5, <2>1, GotoMoves DEF BInv, Places
<1>7. UNCHANGED <<cmVars, session, epoll, queue, main_task, load>>
  BY DEF worker_lobby, enroll_sign, enroll_reply, netVars
<1>8. OthersStay(w) /\ at'[w] = at[w] /\ sock' = sock /\ accepted' = accepted
  BY <1>1, <1>7, RegistryMoves, SameSockets
<1>9. peer' \in [Conn -> Peers] /\ SameIdentities
  <2>1. CASE UNCHANGED peer
    BY <2>1 DEF BInv, BTypes, SameIdentities
  <2>2. CASE peer' = [peer EXCEPT ![n].input = IF @ = <<>> THEN @ ELSE Tail(@)]
    <3>. DEFINE rest == IF peer[n].input = <<>> THEN peer[n].input ELSE Tail(peer[n].input)
    <3>1. peer \in [Conn -> Peers] /\ peer[n] \in Peers /\ peer[n].input \in Seq(Chunks)
      BY <1>4 DEF BInv, BTypes, Peers
    <3>2. rest \in Seq(Chunks)
      BY <3>1, SMT
    <3>3. [peer[n] EXCEPT !.input = rest] \in Peers
      BY Zenon, <3>1, <3>2 DEF Peers
    <3>4. peer' = [peer EXCEPT ![n] = [peer[n] EXCEPT !.input = rest]]
      BY <2>2
    <3>. QED  BY Zenon, <3>1, <3>3, <3>4 DEF SameIdentities, Peers
  <2>. QED  BY <2>1, <2>2 DEF worker_lobby, enroll_sign, enroll_reply, netVars
<1>10. Positions'
  <2>1. PositionOf(w)'
    BY <1>1, <1>3, <1>5, <1>6, <1>8 DEF PositionOf, Moves
  <2>. QED  BY <1>1, <1>6, <1>8, <2>1, MovesKeep DEF BInv
<1>11. LobbyOwned'
  <2>1. ASSUME NEW g \in Fd, NEW u \in Worker
        PROVE  Serves(u, g)' <=> Serves(u, g)
    BY <1>1, <1>2, <1>5, <1>6, Threads DEF Serves, Moves, Enrolling
  <2>2. ASSUME NEW g \in Fd
        PROVE  /\ Armed(g)' <=> Armed(g)
               /\ Dispatched(g)' <=> Dispatched(g)
               /\ Queued(g)' <=> Queued(g)
               /\ Served(g)' <=> Served(g)
    BY <1>7, <2>1 DEF Armed, Dispatched, Queued, LobbyTask, Served
  <2>3. \A g \in Fd : \A i, j \in 1 .. Len(queue') :
          queue'[i] = LobbyTask(g)' /\ queue'[j] = LobbyTask(g)' => i = j
    BY <1>7 DEF BInv, LobbyOwned, LobbyTask
  <2>. QED  BY <1>8, <2>1, <2>2, <2>3 DEF BInv, LobbyOwned
<1>12. SocketsHavePeers'
  BY <1>8, <1>9, QuietSockets DEF BInv
<1>13. \A u \in Worker : /\ Requester(u)' = Requester(u)
                         /\ u # w => pc'[u] = pc[u] /\ local'[u] = local[u]
  BY <1>1, <1>6, <1>8, Threads DEF Moves, Requester
<1>14. \A u \in Worker : u # w /\ pc[u] \in Enrolling => local[u].fd \in Fd \ {f}
  <2>1. ASSUME NEW u \in Worker, u # w, pc[u] \in Enrolling
        PROVE  local[u].fd \in Fd
    BY <2>1, Threads DEF BInv, Positions, PositionOf, Enrolling
  <2>. QED  BY <1>2, <1>3, <2>1 DEF BInv, LobbyOwned, Serves
<1>15. tmp \in [csr : Files, crt : Files] /\ tmp.csr \in Files /\ tmp.crt \in Files /\ n \in 0 .. MaxConn
  BY <1>4, SMT DEF BInv, BTypes, Conn
\* Whatever the step does to the files, it does to those of f.
<1>16. ASSUME NEW c \in 0 .. MaxConn, NEW d \in 0 .. MaxConn,
              tmp' = [csr |-> [tmp.csr EXCEPT ![f] = c], crt |-> [tmp.crt EXCEPT ![f] = d]],
              b = "sign" => Verified(n) /\ c = n,
              b = "certificate" => Verified(n) /\ d = n,
              IssuedToOwner'
       PROVE  BInv'
  <2>1. tmp' \in [csr : Files, crt : Files] /\ tmp'.csr[f] = c /\ tmp'.crt[f] = d
    BY <1>3, <1>15, <1>16 DEF Files
  <2>2. \A g \in Fd \ {f} : tmp'.csr[g] = tmp.csr[g] /\ tmp'.crt[g] = tmp.crt[g]
    BY <1>15, <1>16 DEF Files
  <2>3. BTypes'
    BY <1>6, <1>7, <1>9, <2>1 DEF BInv, BTypes, Moves
  <2>4. FilesOwned'
    <3>1. ASSUME NEW u \in Worker, u # w
          PROVE  /\ pc'[u] = "sign" => Verified(Requester(u))' /\ tmp'.csr[local'[u].fd] = Requester(u)'
                 /\ pc'[u] = "certificate" =>
                      Verified(Requester(u))' /\ tmp'.crt[local'[u].fd] = Requester(u)'
      BY <1>8, <1>9, <1>13, <1>14, <2>2, <3>1, StaysVerified, SMT DEF BInv, FilesOwned, Enrolling
    <3>2. /\ pc'[w] = "sign" => Verified(Requester(w))' /\ tmp'.csr[local'[w].fd] = Requester(w)'
          /\ pc'[w] = "certificate" => Verified(Requester(w))' /\ tmp'.crt[local'[w].fd] = Requester(w)'
      BY <1>6, <1>8, <1>9, <1>13, <1>16, <2>1, StaysVerified DEF Moves
    <3>. QED  BY <3>1, <3>2 DEF FilesOwned
  <2>. QED  BY <1>10, <1>11, <1>12, <1>16, <2>3, <2>4 DEF BInv
<1>17. issued' = issued => IssuedToOwner'
  BY <1>8, <1>9, StaysVerified DEF BInv, IssuedToOwner
<1>18. /\ tmp.csr[f] \in 0 .. MaxConn /\ tmp.crt[f] \in 0 .. MaxConn
       /\ [tmp.csr EXCEPT ![f] = tmp.csr[f]] = tmp.csr
       /\ [tmp.crt EXCEPT ![f] = tmp.crt[f]] = tmp.crt
       /\ tmp = [csr |-> tmp.csr, crt |-> tmp.crt]
  BY <1>3, <1>15 DEF Files
<1>19. ASSUME NEW c \in 0 .. MaxConn, NEW d \in 0 .. MaxConn,
              tmp' = [tmp EXCEPT !.csr[f] = c, !.crt[f] = d]
       PROVE  tmp' = [csr |-> [tmp.csr EXCEPT ![f] = c], crt |-> [tmp.crt EXCEPT ![f] = d]]
  <2>. DEFINE mid == [tmp EXCEPT !.csr[f] = c]
  <2>1. mid = [csr |-> [tmp.csr EXCEPT ![f] = c], crt |-> tmp.crt]
    BY <1>15, <1>18, SMT
  <2>2. tmp' = [mid EXCEPT !.crt[f] = d]
    BY <1>19
  <2>. QED  BY Zenon, <2>1, <2>2
<1>20. pc'[w] = b
  BY <1>6 DEF Moves
<1>21. \A g : Goto(w, g) => g = b
  BY <1>1, <1>20 DEF Goto, GotoWith, BInv, BTypes
<1>22. CASE worker_lobby(w)
  <2>1. issued' = issued
    BY <1>22 DEF worker_lobby
  <2>2. CASE UNCHANGED tmp /\ Goto(w, "close")
    <3>1. b = "close"
      BY <1>21, <2>2
    <3>. QED  BY <1>16, <1>17, <1>18, <2>1, <2>2, <3>1
  <2>3. CASE auth_verify_identity(n, peer[n].cn) /\ Goto(w, "sign")
               /\ tmp' = [tmp EXCEPT !.csr[csr_filename(f)] = n]
    <3>1. b = "sign" /\ Verified(n)
      BY <1>4, <1>21, <2>3 DEF auth_verify_identity, Verified
    <3>2. tmp' = [csr |-> [tmp.csr EXCEPT ![f] = n], crt |-> [tmp.crt EXCEPT ![f] = tmp.crt[f]]]
      BY <1>15, <1>18, <2>3 DEF csr_filename
    <3>. QED  BY <1>15, <1>16, <1>17, <1>18, <2>1, <3>1, <3>2
  <2>. QED  BY <1>22, <2>2, <2>3 DEF worker_lobby
<1>23. CASE enroll_sign(w)
  <2>1. issued' = issued /\ Verified(n) /\ tmp.csr[f] = n
    BY <1>23 DEF enroll_sign, At, BInv, FilesOwned
  <2>2. CASE tmp' = [tmp EXCEPT !.crt[csr_filename(f)] = tmp.csr[csr_filename(f)]] /\ Goto(w, "certificate")
    <3>1. b = "certificate"
      BY <1>21, <2>2
    <3>2. tmp' = [csr |-> [tmp.csr EXCEPT ![f] = tmp.csr[f]], crt |-> [tmp.crt EXCEPT ![f] = n]]
      BY <1>15, <1>18, <2>1, <2>2 DEF csr_filename
    <3>. QED  BY <1>15, <1>16, <1>17, <1>18, <2>1, <3>1, <3>2
  <2>3. ASSUME NEW left \in {tmp.crt[csr_filename(f)], tmp.csr[csr_filename(f)]}, Goto(w, "close"),
               tmp' = [tmp EXCEPT !.csr[csr_filename(f)] = 0, !.crt[csr_filename(f)] = left]
        PROVE  BInv'
    <3>1. b = "close" /\ left \in 0 .. MaxConn /\ 0 \in 0 .. MaxConn
      BY <1>18, <1>21, <2>3, ConnBound, SMT DEF csr_filename
    <3>2. tmp' = [csr |-> [tmp.csr EXCEPT ![f] = 0], crt |-> [tmp.crt EXCEPT ![f] = left]]
      BY Zenon, <1>19, <2>3, <3>1 DEF csr_filename
    <3>. QED  BY <1>16, <1>17, <2>1, <3>1, <3>2
  <2>. QED  BY <1>23, <2>2, <2>3 DEF enroll_sign
<1>24. CASE enroll_reply(w)
  <2>1. Verified(n) /\ tmp.crt[f] = n
    BY <1>24 DEF enroll_reply, At, BInv, FilesOwned
  <2>2. issued' \in {issued, issued \cup {[to |-> n, of |-> n, host |-> peer[n].cn]}}
    BY <1>24, <2>1 DEF enroll_reply, csr_filename
  <2>3. IssuedToOwner'
    <3>1. \A c \in issued' : c.of = c.to /\ Verified(c.to) /\ c.host = peer[c.to].cn
      BY <2>1, <2>2, SMT DEF BInv, IssuedToOwner
    <3>. QED  BY <1>8, <1>9, <3>1, StaysVerified DEF IssuedToOwner
  <2>4. b = "close" /\ 0 \in 0 .. MaxConn
    BY <1>21, <1>24, ConnBound, SMT DEF enroll_reply
  <2>5. tmp' = [csr |-> [tmp.csr EXCEPT ![f] = 0], crt |-> [tmp.crt EXCEPT ![f] = 0]]
    BY Zenon, <1>19, <1>24, <2>4 DEF enroll_reply, csr_filename
  <2>. QED  BY <1>16, <2>3, <2>4, <2>5
<1>. QED  BY <1>22, <1>23, <1>24

\* The worker closes the lobby socket, which no one else has.
LEMMA CloseKeeps ==
  ASSUME IInv, BInv, NEW w \in Worker, worker_close(w)
  PROVE  BInv'
<1>. DEFINE f == local[w].fd
<1>1. w \in Thread /\ w # Heartbeat /\ w # Cli /\ pc[w] = "close"
  BY Threads DEF worker_close, At
<1>2. f \in Fd /\ PositionOf(w) /\ at[w] # "asking"
  BY <1>1 DEF BInv, Positions, PositionOf, Finding
<1>3. Serves(w, f) /\ Served(f)
  BY <1>1 DEF Served, Serves, Enrolling
<1>4. Moves(w, "idle", Carried(w, "idle"))
  BY <1>1, GotoMoves DEF BInv, Places, worker_close
<1>5. sock' = [sock EXCEPT ![f] = Closed] /\ UNCHANGED <<accepted, at>>
  BY DEF worker_close, close_lobby, close
<1>6. Unregister(f) /\ UNCHANGED <<session, queue, main_task, peer, tmp, issued, load>>
  BY DEF worker_close, dataVars, enrollVars
<1>7. Positions'
  <2>1. PositionOf(w)'
    BY <1>1, <1>2, <1>4, <1>5 DEF PositionOf, Moves
  <2>. QED  BY <1>1, <1>4, <1>5, <2>1, MovesKeep DEF BInv, OthersStay
<1>8. BTypes'
  BY <1>2, <1>4, <1>6, UnregisterTypes DEF BInv, BTypes, Moves
<1>9. SocketsHavePeers'
  BY <1>2, <1>5, <1>6 DEF BInv, SocketsHavePeers, IInv, cmTypeOK
<1>10. ~Armed(f) /\ ~Dispatched(f) /\ ~Queued(f) /\ \A u \in Worker : u # w => ~Serves(u, f)
  BY <1>2, <1>3 DEF BInv, LobbyOwned
<1>11. ASSUME NEW g \in Fd
       PROVE  /\ Armed(g)' => Armed(g) /\ g # f
              /\ Dispatched(g)' <=> Dispatched(g)
              /\ Queued(g)' <=> Queued(g)
              /\ \A u \in Worker : Serves(u, g)' => Serves(u, g) /\ u # w
              /\ g # f => sock'[g] = sock[g]
  <2>1. \A u \in Worker : Serves(u, g)' => Serves(u, g) /\ u # w
    BY <1>1, <1>4, Threads DEF Serves, Moves, Enrolling
  <2>2. Armed(g)' => Armed(g) /\ g # f
    BY <1>2, <1>6, UnregisterTypes DEF BInv, Armed
  <2>. QED  BY <1>2, <1>5, <1>6, <2>1, <2>2 DEF Dispatched, Queued, LobbyTask, IInv, cmTypeOK
<1>12. LobbyOwned'
  <2>1. \A g \in Fd : Served(g)' => Served(g) /\ g # f
    BY <1>10, <1>11 DEF Served
  <2>2. \A g \in Fd : \A i, j \in 1 .. Len(queue') :
          queue'[i] = LobbyTask(g)' /\ queue'[j] = LobbyTask(g)' => i = j
    BY <1>6 DEF BInv, LobbyOwned, LobbyTask
  <2>. QED  BY <1>10, <1>11, <2>1, <2>2 DEF BInv, LobbyOwned
<1>13. SameIdentities
  BY <1>6 DEF SameIdentities
<1>14. FilesOwned'
  <2>1. ASSUME NEW u \in Worker, pc'[u] \in {"sign", "certificate"}
        PROVE  /\ pc'[u] = pc[u] /\ local'[u] = local[u] /\ local[u].fd \in Fd
               /\ local[u].fd # f
    <3>1. pc'[u] = pc[u] /\ local'[u] = local[u] /\ u # w
      BY <1>4, <2>1, Threads DEF Moves
    <3>2. local[u].fd \in Fd
      BY <2>1, <3>1, Threads DEF BInv, Positions, PositionOf
    <3>. QED  BY <1>10, <2>1, <3>1, <3>2 DEF Serves, Enrolling
  <2>2. ASSUME NEW u \in Worker, pc'[u] \in {"sign", "certificate"}
        PROVE  Requester(u)' = Requester(u)
    BY <1>11, <2>1, <2>2 DEF Requester
  <2>. QED  BY <1>5, <1>6, <1>13, <2>1, <2>2, StaysVerified DEF BInv, FilesOwned
<1>15. IssuedToOwner'
  BY <1>5, <1>6, <1>13, StaysVerified DEF BInv, IssuedToOwner
<1>. QED  BY <1>7, <1>8, <1>9, <1>12, <1>14, <1>15 DEF BInv

LEMMA WorkerKeeps ==
  ASSUME IInv, BInv, NEW w \in Worker, WorkerStep(w)
  PROVE  BInv'
<1>1. w \in Thread
  BY Threads
<1>2. CASE \/ remove_unmap(w, "idle") \/ publish_lock(w) \/ publish_skip(w) \/ publish_wait(w)
           \/ publish_write(w) \/ publish_unlock(w, "relock")
  BY <1>1, <1>2, SharedStepsKeep
<1>3. CASE remove_destroy(w, "idle")
  BY <1>1, <1>3, DestroyKeeps
<1>. QED  BY <1>2, <1>3, UnlockStepsKeep, HoldingStepsKeep, SearchStepsKeep, QueueReadKeeps,
             EnrolmentKeeps, CloseKeeps DEF WorkerStep

----------------------------------------------------------------------------
(* The turns of a descriptor. *)

\* It lets the client go, after a handshake step, a read or the last line.
LEMMA UnlockTurns ==
  ASSUME IInv, BInv, AInv, NEW w \in Worker,
         \/ handshake_pending(w) \/ handshake_failed(w) \/ handshake_done(w)
         \/ read_nothing(w) \/ read_disconnected(w) \/ command_publish(w) \/ commands_done(w)
  PROVE  Moved(w) /\ Turn(w)
<1>1. w \in Thread /\ Knows(w) /\ local[w] \in Locals /\ BTypes
  BY Threads DEF BInv, BTypes, AInv
<1>2. /\ client_unlock(w) /\ pc[w] \in {"client", "commands"} /\ UNCHANGED psVars /\ Settled
  BY DEF handshake_pending, handshake_failed, handshake_done, read_nothing, read_disconnected,
       command_publish, commands_done, Handshaking, Reading, Looping, At, Settled, netVars
<1>3. at'[w] = "out" /\ OthersKeep(w) /\ SameKeys
  BY <1>1, <1>2, RegistryMoves, RegistryFrames, Zenon DEF KeylessCall, SameKeys
<1>4. heap[C(w)].fd = local[w].fd
  BY <1>1, <1>2 DEF Knows, C
<1>5. \/ (Goto(w, "remove") \/ Goto(w, "unsubscribe_all")) /\ epoll' = epoll
      \/ (\E x : GotoWith(w, "set_hostname", [local[w] EXCEPT !.cn = x])) /\ epoll' = epoll
      \/ (\E x : GotoWith(w, "publish", [local[w] EXCEPT !.topic = x])) /\ epoll' = epoll
      \/ Goto(w, "idle") /\ Rearm(heap[C(w)].fd)
  BY Zenon DEF handshake_pending, handshake_failed, handshake_done, read_nothing, read_disconnected,
       command_publish, commands_done, netVars
<1>6. /\ PcAlone(w) /\ pc'[w] \in {"remove", "unsubscribe_all", "set_hostname", "publish", "idle"}
      /\ pc'[w] # "idle" => /\ epoll' = epoll
                            /\ local'[w].fd = local[w].fd /\ local'[w].conn = local[w].conn
      /\ pc'[w] = "idle" => Rearm(local[w].fd)
  <2>1. \A x : /\ [local[w] EXCEPT !.cn = x].fd = local[w].fd
              /\ [local[w] EXCEPT !.cn = x].conn = local[w].conn
              /\ [local[w] EXCEPT !.topic = x].fd = local[w].fd
              /\ [local[w] EXCEPT !.topic = x].conn = local[w].conn
    BY <1>1 DEF Locals
  <2>2. \A b, l : GotoWith(w, b, l) => PcAlone(w) /\ pc'[w] = b /\ local'[w] = l
    BY <1>1, GotoEffect
  <2>3. \A b : Goto(w, b) => PcAlone(w) /\ pc'[w] = b /\ (b # "idle" => local'[w] = local[w])
    BY <1>1, GotoEffect
  <2>4. CASE (\E x : GotoWith(w, "set_hostname", [local[w] EXCEPT !.cn = x])) /\ epoll' = epoll
    <3>1. PICK x : GotoWith(w, "set_hostname", [local[w] EXCEPT !.cn = x])
      BY Zenon, <2>4
    <3>2. PcAlone(w) /\ pc'[w] = "set_hostname" /\ local'[w] = [local[w] EXCEPT !.cn = x]
      BY <2>2, <3>1
    <3>. QED  BY <2>1, <2>4, <3>2
  <2>5. CASE (\E x : GotoWith(w, "publish", [local[w] EXCEPT !.topic = x])) /\ epoll' = epoll
    <3>1. PICK x : GotoWith(w, "publish", [local[w] EXCEPT !.topic = x])
      BY Zenon, <2>5
    <3>2. PcAlone(w) /\ pc'[w] = "publish" /\ local'[w] = [local[w] EXCEPT !.topic = x]
      BY <2>2, <3>1
    <3>. QED  BY <2>1, <2>5, <3>2
  <2>6. CASE Goto(w, "idle") /\ Rearm(heap[C(w)].fd)
    BY <1>4, <2>3, <2>6
  <2>7. CASE (Goto(w, "remove") \/ Goto(w, "unsubscribe_all")) /\ epoll' = epoll
    BY <2>3, <2>7, SMT
  <2>. QED  BY Zenon, <1>5, <2>4, <2>5, <2>6, <2>7
<1>7. Moved(w)
  BY <1>2, <1>3, <1>6, OutStation DEF Moved, TableCall
<1>. QED  BY <1>2, <1>3, <1>6, <1>7 DEF Turn, GoesOn, Rearms, Tending, Enrolling

\* It reads, and executes lines that need no PUBLISH, with the client in its hands.
LEMMA HoldingTurns ==
  ASSUME IInv, BInv, AInv, [cmNext]_cmVars, NEW w \in Worker,
         \/ read_data(w) \/ command_no_effect(w) \/ command_set_get(w)
         \/ command_subscribe(w) \/ command_unsubscribe(w)
  PROVE  Moved(w) /\ Turn(w)
<1>1. w \in Thread /\ Knows(w) /\ BTypes /\ Station(w)
  BY Threads DEF BInv, AInv
<1>2. /\ pc[w] \in {"client", "commands"} /\ Settled /\ epoll' = epoll
      /\ touch(w) \/ UNCHANGED cmVars
  BY Zenon DEF read_data, command_no_effect, command_set_get, command_subscribe, command_unsubscribe,
       Reading, Looping, At, Settled, netVars
<1>3. TableCall(w)
  BY Zenon DEF read_data, command_no_effect, command_set_get, command_subscribe, command_unsubscribe,
       TableCall
<1>4. /\ at[w] = "holding" /\ at'[w] = "holding" /\ OthersKeep(w) /\ SameKeys
      /\ ptr'[w] = ptr[w]
  BY <1>1, <1>2, RegistryMoves, RegistryFrames, Zenon DEF KeylessCall, SameKeys, Station, touch, cmVars
<1>5. heap'[ptr'[w]].fd = local[w].fd
  BY <1>1, <1>2, <1>4, HeldStays DEF SameStruct, Knows
<1>6. PcAlone(w) /\ pc'[w] = "commands" /\ local'[w] = local[w]
  <2>1. Goto(w, "commands") \/ (pc[w] = "commands" /\ UNCHANGED <<pc, local>>)
    BY Zenon DEF read_data, command_no_effect, command_set_get, command_subscribe,
         command_unsubscribe, Looping, At
  <2>2. CASE Goto(w, "commands")
    BY <1>1, <2>2, GotoEffect, SMT
  <2>3. CASE pc[w] = "commands" /\ UNCHANGED <<pc, local>>
    BY <1>1, <2>3, GotoEffect
  <2>. QED  BY <2>1, <2>2, <2>3
<1>7. Moved(w)
  BY <1>3, <1>4, <1>5, <1>6 DEF Moved, Station, Fanning, Knows, Finding
<1>. QED  BY <1>2, <1>4, <1>6, <1>7 DEF Turn, GoesOn, Tending, Enrolling

\* It looks its client up.
LEMMA SearchTurns ==
  ASSUME IInv, BInv, AInv, NEW w \in Worker, worker_lookup(w) \/ worker_relock(w)
  PROVE  Moved(w) /\ Turn(w)
<1>. DEFINE f == local[w].fd
            p == fd_key[f]
<1>1. w \in Thread /\ Knows(w) /\ BTypes /\ Station(w) /\ local[w] \in Locals /\ f \in Fd
  BY Threads DEF BInv, BTypes, AInv, Positions, PositionOf, worker_lookup, worker_relock, At
<1>2. /\ pc[w] \in {"lookup", "relock"} /\ Settled /\ epoll' = epoll /\ TableCall(w) /\ Lookup(f) = p
  BY <1>1 DEF worker_lookup, worker_relock, At, Settled, netVars, TableCall, Lookup
<1>3. CASE /\ at[w] = "out" /\ p = NULL /\ UNCHANGED cmVars
           /\ \/ pc[w] = "lookup" /\ Goto(w, "idle")
              \/ pc[w] = "relock" /\ Goto(w, "unsubscribe_all")
  <2>1. at'[w] = "out" /\ OthersKeep(w) /\ SameKeys
    BY <1>1, <1>3, RegistryMoves, RegistryFrames, Zenon DEF KeylessCall, SameKeys
  <2>2. /\ PcAlone(w)
        /\ \/ pc'[w] = "idle"
           \/ pc[w] = "relock" /\ pc'[w] = "unsubscribe_all" /\ local'[w] = local[w]
    BY <1>1, <1>3, GotoEffect
  <2>3. Moved(w)
    BY <1>2, <2>1, <2>2, OutStation DEF Moved
  <2>. QED  BY <1>2, <1>3, <2>1, <2>2, <2>3 DEF Turn, Drops, GoesOn, Tending, Enrolling
<1>4. CASE get_wait(w, p, "getting") /\ UNCHANGED <<pc, local>>
  <2>1. at'[w] = "getting" /\ OthersKeep(w) /\ SameKeys
    BY <1>1, <1>4, RegistryMoves, RegistryFrames, Zenon DEF KeylessCall, SameKeys
  <2>2. ptr'[w] = p /\ PcAlone(w) /\ p # NULL
    BY <1>1, <1>4, GotoEffect DEF get_wait, Goes, IInv, cmTypeOK
  <2>3. Moved(w)
    BY <1>2, <1>4, <2>1, <2>2 DEF Moved, Station, Fanning, Knows, SameKeys, Finding
  <2>. QED  BY <1>2, <1>4, <2>1, <2>3 DEF Turn, GoesOn, Tending, Enrolling
<1>5. CASE /\ get_lock(w, p)
           /\ \/ pc[w] = "relock" /\ Goto(w, "commands")
              \/ GotoWith(w, "client", [local[w] EXCEPT !.conn = heap[Found(w, p)].conn])
  <2>1. Found(w, p) = p /\ p # NULL
    BY <1>1, <1>2, <1>5 DEF get_lock, Found, Station, Knows
  <2>2. at'[w] = "holding" /\ OthersKeep(w) /\ SameKeys
    BY <1>1, <1>5, RegistryMoves, RegistryFrames, Zenon DEF KeylessCall, SameKeys
  <2>3. ptr'[w] = p /\ heap'[p].fd = heap[p].fd /\ heap[p].fd = f
    <3>1. heap' = [heap EXCEPT ![p].lock = w] /\ Goes(w, "holding", p)
      BY <1>5, <2>1 DEF get_lock
    <3>2. p \in Client /\ heap[p].fd = f
      BY <1>1, <2>1, RegisteredClient
    <3>3. heap'[p].fd = heap[p].fd
      BY <3>1, <3>2, SMT DEF IInv, cmTypeOK, Structs
    <3>4. ptr'[w] = p
      BY <1>1, <3>1 DEF Goes, IInv, cmTypeOK
    <3>. QED  BY <3>2, <3>3, <3>4
  <2>4. /\ PcAlone(w) /\ pc'[w] \in {"client", "commands"} /\ local'[w].fd = f
        /\ \/ pc[w] = "relock" /\ local'[w].conn = local[w].conn
           \/ local'[w].conn = heap[p].conn
    BY <1>1, <1>5, <2>1, GotoEffect, SMT DEF Locals
  <2>5. Moved(w)
    BY <1>2, <2>2, <2>3, <2>4 DEF Moved, Station, Fanning, Knows, Finding
  <2>. QED  BY <1>2, <2>1, <2>2, <2>4, <2>5 DEF Turn, GoesOn, Tending, Enrolling
<1>6. CASE worker_lookup(w)
  <2>1. pc[w] = "lookup"
    BY <1>6 DEF worker_lookup, At
  <2>2. \/ at[w] = "out" /\ p = NULL /\ UNCHANGED cmVars /\ Goto(w, "idle")
        \/ get_wait(w, p, "getting") /\ UNCHANGED <<pc, local>>
        \/ /\ get_lock(w, p)
           /\ GotoWith(w, "client", [local[w] EXCEPT !.conn = heap[Found(w, p)].conn])
    BY Zenon, <1>2, <1>6 DEF worker_lookup
  <2>. QED  BY <1>3, <1>4, <1>5, <2>1, <2>2
<1>7. CASE worker_relock(w)
  <2>1. pc[w] = "relock"
    BY <1>7 DEF worker_relock, At
  <2>2. \/ at[w] = "out" /\ p = NULL /\ UNCHANGED cmVars /\ Goto(w, "unsubscribe_all")
        \/ get_wait(w, p, "getting") /\ UNCHANGED <<pc, local>>
        \/ get_lock(w, p) /\ Goto(w, "commands")
    BY Zenon, <1>2, <1>7 DEF worker_relock
  <2>. QED  BY <1>3, <1>4, <1>5, <2>1, <2>2
<1>. QED  BY <1>6, <1>7

\* It names its client, re-arms it, or forgets its subscriptions.
LEMMA NameTurns ==
  ASSUME IInv, BInv, AInv, NEW w \in Worker,
         \/ worker_set_hostname(w) \/ worker_copy_hostname(w) \/ worker_rearm(w)
         \/ worker_unsubscribe_all(w)
  PROVE  Moved(w) /\ Turn(w)
<1>1. w \in Thread /\ BTypes /\ Station(w)
  BY Threads DEF BInv, AInv
<1>2. /\ pc[w] \in {"set_hostname", "copy_hostname", "rearm", "unsubscribe_all"} /\ Settled
      /\ TableCall(w) /\ (pc[w] # "rearm" => epoll' = epoll)
  BY DEF worker_set_hostname, worker_copy_hostname, worker_rearm, worker_unsubscribe_all, At,
       Settled, netVars, TableCall
<1>3. /\ \/ pc[w] \in {"rearm", "unsubscribe_all"} /\ UNCHANGED cmVars
         \/ client_set_hostname_copy(w) /\ pc[w] = "copy_hostname"
         \/ pc[w] = "set_hostname" /\ \E f, h : client_set_hostname(w, f, h)
  BY Zenon DEF worker_set_hostname, worker_copy_hostname, worker_rearm, worker_unsubscribe_all, At
<1>4. /\ at'[w] \in {"out", "naming"} /\ OthersKeep(w) /\ SameKeys
      /\ pc[w] # "set_hostname" => at'[w] = "out"
  <2>1. CASE pc[w] \in {"rearm", "unsubscribe_all"} /\ UNCHANGED cmVars
    <3>1. OthersKeep(w) /\ SameKeys
      BY Zenon, <1>1, <2>1, RegistryFrames DEF KeylessCall, SameKeys
    <3>. QED  BY <1>1, <2>1, <3>1 DEF cmVars, Station, Finding
  <2>2. CASE client_set_hostname_copy(w) /\ pc[w] = "copy_hostname"
    BY Zenon, <1>1, <2>2, RegistryMoves, RegistryFrames DEF KeylessCall, SameKeys
  <2>3. CASE pc[w] = "set_hostname" /\ \E f, h : client_set_hostname(w, f, h)
    BY Zenon, <1>1, <2>3, RegistryMoves, RegistryFrames DEF KeylessCall, SameKeys
  <2>. QED  BY <1>3, <2>1, <2>2, <2>3
<1>5. \/ pc[w] = "set_hostname" /\ Goto(w, IF at'[w] = "naming" THEN "copy_hostname" ELSE "rearm")
      \/ pc[w] = "copy_hostname" /\ Goto(w, "rearm")
      \/ pc[w] = "rearm" /\ Goto(w, "idle") /\ Rearm(local[w].fd)
      \/ pc[w] = "unsubscribe_all" /\ Goto(w, "remove")
  BY Zenon DEF worker_set_hostname, worker_copy_hostname, worker_rearm, worker_unsubscribe_all, At
<1>6. /\ PcAlone(w) /\ pc'[w] \in {"copy_hostname", "rearm", "idle", "remove"}
      /\ pc'[w] = "copy_hostname" <=> at'[w] = "naming"
      /\ pc'[w] # "idle" => local'[w] = local[w] /\ epoll' = epoll
      /\ pc'[w] = "idle" => Rearm(local[w].fd)
  <2>1. PcAlone(w) /\ (pc'[w] # "idle" => local'[w] = local[w])
    BY Zenon, <1>1, <1>5, GotoEffect
  <2>2. \/ pc[w] = "set_hostname" /\ pc'[w] = IF at'[w] = "naming" THEN "copy_hostname" ELSE "rearm"
        \/ pc[w] = "copy_hostname" /\ pc'[w] = "rearm"
        \/ pc[w] = "rearm" /\ pc'[w] = "idle" /\ Rearm(local[w].fd)
        \/ pc[w] = "unsubscribe_all" /\ pc'[w] = "remove"
    BY Zenon, <1>1, <1>5, GotoEffect
  <2>. QED  BY <1>2, <1>4, <2>1, <2>2
<1>7. Moved(w)
  BY <1>2, <1>4, <1>6 DEF Moved, Station, Fanning, Knows, Finding
<1>. QED  BY <1>2, <1>4, <1>6, <1>7 DEF Turn, GoesOn, Rearms, Tending, Enrolling

\* It removes the client.
LEMMA RemoveTurns ==
  ASSUME IInv, BInv, AInv, NEW w \in Worker, remove_unmap(w, "idle") \/ remove_destroy(w, "idle")
  PROVE  Moved(w) /\ Turn(w)
<1>. DEFINE f == local[w].fd
<1>1. w \in Thread /\ BTypes /\ Knows(w) /\ Station(w) /\ f \in Fd
  BY Threads DEF BInv, AInv, Positions, PositionOf, remove_unmap, remove_destroy, At
<1>2. Settled /\ UNCHANGED psVars
  BY DEF remove_unmap, remove_destroy, Settled, netVars
<1>3. CASE remove_unmap(w, "idle")
  <2>1. /\ pc[w] = "remove" /\ client_remove(w, f) /\ epoll' = epoll
        /\ Goto(w, IF at'[w] = "removing" THEN "destroy" ELSE "idle")
    BY <1>3 DEF remove_unmap, At, netVars
  <2>2. OthersKeep(w)
    BY <1>1, <2>1, RegistryFrames
  <2>3. CASE fd_key[f] = NULL
    <3>1. at'[w] = "out" /\ SameKeys
      BY <2>1, <2>3 DEF client_remove, SameKeys
    <3>2. PcAlone(w) /\ pc'[w] = "idle"
      BY <1>1, <2>1, <3>1, GotoEffect
    <3>3. Moved(w)
      BY <1>2, <2>2, <3>1, <3>2, OutStation DEF Moved, TableCall
    <3>. QED  BY <1>2, <2>1, <2>3, <3>1, <3>2, <3>3 DEF Turn, Drops, Tending, Enrolling
  <2>4. CASE fd_key[f] # NULL
    <3>1. /\ at'[w] = "removing" /\ ptr'[w] = fd_key[f] /\ heap' = heap
          /\ fd_key' = [fd_key EXCEPT ![f] = NULL]
      BY <1>1, <2>1, <2>4 DEF client_remove, del_fd_key, Goes, IInv, cmTypeOK
    <3>2. PcAlone(w) /\ pc'[w] = "destroy" /\ local'[w] = local[w]
      <4>1. Goto(w, "destroy")
        BY <2>1, <3>1
      <4>. QED  BY <1>1, <4>1, GotoEffect, SMT
    <3>3. heap'[ptr'[w]].fd = f
      BY <1>1, <2>4, <3>1, RegisteredClient
    <3>4. Moved(w)
      BY <1>2, <2>2, <3>1, <3>2, <3>3 DEF Moved, TableCall, Station, Fanning, Knows, Finding
    <3>. QED  BY <1>2, <2>1, <3>1, <3>2, <3>4 DEF Turn, Unmaps
  <2>. QED  BY <2>3, <2>4
<1>4. CASE remove_destroy(w, "idle")
  <2>1. /\ pc[w] = "destroy" /\ client_remove_destroy(w) /\ Unregister(heap[ptr[w]].fd)
        /\ Goto(w, "idle")
    BY <1>4 DEF remove_destroy, At
  <2>2. at[w] = "removing" /\ heap[ptr[w]].fd = f
    BY <1>1, <2>1 DEF Station, Knows
  <2>3. fd_key[f] = NULL
    BY <1>1, <2>2, PrivateHasNoKey DEF Private
  <2>4. OthersKeep(w) /\ SameKeys /\ at'[w] = "out"
    BY Zenon, <1>1, <2>1, RegistryMoves, RegistryFrames DEF KeylessCall, SameKeys
  <2>5. PcAlone(w) /\ pc'[w] = "idle"
    BY <1>1, <2>1, GotoEffect
  <2>6. Moved(w)
    BY <1>2, <2>4, <2>5, OutStation DEF Moved, TableCall
  <2>. QED  BY <1>2, <2>1, <2>2, <2>3, <2>4, <2>5, <2>6 DEF Turn, Finishes
<1>. QED  BY <1>3, <1>4

\* It takes the next task.
LEMMA TaskTurns ==
  ASSUME IInv, BInv, AInv, NEW w \in Worker, worker_queue_read(w)
  PROVE  Moved(w) /\ Turn(w)
<1>1. w \in Thread /\ BTypes /\ Station(w)
  BY Threads DEF BInv, AInv
<1>. DEFINE b == IF Head(queue).conn_type = "vault" THEN "lookup" ELSE "lobby"
            l == [NoLocal EXCEPT !.fd = Head(queue).client_fd]
<1>2. /\ pc[w] = "idle" /\ queue # <<>> /\ queue' = Tail(queue) /\ main_task' = main_task
      /\ epoll' = epoll /\ UNCHANGED cmVars /\ UNCHANGED psVars /\ GotoWith(w, b, l)
  BY DEF worker_queue_read, At
<1>3. PcAlone(w) /\ pc'[w] = b /\ local'[w].fd = Head(queue).client_fd
  <2>1. PcAlone(w) /\ pc'[w] = b /\ local'[w] = l
    BY <1>1, <1>2, GotoEffect, SMT
  <2>. QED  BY <2>1 DEF NoLocal
<1>4. OthersKeep(w) /\ SameKeys
  BY Zenon, <1>1, <1>2, RegistryFrames DEF KeylessCall, SameKeys
<1>5. at'[w] = "out"
  BY <1>1, <1>2 DEF Station, Finding, cmVars
<1>6. Moved(w)
  BY <1>2, <1>3, <1>4, <1>5, OutStation DEF Moved, TableCall
<1>. QED  BY <1>2, <1>3, <1>4, <1>6 DEF Turn, Takes

\* It deals with an enrolment, and closes the lobby connection.
LEMMA EnrolTurns ==
  ASSUME IInv, BInv, AInv, NEW w \in Worker,
         worker_lobby(w) \/ enroll_sign(w) \/ enroll_reply(w) \/ worker_close(w)
  PROVE  Moved(w) /\ Turn(w)
<1>1. w \in Thread /\ BTypes /\ Station(w)
  BY Threads DEF BInv, AInv
<1>2. pc[w] \in Enrolling /\ Settled /\ UNCHANGED psVars
  BY DEF worker_lobby, enroll_sign, enroll_reply, worker_close, At, Enrolling, Settled, netVars
<1>3. \/ UNCHANGED cmVars /\ epoll' = epoll /\ \E b \in {"sign", "certificate", "close"} : Goto(w, b)
      \/ /\ close_lobby(local[w].fd) /\ Unregister(local[w].fd) /\ Goto(w, "idle") /\ pc[w] = "close"
  BY Zenon DEF worker_lobby, enroll_sign, enroll_reply, worker_close, At, netVars
<1>4. OthersKeep(w) /\ SameKeys
  BY Zenon, <1>1, <1>3, RegistryFrames DEF KeylessCall, SameKeys
<1>5. at'[w] = "out"
  <2>1. at[w] = "out"
    BY <1>1, <1>2 DEF Station, Finding, Enrolling
  <2>. QED  BY <1>3, <2>1 DEF cmVars, close_lobby
<1>6. CASE UNCHANGED cmVars /\ epoll' = epoll /\ \E b \in {"sign", "certificate", "close"} : Goto(w, b)
  <2>1. PcAlone(w) /\ pc'[w] \in {"sign", "certificate", "close"} /\ local'[w] = local[w]
    BY <1>1, <1>6, GotoEffect
  <2>2. Moved(w)
    BY <1>2, <1>4, <1>5, <2>1, OutStation DEF Moved, TableCall
  <2>. QED  BY <1>2, <1>4, <1>6, <2>1, <2>2 DEF Turn, Enrols, Enrolling
<1>7. CASE /\ close_lobby(local[w].fd) /\ Unregister(local[w].fd) /\ Goto(w, "idle") /\ pc[w] = "close"
  <2>1. PcAlone(w) /\ pc'[w] = "idle"
    BY <1>1, <1>7, GotoEffect
  <2>2. Moved(w)
    BY <1>2, <1>4, <1>5, <2>1, OutStation DEF Moved, TableCall
  <2>3. local[w].fd \in Fd /\ Served(local[w].fd)
    BY <1>1, <1>7 DEF BInv, Positions, PositionOf, Served, Serves, Enrolling
  <2>4. sock[local[w].fd].kind = "lobby"
    BY <2>3 DEF BInv, LobbyOwned
  <2>5. fd_key[local[w].fd] = NULL
    BY <2>3, <2>4, RegisteredClient
  <2>. QED  BY <1>2, <1>4, <1>7, <2>1, <2>2, <2>5 DEF Turn, Finishes
<1>. QED  BY <1>3, <1>6, <1>7

LEMMA WorkerTurns ==
  ASSUME IInv, BInv, AInv, [cmNext]_cmVars, NEW w \in Worker, WorkerStep(w)
  PROVE  Moved(w) /\ Turn(w)
<1>1. CASE \/ publish_lock(w) \/ publish_skip(w) \/ publish_wait(w) \/ publish_write(w)
           \/ publish_unlock(w, "relock")
  <2>1. /\ Moved(w) /\ Settled /\ SameKeys /\ epoll' = epoll /\ local'[w] = local[w]
        /\ pc[w] \in {"publish", "fanout", "list"} /\ pc'[w] \in {"fanout", "list", "relock"}
    BY <1>1, PublishTurns
  <2>. QED  BY <2>1 DEF Turn, GoesOn, Tending, Enrolling
<1>. QED  BY Zenon, <1>1, UnlockTurns, HoldingTurns, SearchTurns, NameTurns, RemoveTurns, TaskTurns,
             EnrolTurns DEF WorkerStep

LEMMA WorkerLoad ==
  ASSUME NEW w \in Worker, WorkerStep(w)
  PROVE  load' = load
BY Zenon DEF WorkerStep, worker_queue_read, worker_lookup, handshake_pending, handshake_failed,
     handshake_done, worker_set_hostname, worker_copy_hostname, worker_rearm, read_nothing,
     read_disconnected, read_data, command_no_effect, command_set_get, command_subscribe,
     command_unsubscribe, command_publish, publish_lock, publish_skip, publish_wait, publish_write,
     publish_unlock, worker_relock, commands_done, worker_unsubscribe_all, remove_unmap,
     remove_destroy, worker_lobby, enroll_sign, enroll_reply, worker_close, brokerVars

\* A worker takes what a peer has sent, and changes nothing else about it.
LEMMA WorkerPeople ==
  ASSUME IInv, BInv, [cmNext]_cmVars, NEW w \in Worker, WorkerStep(w)
  PROVE  SamePeople
<1>1. \/ peer' = peer
      \/ \E n, x : peer' = [peer EXCEPT ![n].input = x]
  <2>1. CASE \/ worker_queue_read(w) \/ worker_lookup(w) \/ handshake_pending(w) \/ handshake_failed(w)
             \/ handshake_done(w) \/ worker_set_hostname(w) \/ worker_copy_hostname(w) \/ worker_rearm(w)
    BY <2>1 DEF netVars, Receive, worker_queue_read, worker_lookup, handshake_pending,
         handshake_failed, handshake_done, worker_set_hostname, worker_copy_hostname, worker_rearm
  <2>2. CASE \/ read_nothing(w) \/ read_disconnected(w) \/ read_data(w) \/ command_no_effect(w)
             \/ command_set_get(w) \/ command_subscribe(w) \/ command_unsubscribe(w)
             \/ command_publish(w)
    BY <2>2 DEF netVars, Receive, read_nothing, read_disconnected, read_data, command_no_effect,
         command_set_get, command_subscribe, command_unsubscribe, command_publish
  <2>3. CASE \/ publish_lock(w) \/ publish_skip(w) \/ publish_wait(w) \/ publish_write(w)
             \/ publish_unlock(w, "relock") \/ worker_relock(w) \/ commands_done(w)
             \/ worker_unsubscribe_all(w) \/ remove_unmap(w, "idle") \/ remove_destroy(w, "idle")
    BY <2>3 DEF netVars, brokerVars, publish_lock, publish_write, publish_skip, publish_wait,
         publish_unlock, worker_relock, commands_done, worker_unsubscribe_all, remove_unmap,
         remove_destroy
  <2>4. CASE worker_lobby(w) \/ enroll_sign(w) \/ enroll_reply(w) \/ worker_close(w)
    BY <2>4 DEF netVars, worker_lobby, enroll_sign, enroll_reply, worker_close
  <2>. QED  BY <2>1, <2>2, <2>3, <2>4 DEF WorkerStep
<1>2. ASSUME NEW n, NEW x, peer' = [peer EXCEPT ![n].input = x]
      PROVE  SameIdentities
  <2>1. n \in Conn => peer[n] \in Peers /\ peer' = [peer EXCEPT ![n] = [peer[n] EXCEPT !.input = x]]
    BY <1>2 DEF BInv, BTypes
  <2>2. n \in Conn => LET r == [peer[n] EXCEPT !.input = x] IN r.cn = peer[n].cn /\ r.addr = peer[n].addr
    BY <2>1 DEF Peers
  <2>. QED  BY <1>2, <2>1, <2>2 DEF BInv, BTypes, SameIdentities
<1>3. peer' = peer => SameIdentities
  BY DEF SameIdentities
<1>. QED  BY <1>1, <1>2, <1>3, SamePeopleStay
=============================================================================
