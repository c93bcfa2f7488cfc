---------------------------- MODULE ThreadProofs ----------------------------
(***************************************************************************)
(* The epoll thread, the peers, the heartbeat and the operator's prompt:   *)
(* every step of theirs is one of the registry's and of the topic table's  *)
(* and keeps the broker's invariants.                                      *)
(***************************************************************************)
EXTENDS EventLoop, HeartbeatSweep, AdminCli, BrokerInvariant

\* Most leaves need no arithmetic: Zenon, unless a leaf names SMT.
USE Zenon

----------------------------------------------------------------------------
(* The registry and the topic table. *)

LEMMA MainRegistrySteps ==
  ASSUME IInv, BInv, MainStep \/ MainAccept
  PROVE  [cmNext]_cmVars
<1>1. Main \in Thread
  BY Threads
<1>2. CASE main_client_add
  BY Zenon, <1>1, <1>2, RegistrySteps DEF main_client_add
<1>3. CASE main_queue_write \/ \E f \in Fd : main_dispatch(f)
  BY <1>3 DEF main_queue_write, main_dispatch
<1>4. CASE MainAccept
  <2>1. ASSUME NEW f \in Fd, NEW cn, NEW a, NEW kind, main_accept_lobby(f, cn, a, kind)
        PROVE  cmNext
    BY <2>1, RegistrySteps DEF main_accept_lobby
  <2>2. ASSUME NEW f \in Fd, NEW p \in Client, NEW cn, NEW a, NEW s,
               main_accept_vault(f, p, cn, a, s)
        PROVE  cmNext
    BY Zenon, <1>1, <2>2, RegistrySteps DEF main_accept_vault
  <2>. QED  BY <1>4, <2>1, <2>2 DEF MainAccept
<1>. QED  BY <1>2, <1>3, <1>4 DEF MainStep

LEMMA HeartbeatRegistrySteps ==
  ASSUME IInv, BInv, HeartbeatStep
  PROVE  [cmNext]_cmVars
<1>1. Heartbeat \in Thread
  BY Threads
<1>2. CASE sweep_begin \/ sweep_scanned \/ sweep_done
  BY Zenon, <1>1, <1>2, RegistrySteps DEF sweep_begin, sweep_scanned, sweep_done
<1>3. CASE \E p \in Client : sweep_scan(p)
  BY Zenon, <1>1, <1>3, RegistrySteps DEF sweep_scan
<1>4. CASE \E e \in fds_to_remove : sweep_unsubscribe(e)
  BY <1>4, RegistrySteps DEF sweep_unsubscribe
<1>5. CASE remove_unmap(Heartbeat, "sweep") \/ remove_destroy(Heartbeat, "sweep")
  <2>1. remove_unmap(Heartbeat, "sweep") => local[Heartbeat].fd \in Fd
    BY <1>1 DEF remove_unmap, At, BInv, Positions, PositionOf
  <2>. QED  BY <1>1, <1>5, <2>1, SharedRegistrySteps
<1>. QED  BY <1>2, <1>3, <1>4, <1>5 DEF HeartbeatStep

LEMMA CliRegistrySteps ==
  ASSUME IInv, BInv, CliStep
  PROVE  [cmNext]_cmVars
<1>1. Cli \in Thread
  BY Threads
<1>2. CASE \/ \E c \in load.typed : cli_input(c)
           \/ cli_subscribe \/ cli_unsubscribe \/ cli_set \/ status_lock \/ status_turn
           \/ status_unlock
  BY Zenon, <1>2 DEF cli_input, cli_subscribe, cli_unsubscribe, cli_set, status_lock, status_turn,
       status_unlock
<1>3. ASSUME NEW from \in Finding, NEW to, cli_find(from, to)
      PROVE  [cmNext]_cmVars
  <2>1. local[Cli].cn \in Hostname
    BY <1>1, <1>3 DEF cli_find, At, BInv, Positions, PositionOf
  <2>2. \/ UNCHANGED cmVars
        \/ get_wait(Cli, host_key[local[Cli].cn], "asking")
        \/ get_visit(Cli, host_key[local[Cli].cn])
    BY <1>3 DEF cli_find
  <2>. QED  BY Zenon, <1>1, <2>1, <2>2, RegistrySteps
<1>4. CASE status_clients
  BY Zenon, <1>1, <1>4, RegistrySteps DEF status_clients
<1>5. CASE status_visit
  BY <1>1, <1>5, LookupVisits DEF status_visit, At, Finding, BInv
<1>6. CASE \/ publish_lock(Cli) \/ publish_skip(Cli) \/ publish_wait(Cli) \/ publish_write(Cli)
           \/ publish_unlock(Cli, "idle")
  BY <1>1, <1>6, SharedRegistrySteps
<1>. QED  BY <1>2, <1>3, <1>4, <1>5, <1>6 DEF CliStep, CliWork, Finding

LEMMA CliTableSteps ==
  ASSUME IInv, BInv, CliStep
  PROVE  [psNext]_psVars
<1>1. Cli \in Thread
  BY Threads
<1>2. CASE \/ \E c \in load.typed : cli_input(c)
           \/ cli_find("find_subscribe", "subscribe") \/ cli_find("find_unsubscribe", "unsubscribe")
           \/ cli_set \/ status_clients
  BY Zenon, <1>2 DEF cli_input, cli_find, cli_set, status_clients
<1>3. CASE cli_subscribe \/ cli_unsubscribe
  <2>1. local[Cli].fd \in SubscriberFd /\ local[Cli].topic \in Topic
    BY <1>1, <1>3 DEF cli_subscribe, cli_unsubscribe, At, BInv, BTypes, Locals, Positions,
         PositionOf, SubscriberFd
  <2>. QED  BY <1>3, <2>1, TableSteps DEF cli_subscribe, cli_unsubscribe
<1>4. CASE status_lock \/ status_visit \/ status_turn \/ status_unlock
  BY <1>1, <1>4, TableSteps DEF status_lock, status_visit, status_turn, status_unlock
<1>. QED  BY <1>1, <1>2, <1>3, <1>4, SharedTableSteps DEF CliStep, CliWork

----------------------------------------------------------------------------
(* The epoll thread. *)

\* A new connection gets a descriptor that is in no one's hands.
LEMMA AcceptKeeps ==
  ASSUME IInv, BInv, NEW f \in Fd, NEW kind \in {"vault", "lobby"}, NEW q \in Peers,
         q.cn \in Hostname, accept(f, kind), peer' = [peer EXCEPT ![accepted'] = q],
         \/ kind = "vault" /\ epoll' = epoll
         \/ kind = "lobby" /\ epoll' = [epoll EXCEPT ![f] = "lobby"],
         session' \in [Client -> Sessions], OthersStay(Main), at'[Main] # "asking",
         UNCHANGED <<pc, local, queue, main_task, tmp, issued, load>>
  PROVE  BInv'
<1>1. /\ sock[f] = Closed /\ accepted' = accepted + 1 /\ accepted' \in Conn /\ accepted \in Nat
      /\ sock' = [sock EXCEPT ![f] = [kind |-> kind, conn |-> accepted']]
  BY ConnBound, SMT DEF IInv, cmTypeOK, accept, Conn
<1>2. BTypes'
  BY <1>1 DEF BInv, BTypes
<1>3. Positions'
  <2>1. Main \in Thread /\ Main \notin Worker /\ Main # Heartbeat /\ Main # Cli
    BY Threads
  <2>. QED  BY <2>1 DEF BInv, Positions, PositionOf, OthersStay
<1>4. /\ \A n \in 1 .. accepted : n \in 1 .. accepted' /\ peer'[n] = peer[n]
      /\ peer'[accepted'].cn \in Hostname
  BY <1>1, AcceptedIsConn, SMT DEF BInv, BTypes
<1>5. /\ sock'[f] = [kind |-> kind, conn |-> accepted']
      /\ \A g \in Fd : g # f => sock'[g] = sock[g]
  BY <1>1 DEF IInv, cmTypeOK
<1>6. SocketsHavePeers'
  <2>1. sock'[f].conn \in 1 .. accepted' /\ peer'[sock'[f].conn].cn \in Hostname
    BY <1>1, <1>4, <1>5, SMT
  <2>2. ASSUME NEW g \in Fd, g # f, sock'[g] # Closed
        PROVE  sock'[g].conn \in 1 .. accepted' /\ peer'[sock'[g].conn].cn \in Hostname
    BY <1>4, <1>5, <2>2, SMT DEF BInv, SocketsHavePeers
  <2>. QED  BY <2>1, <2>2 DEF SocketsHavePeers, Closed
<1>7. ~Armed(f) /\ ~Dispatched(f) /\ ~Queued(f) /\ ~Served(f)
  BY <1>1, SMT DEF BInv, LobbyOwned, Closed
<1>8. ASSUME NEW g \in Fd
      PROVE  /\ g # f => (Armed(g)' <=> Armed(g))
             /\ kind = "vault" => (Armed(g)' <=> Armed(g))
             /\ Dispatched(g)' <=> Dispatched(g)
             /\ Queued(g)' <=> Queued(g)
             /\ Served(g)' <=> Served(g)
             /\ \A w \in Worker : Serves(w, g)' <=> Serves(w, g)
  BY DEF Armed, Dispatched, Queued, LobbyTask, Served, Serves, BInv, BTypes
<1>9. LobbyOwned'
  <2>1. \A g \in Fd : \A i, j \in 1 .. Len(queue') :
          queue'[i] = LobbyTask(g)' /\ queue'[j] = LobbyTask(g)' => i = j
    BY DEF BInv, LobbyOwned, LobbyTask
  <2>2. Armed(f)' => sock'[f].kind = "lobby"
    BY <1>5, <1>7, <1>8, SMT
  <2>. QED  BY <1>5, <1>7, <1>8, <2>1, <2>2 DEF BInv, LobbyOwned
<1>10. \A n : Verified(n) => Verified(n)' /\ peer'[n].cn = peer[n].cn
  BY <1>4 DEF Verified
<1>11. FilesOwned'
  <2>1. ASSUME NEW w \in Worker, pc[w] \in {"sign", "certificate"}
        PROVE  Requester(w)' = Requester(w)
    <3>1. local[w].fd \in Fd
      BY <2>1, Threads DEF BInv, Positions, PositionOf
    <3>2. local[w].fd # f
      BY <1>7, <2>1 DEF Served, Serves, Enrolling
    <3>. QED  BY <1>5, <3>1, <3>2 DEF Requester
  <2>. QED  BY <1>10, <2>1 DEF BInv, FilesOwned
<1>12. IssuedToOwner'
  BY <1>10 DEF BInv, IssuedToOwner
<1>. QED  BY <1>2, <1>3, <1>6, <1>9, <1>11, <1>12 DEF BInv

LEMMA NewPeer ==
  ASSUME NEW cn \in Hostname, NEW a \in Address, NEW s \in Seq(Chunks)
  PROVE  /\ [NoPeer EXCEPT !.cn = cn, !.addr = a, !.unsent = s] \in Peers
         /\ [NoPeer EXCEPT !.cn = cn, !.addr = a, !.unsent = s].cn \in Hostname
<1>. DEFINE named == [NoPeer EXCEPT !.cn = cn]
            placed == [named EXCEPT !.addr = a]
            q == [placed EXCEPT !.unsent = s]
<1>1. NoPeer \in Peers
  BY SMT DEF NoPeer, Peers, Host
<1>2. named \in Peers /\ named.cn = cn
  BY <1>1 DEF Peers, Host
<1>3. placed \in Peers /\ placed.cn = named.cn
  <2>. HIDE DEF named
  <2>. QED  BY <1>2 DEF Peers
<1>4. q \in Peers /\ q.cn = placed.cn
  <2>. HIDE DEF placed
  <2>. QED  BY <1>3 DEF Peers
<1>5. q = [NoPeer EXCEPT !.cn = cn, !.addr = a, !.unsent = s]
  OBVIOUS
<1>. QED  BY <1>2, <1>3, <1>4, <1>5

LEMMA MainAcceptKeeps ==
  ASSUME IInv, BInv, MainAccept
  PROVE  BInv'
<1>1. Main \in Thread /\ load \in Workloads /\ load.addrs \subseteq Address /\
      load.scripts \subseteq Seq(Chunks)
  BY Threads, LoadStays DEF Workloads
<1>2. ASSUME NEW f \in Fd, NEW cn \in Hostname, NEW a \in load.addrs, NEW kind \in {"csr", "other"},
             main_accept_lobby(f, cn, a, kind)
      PROVE  BInv'
  <2>. DEFINE q == [NoPeer EXCEPT !.cn = cn, !.addr = a,
                                 !.unsent = <<[kind |-> kind, lines |-> <<>>]>>]
  <2>1. [kind |-> kind, lines |-> <<>>] \in Chunks
    BY SMT DEF Chunks
  <2>2. <<[kind |-> kind, lines |-> <<>>]>> \in Seq(Chunks)
    BY <2>1, SMT
  <2>3. q \in Peers /\ q.cn \in Hostname
    BY Zenon, <1>1, <2>2, NewPeer
  <2>4. accept(f, "lobby") /\ UNCHANGED at
    BY <1>2 DEF main_accept_lobby, accept_lobby
  <2>5. OthersStay(Main) /\ at'[Main] # "asking"
    BY <1>2, <2>4 DEF OthersStay, main_accept_lobby, MainFree
  <2>. QED  BY Zenon, <1>2, <2>3, <2>4, <2>5, AcceptKeeps DEF main_accept_lobby, Arm, BInv, BTypes,
                 dataVars, enrollVars
<1>3. ASSUME NEW f \in Fd, NEW cn \in Hostname, NEW a \in load.addrs, NEW p \in Client,
             NEW s \in load.scripts, main_accept_vault(f, p, cn, a, s)
      PROVE  BInv'
  <2>. DEFINE q == [NoPeer EXCEPT !.cn = cn, !.addr = a, !.unsent = s]
  <2>1. s \in Seq(Chunks)
    BY <1>1
  <2>2. q \in Peers /\ q.cn \in Hostname
    BY Zenon, <1>1, <2>1, NewPeer
  <2>3. accept(f, "vault") /\ OthersStay(Main) /\ at'[Main] # "asking"
    BY Zenon, <1>1, <1>3, RegistryMoves DEF main_accept_vault, accept_vault
  <2>4. session' \in [Client -> Sessions]
    BY <1>3, SMT DEF main_accept_vault, BInv, BTypes, Sessions, NoSession
  <2>. QED  BY Zenon, <1>3, <2>2, <2>3, <2>4, AcceptKeeps DEF main_accept_vault, dataVars, enrollVars
<1>. QED  BY <1>2, <1>3 DEF MainAccept

\* The event of a descriptor becomes a task.
LEMMA DispatchKeeps ==
  ASSUME IInv, BInv, NEW f \in Fd, main_dispatch(f)
  PROVE  BInv'
<1>. DEFINE task == [conn_type |-> epoll[f], client_fd |-> f]
<1>1. /\ main_task = NULL /\ epoll[f] \in {"vault", "lobby"} /\ main_task' = task
      /\ epoll' = [epoll EXCEPT ![f] = "off"]
      /\ UNCHANGED <<cmVars, pc, local, session, queue, peer, tmp, issued, load>>
  BY DEF main_dispatch, MainFree, dataVars, enrollVars
<1>2. UNCHANGED <<sock, accepted, at>>
  BY <1>1 DEF cmVars
<1>3. task \in Tasks
  BY <1>1 DEF Tasks
<1>4. BTypes'
  BY <1>1, <1>3 DEF BInv, BTypes
<1>5. Positions'
  BY <1>1, <1>2 DEF BInv, Positions, PositionOf
<1>6. SameIdentities
  BY <1>1 DEF SameIdentities
<1>7. SocketsHavePeers' /\ IssuedToOwner' /\ FilesOwned'
  BY <1>1, <1>2, <1>6, QuietSockets, StaysVerified DEF BInv, IssuedToOwner, FilesOwned, Requester
<1>8. ASSUME NEW g \in Fd
      PROVE  /\ Armed(g)' => Armed(g) /\ g # f
             /\ Dispatched(g)' => g = f /\ Armed(g)
             /\ Queued(g)' <=> Queued(g)
             /\ Served(g)' <=> Served(g)
             /\ \A w \in Worker : Serves(w, g)' <=> Serves(w, g)
  <2>1. Armed(g)' => Armed(g) /\ g # f
    BY <1>1 DEF Armed, BInv, BTypes
  <2>2. Dispatched(g)' => g = f /\ Armed(g)
    BY <1>1 DEF Dispatched, Armed, LobbyTask
  <2>. QED  BY <1>1, <2>1, <2>2 DEF Queued, LobbyTask, Served, Serves
<1>9. LobbyOwned'
  <2>1. \A g \in Fd : \A i, j \in 1 .. Len(queue') :
          queue'[i] = LobbyTask(g)' /\ queue'[j] = LobbyTask(g)' => i = j
    BY <1>1 DEF BInv, LobbyOwned, LobbyTask
  <2>. QED  BY <1>2, <1>8, <2>1 DEF BInv, LobbyOwned
<1>. QED  BY <1>4, <1>5, <1>7, <1>9 DEF BInv

LEMMA QueueWriteKeeps ==
  ASSUME IInv, BInv, main_queue_write
  PROVE  BInv'
<1>1. /\ main_task # NULL /\ main_task \in Tasks /\ main_task' = NULL
      /\ queue \in Seq(Tasks) /\ Len(queue) \in Nat /\ queue' = Append(queue, main_task)
      /\ UNCHANGED <<cmVars, pc, local, session, epoll, peer, tmp, issued, load>>
  BY SMT DEF main_queue_write, dataVars, enrollVars, BInv, BTypes
<1>2. UNCHANGED <<sock, accepted, at>>
  BY <1>1 DEF cmVars
<1>3. /\ queue' \in Seq(Tasks) /\ Len(queue') = Len(queue) + 1
      /\ \A i \in 1 .. Len(queue') : \/ i \in 1 .. Len(queue) /\ queue'[i] = queue[i]
                                     \/ i = Len(queue) + 1 /\ queue'[i] = main_task
  BY <1>1, SMT
<1>4. BTypes'
  BY <1>1, <1>3 DEF BInv, BTypes
<1>5. Positions'
  BY <1>1, <1>2 DEF BInv, Positions, PositionOf
<1>6. SameIdentities
  BY <1>1 DEF SameIdentities
<1>7. SocketsHavePeers' /\ IssuedToOwner' /\ FilesOwned'
  BY <1>1, <1>2, <1>6, QuietSockets, StaysVerified DEF BInv, IssuedToOwner, FilesOwned, Requester
<1>8. ASSUME NEW g \in Fd
      PROVE  /\ Armed(g)' <=> Armed(g)
             /\ ~Dispatched(g)'
             /\ Queued(g)' => Queued(g) \/ Dispatched(g)
             /\ Served(g)' <=> Served(g)
             /\ \A w \in Worker : Serves(w, g)' <=> Serves(w, g)
  <2>1. ~Dispatched(g)'
    <3>1. LobbyTask(g) \in Tasks
      BY DEF LobbyTask, Tasks
    <3>. QED  BY <1>1, <3>1, NullIsNoTask DEF Dispatched, LobbyTask
  <2>2. Queued(g)' => Queued(g) \/ Dispatched(g)
    BY <1>3 DEF Queued, Dispatched, LobbyTask
  <2>. QED  BY <1>1, <2>1, <2>2 DEF Armed, Served, Serves
<1>9. ASSUME NEW g \in Fd, NEW i \in 1 .. Len(queue'), NEW j \in 1 .. Len(queue'),
             queue'[i] = LobbyTask(g), queue'[j] = LobbyTask(g)
      PROVE  i = j
  BY <1>3, <1>9 DEF BInv, LobbyOwned, Dispatched, Queued
<1>10. LobbyOwned'
  <2>1. ASSUME NEW g \in Fd
        PROVE  /\ Armed(g)' \/ Dispatched(g)' \/ Queued(g)' \/ Served(g)' => sock'[g].kind = "lobby"
               /\ Armed(g)' => ~Dispatched(g)' /\ ~Queued(g)' /\ ~Served(g)'
               /\ Dispatched(g)' => ~Queued(g)' /\ ~Served(g)'
               /\ Queued(g)' => ~Served(g)'
               /\ \A w, u \in Worker : Serves(w, g)' /\ Serves(u, g)' => w = u
    BY <1>2, <1>8 DEF BInv, LobbyOwned
  <2>. QED  BY <1>9, <2>1 DEF LobbyOwned, LobbyTask
<1>. QED  BY <1>4, <1>5, <1>7, <1>10 DEF BInv

LEMMA ClientAddKeeps ==
  ASSUME IInv, BInv, main_client_add
  PROVE  BInv'
<1>1. Main \in Thread /\ Main \notin Worker /\ Main # Heartbeat /\ Main # Cli
  BY Threads
<1>2. OthersStay(Main) /\ at'[Main] = "out" /\ sock' = sock /\ accepted' = accepted
  BY <1>1, RegistryMoves, SameSockets DEF main_client_add
<1>3. UNCHANGED <<pc, local, session, queue, main_task, peer, tmp, issued, load>>
  BY DEF main_client_add, dataVars, enrollVars
<1>4. /\ epoll' \in [Fd -> {"none", "off", "vault", "lobby"}]
      /\ \A g \in Fd : epoll'[g] = "lobby" => epoll[g] = "lobby"
  BY Zenon DEF main_client_add, Arm, BInv, BTypes
<1>5. peer' \in [Conn -> Peers] /\ SameIdentities
  BY <1>3 DEF BInv, BTypes, SameIdentities
<1>6. PositionOf(Main)'
  BY <1>1, <1>2, <1>3 DEF BInv, Positions, PositionOf
<1>. QED  BY <1>1, <1>2, <1>3, <1>4, <1>5, <1>6, NoOneMoves

----------------------------------------------------------------------------
(* The peers, the heartbeat and the operator. *)

\* What a peer sends, or that it hangs up, does not change who it is.
LEMMA PeersStayThemselves ==
  ASSUME BInv, NEW n \in Conn, peer_send(n) \/ peer_close(n)
  PROVE  peer' \in [Conn -> Peers] /\ SameIdentities
<1>1. peer \in [Conn -> Peers] /\ peer[n] \in Peers
  BY DEF BInv, BTypes
<1>2. ASSUME NEW q \in Peers, q.cn = peer[n].cn, q.addr = peer[n].addr, peer' = [peer EXCEPT ![n] = q]
      PROVE  peer' \in [Conn -> Peers] /\ SameIdentities
  BY <1>1, <1>2 DEF SameIdentities
<1>3. CASE peer_send(n)
  <2>. DEFINE r == [peer[n] EXCEPT !.input = Append(@, Head(peer[n].unsent))]
              q == [r EXCEPT !.unsent = Tail(@)]
  <2>1. /\ peer[n].unsent \in Seq(Chunks) /\ peer[n].unsent # <<>>
        /\ peer[n].input \in Seq(Chunks)
    BY <1>1, <1>3 DEF Peers, peer_send
  <2>2. Append(peer[n].input, Head(peer[n].unsent)) \in Seq(Chunks) /\ Tail(peer[n].unsent) \in Seq(Chunks)
    BY <2>1, SMT
  <2>3. /\ r \in Peers /\ r.unsent = peer[n].unsent /\ r.cn = peer[n].cn
        /\ r.addr = peer[n].addr
    BY <1>1, <2>2 DEF Peers
  <2>4. q \in Peers /\ q.cn = peer[n].cn /\ q.addr = peer[n].addr
    <3>. HIDE DEF r
    <3>. QED  BY <2>2, <2>3 DEF Peers
  <2>5. peer' = [peer EXCEPT ![n] = q]
    BY <1>1, <1>3 DEF peer_send
  <2>. HIDE DEF q
  <2>. QED  BY <1>2, <2>4, <2>5
<1>4. CASE peer_close(n)
  <2>. DEFINE r == [peer[n] EXCEPT !.closed = TRUE]
              q == [r EXCEPT !.unsent = <<>>]
  <2>1. r \in Peers /\ r.cn = peer[n].cn /\ r.addr = peer[n].addr
    BY <1>1 DEF Peers
  <2>2. q \in Peers /\ q.cn = peer[n].cn /\ q.addr = peer[n].addr
    <3>. HIDE DEF r
    <3>1. \A e \in Seq(Chunks) : LET x == [r EXCEPT !.unsent = e]
                                IN  x \in Peers /\ x.cn = r.cn /\ x.addr = r.addr
      BY <2>1 DEF Peers
    <3>2. <<>> \in Seq(Chunks)
      BY SMT
    <3>. QED  BY <2>1, <3>1, <3>2
  <2>3. peer' = [peer EXCEPT ![n] = q]
    BY <1>1, <1>4 DEF peer_close
  <2>. HIDE DEF q
  <2>. QED  BY <1>2, <2>2, <2>3
<1>. QED  BY <1>3, <1>4

LEMMA PeersKeep ==
  ASSUME IInv, BInv, PeerStep
  PROVE  BInv'
<1>1. Main \in Thread /\ PositionOf(Main)
  BY Threads DEF BInv, Positions
<1>2. ASSUME UNCHANGED <<cmVars, pc, local, session, epoll, queue, main_task, tmp, issued, load>>,
             peer' \in [Conn -> Peers], SameIdentities
      PROVE  BInv'
  <2>1. OthersStay(Main) /\ at' = at /\ sock' = sock /\ accepted' = accepted
    BY <1>2 DEF OthersStay, cmVars
  <2>2. PositionOf(Main)'
    BY <1>1, <1>2, <2>1 DEF PositionOf
  <2>3. epoll' \in [Fd -> {"none", "off", "vault", "lobby"}] /\
        \A g \in Fd : epoll'[g] = "lobby" => epoll[g] = "lobby"
    BY <1>2 DEF BInv, BTypes
  <2>. QED  BY <1>1, <1>2, <2>1, <2>2, <2>3, NoOneMoves
<1>3. ASSUME NEW n \in Conn, peer_send(n) \/ peer_close(n)
      PROVE  BInv'
  <2>1. peer' \in [Conn -> Peers] /\ SameIdentities
    BY <1>3, PeersStayThemselves
  <2>. QED  BY <1>2, <1>3, <2>1 DEF peer_send, peer_close, dataVars, enrollVars
<1>4. ASSUME NEW p \in Client, client_silent(p)
      PROVE  BInv'
  <2>1. /\ UNCHANGED <<pc, local, session, netVars, enrollVars, load>>
        /\ at' = at /\ sock' = sock /\ accepted' = accepted
    BY <1>4 DEF client_silent, grow_idle, brokerVars, dataVars
  <2>2. OthersStay(Main) /\ PositionOf(Main)'
    BY <1>1, <2>1 DEF OthersStay, PositionOf
  <2>. QED  BY <1>1, <2>1, <2>2, StaysPut
<1>. QED  BY <1>3, <1>4 DEF PeerStep

LEMMA HeartbeatKeeps ==
  ASSUME IInv, BInv, HeartbeatStep
  PROVE  BInv'
<1>1. /\ Heartbeat \in Thread /\ Heartbeat \notin Worker /\ Heartbeat # Cli
      /\ load \in Workloads /\ PositionOf(Heartbeat) /\ local[Heartbeat] \in Locals
  BY Threads, LoadStays DEF BInv, BTypes, Positions
<1>2. ASSUME NEW b \in {"scan", "sweep", "idle"}, Goto(Heartbeat, b), OthersStay(Heartbeat),
             at'[Heartbeat] # "asking", sock' = sock, accepted' = accepted, load' \in Workloads,
             UNCHANGED <<session, netVars, dataVars>>
      PROVE  BInv'
  <2>1. Moves(Heartbeat, b, Carried(Heartbeat, b))
    BY <1>1, <1>2, GotoMoves DEF BInv, Places
  <2>2. PositionOf(Heartbeat)'
    BY <1>1, <1>2, <2>1 DEF PositionOf, Moves, Finding
  <2>. QED  BY <1>1, <1>2, <2>1, <2>2, JustMoves DEF dataVars, Enrolling
<1>3. CASE sweep_begin
  <2>1. load' \in Workloads
    <3>1. load.sweeps \in Nat \cup {-1}
      BY <1>1 DEF Workloads
    <3>2. (IF load.sweeps > 0 THEN load.sweeps - 1 ELSE load.sweeps) \in Nat \cup {-1}
      BY <3>1, SMT
    <3>. QED  BY <1>1, <1>3, <3>2 DEF sweep_begin, Workloads
  <2>. QED  BY <1>1, <1>2, <1>3, <2>1, RegistryMoves, SameSockets DEF sweep_begin
<1>4. CASE sweep_scanned
  BY <1>1, <1>2, <1>4, RegistryMoves, SameSockets DEF sweep_scanned
<1>5. CASE sweep_done
  <2>1. at[Heartbeat] # "asking"
    BY <1>1, <1>5 DEF PositionOf, sweep_done, At, Finding
  <2>. QED  BY <1>1, <1>2, <1>5, <2>1, RegistryMoves, SameSockets DEF sweep_done
<1>6. ASSUME NEW p \in Client, sweep_scan(p)
      PROVE  BInv'
  <2>1. /\ UNCHANGED <<pc, local, session, netVars, enrollVars, load>>
        /\ at' = at /\ sock' = sock /\ accepted' = accepted
    BY <1>6 DEF sweep_scan, walk_visit, brokerVars, dataVars
  <2>2. OthersStay(Heartbeat) /\ PositionOf(Heartbeat)'
    BY <1>1, <2>1 DEF OthersStay, PositionOf
  <2>. QED  BY <1>1, <2>1, <2>2, StaysPut
<1>7. ASSUME NEW e \in fds_to_remove, sweep_unsubscribe(e)
      PROVE  BInv'
  <2>. DEFINE l == [NoLocal EXCEPT !.fd = e[1], !.conn = e[2]]
  <2>1. e[1] \in Fd /\ e[2] \in 0 .. MaxConn
    BY <1>7, SMT DEF IInv, cmTypeOK, Conn
  <2>2. l \in Locals /\ l.fd \in Fd
    BY Zenon, <2>1, NoLocalType DEF Locals, NoLocal
  <2>3. Moves(Heartbeat, "remove", l)
    BY <1>1, <1>7, <2>2, GotoWithMoves DEF BInv, Places, sweep_unsubscribe
  <2>4. at' = at /\ sock' = sock /\ accepted' = accepted
    BY <1>7 DEF sweep_unsubscribe, sweep_next
  <2>5. at[Heartbeat] # "asking"
    BY <1>1, <1>7 DEF PositionOf, sweep_unsubscribe, At, Finding
  <2>6. OthersStay(Heartbeat) /\ PositionOf(Heartbeat)'
    BY <1>1, <2>2, <2>3, <2>4, <2>5 DEF OthersStay, PositionOf, Moves, Finding
  <2>. QED  BY <1>1, <1>7, <2>3, <2>4, <2>6, JustMoves, SMT DEF sweep_unsubscribe, dataVars, Enrolling
<1>8. CASE remove_unmap(Heartbeat, "sweep")
  BY <1>1, <1>8, SharedStepsKeep
<1>9. CASE remove_destroy(Heartbeat, "sweep")
  BY <1>1, <1>9, DestroyKeeps
<1>. QED  BY <1>3, <1>4, <1>5, <1>6, <1>7, <1>8, <1>9 DEF HeartbeatStep

LEMMA CliKeeps ==
  ASSUME IInv, BInv, CliStep
  PROVE  BInv'
<1>1. /\ Cli \in Thread /\ Cli \notin Worker /\ Heartbeat # Cli
      /\ load \in Workloads /\ PositionOf(Cli) /\ local[Cli] \in Locals
  BY Threads, LoadStays DEF BInv, BTypes, Positions
<1>2. ASSUME NEW b \in {"clients", "topics", "list", "idle"}, Goto(Cli, b), OthersStay(Cli),
             at'[Cli] # "asking", sock' = sock, accepted' = accepted,
             UNCHANGED <<session, netVars, enrollVars, load>>
      PROVE  BInv'
  <2>1. Moves(Cli, b, Carried(Cli, b))
    BY <1>1, <1>2, GotoMoves DEF BInv, Places
  <2>2. PositionOf(Cli)'
    BY <1>1, <1>2, <2>1 DEF PositionOf, Moves, Finding
  <2>. QED  BY <1>1, <1>2, <2>1, <2>2, JustMoves DEF Enrolling
<1>3. ASSUME NEW c \in load.typed, cli_input(c)
      PROVE  BInv'
  <2>. DEFINE r == [NoLocal EXCEPT !.topic = c.topic]
              l == [r EXCEPT !.cn = c.host]
  <2>1. /\ c.op \in {"status", "publish", "find_subscribe", "find_unsubscribe", "set"}
        /\ c.topic \in Topic \cup {NULL} /\ c.host \in Host
        /\ c.op = "publish" => c.topic \in Topic
        /\ c.op \in Finding => c.topic \in Topic /\ c.host \in Hostname
    BY <1>1, <1>3 DEF Workloads, TypedCommands, Host, Finding
  <2>2. r \in Locals /\ r.topic = c.topic
    BY <2>1, NoLocalType DEF Locals
  <2>3. l \in Locals /\ l.topic = c.topic /\ l.cn = c.host
    <3>. HIDE DEF r
    <3>. QED  BY <2>1, <2>2 DEF Locals
  <2>4. GotoWith(Cli, c.op, l)
    BY <1>3 DEF cli_input
  <2>5. Moves(Cli, c.op, l)
    <3>. HIDE DEF l
    <3>. QED  BY <1>1, <2>1, <2>3, <2>4, GotoWithMoves DEF BInv, Places
  <2>6. UNCHANGED <<cmVars, session, netVars, enrollVars>>
    BY <1>3 DEF cli_input, dataVars
  <2>7. OthersStay(Cli) /\ at' = at /\ sock' = sock /\ accepted' = accepted
    BY <2>6 DEF OthersStay, cmVars
  <2>8. at[Cli] # "asking"
    BY <1>1, <1>3 DEF PositionOf, cli_input, At, Finding
  <2>9. PositionOf(Cli)'
    <3>. HIDE DEF l
    <3>. QED  BY <1>1, <2>1, <2>3, <2>5, <2>7, <2>8 DEF PositionOf, Moves, Finding
  <2>10. load' \in Workloads
    <3>1. load.commands - 1 \in Nat
      BY <1>1, <1>3, SMT DEF cli_input, Workloads
    <3>. QED  BY <1>1, <1>3, <3>1 DEF cli_input, Workloads
  <2>11. c.op \notin Enrolling
    BY <2>1 DEF Enrolling
  <2>. QED
    <3>. HIDE DEF l
    <3>. QED  BY <1>1, <2>5, <2>6, <2>7, <2>9, <2>10, <2>11, JustMoves
<1>4. ASSUME NEW from \in Finding, NEW to \in {"subscribe", "unsubscribe"}, cli_find(from, to)
      PROVE  BInv'
  <2>. DEFINE p == host_key[local[Cli].cn]
  <2>1. local[Cli].cn \in Hostname /\ local[Cli].topic \in Topic /\ pc[Cli] \in Finding
    BY <1>1, <1>4 DEF PositionOf, cli_find, At
  <2>2. UNCHANGED <<session, netVars, enrollVars, load>>
    BY <1>4 DEF cli_find, dataVars
  <2>3. CASE at[Cli] = "out" /\ Goto(Cli, "idle") /\ UNCHANGED cmVars
    BY <1>1, <1>2, <2>2, <2>3, RegistryMoves, SameSockets
  <2>4. CASE get_wait(Cli, p, "asking") /\ UNCHANGED <<pc, local>>
    <3>1. OthersStay(Cli) /\ sock' = sock /\ accepted' = accepted
      BY <1>1, <2>4, RegistryMoves, SameSockets
    <3>2. PositionOf(Cli)'
      BY <1>1, <2>1, <2>4 DEF PositionOf, Finding
    <3>. QED  BY <1>1, <2>2, <2>4, <3>1, <3>2, StaysPut
  <2>5. CASE get_visit(Cli, p) /\ GotoWith(Cli, to, [local[Cli] EXCEPT !.fd = heap[Found(Cli, p)].fd])
    <3>. DEFINE l == [local[Cli] EXCEPT !.fd = heap[Found(Cli, p)].fd]
    <3>1. Found(Cli, p) \in Client
      BY <1>1, <2>1, <2>5 DEF get_visit, Found, IInv, cmTypeOK, WaitersKeepMap
    <3>2. l \in Locals /\ l.topic = local[Cli].topic
      BY <1>1, <3>1 DEF IInv, cmTypeOK, Structs, Locals
    <3>3. Moves(Cli, to, l)
      BY <1>1, <2>5, <3>2, GotoWithMoves DEF BInv, Places
    <3>4. OthersStay(Cli) /\ at'[Cli] = "out" /\ sock' = sock /\ accepted' = accepted
      BY <1>1, <2>5, RegistryMoves, SameSockets
    <3>5. PositionOf(Cli)'
      <4>. HIDE DEF l
      <4>. QED  BY <1>1, <2>1, <3>2, <3>3, <3>4 DEF PositionOf, Moves, Finding
    <3>. QED
      <4>. HIDE DEF l
      <4>. QED  BY <1>1, <2>2, <3>3, <3>4, <3>5, JustMoves DEF Enrolling
  <2>. QED  BY <1>4, <2>3, <2>4, <2>5 DEF cli_find
<1>5. CASE cli_subscribe \/ cli_unsubscribe \/ cli_set \/ status_lock \/ status_unlock
  <2>1. PICK b \in {"list", "idle"} : Goto(Cli, b)
    BY <1>5 DEF cli_subscribe, cli_unsubscribe, cli_set, status_lock, status_unlock
  <2>2. UNCHANGED <<cmVars, session, netVars, enrollVars, load>>
    BY <1>5 DEF cli_subscribe, cli_unsubscribe, cli_set, status_lock, status_unlock, dataVars
  <2>3. at[Cli] # "asking"
    BY <1>1, <1>5 DEF PositionOf, Finding, At, cli_subscribe, cli_unsubscribe, cli_set,
         status_lock, status_unlock
  <2>. QED  BY <1>1, <1>2, <2>1, <2>2, <2>3, RegistryMoves, SameSockets
<1>6. CASE status_clients
  <2>1. CASE \E p \in Client : walk_visit(Cli, p, FALSE) /\ UNCHANGED <<psVars, brokerVars>>
    <3>1. /\ UNCHANGED <<pc, local, session, netVars, enrollVars, load>>
          /\ at' = at /\ sock' = sock /\ accepted' = accepted
      BY <2>1 DEF walk_visit, brokerVars, dataVars
    <3>2. OthersStay(Cli) /\ PositionOf(Cli)'
      BY <1>1, <3>1 DEF OthersStay, PositionOf
    <3>. QED  BY <1>1, <3>1, <3>2, StaysPut
  <2>2. CASE /\ walk_begin(Cli) \/ walk_end(Cli)
             /\ Goto(Cli, "clients") \/ Goto(Cli, "topics")
             /\ UNCHANGED <<psVars, session, netVars, dataVars, load>>
    BY <1>1, <1>2, <2>2, RegistryMoves, SameSockets DEF dataVars
  <2>. QED  BY Zenon, <1>6, <2>1, <2>2 DEF status_clients
<1>7. CASE status_visit \/ status_turn
  <2>1. OthersStay(Cli) /\ at'[Cli] \in {at[Cli], "out"} /\ sock' = sock /\ accepted' = accepted
    BY <1>1, <1>7, RegistryMoves, SameSockets DEF status_visit, status_turn
  <2>2. UNCHANGED <<pc, local, session, netVars, enrollVars, load>> /\ pc[Cli] = "list"
    BY <1>7 DEF status_visit, status_turn, brokerVars, dataVars, At
  <2>3. PositionOf(Cli)'
    BY <1>1, <2>1, <2>2 DEF PositionOf, Finding
  <2>. QED  BY <1>1, <2>1, <2>2, <2>3, StaysPut
<1>8. CASE \/ publish_lock(Cli) \/ publish_skip(Cli) \/ publish_wait(Cli) \/ publish_write(Cli)
           \/ publish_unlock(Cli, "idle")
  BY <1>1, <1>8, SharedStepsKeep
<1>. QED  BY <1>3, <1>4, <1>5, <1>6, <1>7, <1>8 DEF CliStep, CliWork, Finding

----------------------------------------------------------------------------
(* What their steps leave alone. *)

\* The operator's thread touches neither tasks nor keys.
LEMMA CliTurns ==
  ASSUME IInv, BInv, AInv, CliStep
  PROVE  Moved(Cli) /\ Settled /\ SameKeys /\ epoll' = epoll
<1>1. Cli \in Thread /\ BTypes /\ Station(Cli) /\ Fanning(Cli) /\ Cli \notin Worker
  BY Stationed, Threads DEF BInv
<1>2. CASE \/ publish_lock(Cli) \/ publish_skip(Cli) \/ publish_wait(Cli) \/ publish_write(Cli)
           \/ publish_unlock(Cli, "idle")
  BY <1>2, PublishTurns
<1>3. ASSUME PcAlone(Cli), OthersKeep(Cli), TableCall(Cli), at'[Cli] = "out",
             pc'[Cli] \notin {"client", "commands", "destroy", "copy_hostname", "clients",
                              "fanout", "list"}
      PROVE  Moved(Cli)
  BY <1>1, <1>3, OutStation DEF Moved
<1>4. ASSUME UNCHANGED cmVars
      PROVE  OthersKeep(Cli) /\ SameKeys /\ at'[Cli] = at[Cli]
  BY Zenon, <1>1, <1>4, RegistryFrames DEF KeylessCall, SameKeys, cmVars
<1>5. CASE \E c \in load.typed : cli_input(c)
  <2>1. PICK c \in load.typed : cli_input(c)
    BY <1>5
  <2>2. c.op \in {"status", "publish", "find_subscribe", "find_unsubscribe", "set"}
    <3>1. c \in TypedCommands
      BY <1>1 DEF BTypes, Workloads
    <3>. QED  BY <3>1 DEF TypedCommands
  <2>3. PcAlone(Cli) /\ pc'[Cli] = c.op
    BY <1>1, <2>1, GotoEffect DEF cli_input
  <2>4. pc[Cli] = "idle" /\ UNCHANGED cmVars /\ UNCHANGED psVars /\ Settled /\ epoll' = epoll
    BY <2>1 DEF cli_input, At, netVars, Settled
  <2>. QED  BY <1>1, <1>3, <1>4, <2>2, <2>3, <2>4 DEF TableCall, Station, Finding
<1>6. ASSUME NEW from \in Finding, NEW to \in {"subscribe", "unsubscribe"}, cli_find(from, to)
      PROVE  Moved(Cli) /\ Settled /\ SameKeys /\ epoll' = epoll
  <2>. DEFINE p == host_key[local[Cli].cn]
  <2>1. pc[Cli] = from /\ UNCHANGED psVars /\ Settled /\ epoll' = epoll
    BY <1>6 DEF cli_find, At, netVars, Settled
  <2>2. CASE at[Cli] = "out" /\ UNCHANGED cmVars /\ Goto(Cli, "idle")
    <3>1. PcAlone(Cli) /\ pc'[Cli] = "idle"
      BY <1>1, <2>2, GotoEffect
    <3>. QED  BY <1>3, <1>4, <2>1, <2>2, <3>1 DEF TableCall
  <2>3. CASE get_wait(Cli, p, "asking") /\ UNCHANGED <<pc, local>>
    <3>1. PcAlone(Cli) /\ pc'[Cli] = from
      BY <1>1, <2>1, <2>3, GotoEffect
    <3>2. OthersKeep(Cli) /\ SameKeys /\ at'[Cli] = "asking"
      BY Zenon, <1>1, <2>3, RegistryMoves, RegistryFrames DEF KeylessCall, SameKeys
    <3>. QED  BY <1>1, <2>1, <3>1, <3>2 DEF Moved, TableCall, Station, Fanning, Finding
  <2>4. CASE get_visit(Cli, p) /\ \E l : GotoWith(Cli, to, l)
    <3>1. PcAlone(Cli) /\ pc'[Cli] = to
      BY <1>1, <2>4, GotoEffect
    <3>2. OthersKeep(Cli) /\ SameKeys /\ at'[Cli] = "out"
      BY Zenon, <1>1, <2>4, RegistryMoves, RegistryFrames DEF KeylessCall, SameKeys
    <3>. QED  BY <1>3, <2>1, <3>1, <3>2 DEF TableCall
  <2>. QED  BY Zenon, <1>6, <2>2, <2>3, <2>4 DEF cli_find
<1>7. CASE cli_subscribe \/ cli_unsubscribe \/ cli_set
  <2>1. /\ pc[Cli] \in {"subscribe", "unsubscribe", "set"} /\ UNCHANGED cmVars /\ Settled
        /\ epoll' = epoll /\ Goto(Cli, "idle") /\ TableCall(Cli)
    BY Zenon, <1>7 DEF cli_subscribe, cli_unsubscribe, cli_set, At, netVars, Settled, TableCall
  <2>2. PcAlone(Cli) /\ pc'[Cli] = "idle"
    BY <1>1, <2>1, GotoEffect
  <2>. QED  BY <1>1, <1>3, <1>4, <2>1, <2>2 DEF Station, Finding
<1>8. CASE status_clients
  <2>1. UNCHANGED psVars /\ Settled /\ epoll' = epoll
    BY Zenon, <1>8 DEF status_clients, netVars, brokerVars, Settled
  <2>2. \/ pc[Cli] = "status" /\ walk_begin(Cli) /\ Goto(Cli, "clients")
        \/ pc[Cli] = "clients" /\ (\E p : walk_visit(Cli, p, FALSE)) /\ UNCHANGED <<pc, local>>
        \/ walk_end(Cli) /\ Goto(Cli, "topics")
    BY Zenon, <1>8 DEF status_clients, At, brokerVars
  <2>3. OthersKeep(Cli) /\ SameKeys
    BY Zenon, <1>1, <2>2, RegistryFrames DEF KeylessCall, SameKeys
  <2>4. CASE pc[Cli] = "clients" /\ (\E p : walk_visit(Cli, p, FALSE)) /\ UNCHANGED <<pc, local>>
    <3>1. at'[Cli] = "walking"
      BY <2>4 DEF walk_visit
    <3>2. PcAlone(Cli) /\ pc'[Cli] = "clients"
      BY <1>1, <2>4, GotoEffect
    <3>. QED  BY <1>1, <2>1, <2>3, <3>1, <3>2 DEF Moved, TableCall, Station, Fanning, Finding
  <2>5. CASE pc[Cli] = "status" /\ walk_begin(Cli) /\ Goto(Cli, "clients")
    <3>1. at'[Cli] = "walking"
      BY Zenon, <1>1, <2>5, RegistryMoves
    <3>2. PcAlone(Cli) /\ pc'[Cli] = "clients"
      BY <1>1, <2>5, GotoEffect
    <3>. QED  BY <1>1, <2>1, <2>3, <3>1, <3>2 DEF Moved, TableCall, Station, Fanning, Finding
  <2>6. CASE walk_end(Cli) /\ Goto(Cli, "topics")
    <3>1. at'[Cli] = "out"
      BY Zenon, <1>1, <2>6, RegistryMoves
    <3>2. PcAlone(Cli) /\ pc'[Cli] = "topics"
      BY <1>1, <2>6, GotoEffect
    <3>. QED  BY <1>3, <2>1, <2>3, <3>1, <3>2 DEF TableCall
  <2>. QED  BY Zenon, <2>2, <2>4, <2>5, <2>6
<1>9. ASSUME PcAlone(Cli), OthersKeep(Cli), TableCall(Cli), at'[Cli] = "out", pc'[Cli] = "list",
             pubsub_lock' = Cli
      PROVE  Moved(Cli)
  BY <1>1, <1>9 DEF Moved, Station, Fanning, Finding
<1>10. CASE status_lock
  <2>1. /\ pc[Cli] = "topics" /\ UNCHANGED cmVars /\ Settled /\ epoll' = epoll /\ Goto(Cli, "list")
        /\ TableCall(Cli) /\ pubsub_lock' = Cli
    BY Zenon, <1>10 DEF status_lock, At, netVars, Settled, TableCall, status_begin
  <2>2. PcAlone(Cli) /\ pc'[Cli] = "list"
    BY <1>1, <2>1, GotoEffect
  <2>. QED  BY <1>1, <1>4, <1>9, <2>1, <2>2 DEF Station, Finding
<1>11. CASE status_visit \/ status_turn
  <2>1. /\ pc[Cli] = "list" /\ Settled /\ epoll' = epoll /\ UNCHANGED <<pc, local>>
        /\ publish_next(Cli) \/ status_next_topic(Cli)
        /\ (UNCHANGED cmVars /\ ~AtSubscriber(Cli)) \/ \E p : get_visit(Cli, p)
    BY Zenon, <1>11 DEF status_visit, status_turn, At, brokerVars, netVars, Settled, status_next_topic
  <2>2. PcAlone(Cli) /\ pc'[Cli] = "list"
    BY <1>1, <2>1, GotoEffect
  <2>3. pubsub_lock' = Cli /\ TableCall(Cli)
    BY <1>1, <2>1 DEF Fanning, publish_next, status_next_topic, TableCall
  <2>4. CASE UNCHANGED cmVars /\ ~AtSubscriber(Cli)
    BY <1>1, <1>4, <1>9, <2>1, <2>2, <2>3, <2>4 DEF Station, Fanning
  <2>5. CASE \E p : get_visit(Cli, p)
    <3>1. OthersKeep(Cli) /\ SameKeys /\ at'[Cli] = "out"
      BY Zenon, <1>1, <2>5, RegistryMoves, RegistryFrames DEF KeylessCall, SameKeys
    <3>. QED  BY <1>9, <2>1, <2>2, <2>3, <3>1
  <2>. QED  BY <2>1, <2>4, <2>5
<1>12. CASE status_unlock
  <2>1. /\ pc[Cli] = "list" /\ UNCHANGED cmVars /\ Settled /\ epoll' = epoll /\ Goto(Cli, "idle")
        /\ publish_end(Cli)
    BY <1>12 DEF status_unlock, At, netVars, Settled
  <2>2. PcAlone(Cli) /\ pc'[Cli] = "idle"
    BY <1>1, <2>1, GotoEffect
  <2>3. at[Cli] = "out" /\ TableCall(Cli)
    BY <1>1, <2>1 DEF Fanning, Station, publish_end, TableCall
  <2>. QED  BY <1>3, <1>4, <2>1, <2>2, <2>3
<1>. QED  BY Zenon, <1>2, <1>5, <1>6, <1>7, <1>8, <1>10, <1>11, <1>12 DEF CliStep, CliWork, Finding

\* The heartbeat takes clients out of the registry and closes them.
LEMMA HeartbeatTurns ==
  ASSUME IInv, BInv, HeartbeatStep
  PROVE  /\ Moved(Heartbeat) /\ Settled
         /\ \/ SameKeys /\ epoll' = epoll
            \/ epoll' = epoll /\ \E f \in Fd : fd_key' = [fd_key EXCEPT ![f] = NULL]
            \/ SameKeys /\ \E f \in Fd : fd_key[f] = NULL /\ Unregister(f)
<1>1. Heartbeat \in Thread /\ BTypes /\ Heartbeat \notin Worker
  BY Threads DEF BInv
<1>2. ASSUME PcAlone(Heartbeat), TableCall(Heartbeat), OthersKeep(Heartbeat)
      PROVE  Moved(Heartbeat)
  BY <1>1, <1>2 DEF Moved
<1>3. CASE \/ sweep_begin \/ sweep_scanned \/ sweep_done \/ (\E p \in Client : sweep_scan(p))
           \/ \E e \in fds_to_remove : sweep_unsubscribe(e)
  <2>1. Settled /\ epoll' = epoll /\ TableCall(Heartbeat)
    BY Zenon, <1>3 DEF sweep_begin, sweep_scanned, sweep_done, sweep_scan, sweep_unsubscribe,
         netVars, brokerVars, Settled, TableCall
  <2>2. \/ (\E b : Goto(Heartbeat, b)) \/ (\E b, l : GotoWith(Heartbeat, b, l))
        \/ UNCHANGED <<pc, local>>
    BY Zenon, <1>3 DEF sweep_begin, sweep_scanned, sweep_done, sweep_scan, sweep_unsubscribe,
         brokerVars
  <2>3. PcAlone(Heartbeat)
    BY <1>1, <2>2, GotoEffect
  <2>4. KeylessCall(Heartbeat)
    BY Zenon, <1>3 DEF sweep_begin, sweep_scanned, sweep_done, sweep_scan, sweep_unsubscribe,
         KeylessCall
  <2>. QED  BY <1>1, <1>2, <2>1, <2>3, <2>4, RegistryFrames DEF SameKeys
<1>4. CASE remove_unmap(Heartbeat, "sweep")
  <2>. DEFINE f == local[Heartbeat].fd
  <2>1. /\ Settled /\ epoll' = epoll /\ TableCall(Heartbeat) /\ client_remove(Heartbeat, f)
        /\ \E b : Goto(Heartbeat, b)
    BY Zenon, <1>4 DEF remove_unmap, netVars, Settled, TableCall
  <2>2. f \in Fd
    BY <1>1, <1>4 DEF remove_unmap, At, BInv, Positions, PositionOf
  <2>3. PcAlone(Heartbeat)
    BY <1>1, <2>1, GotoEffect
  <2>4. OthersKeep(Heartbeat)
    BY <1>1, <2>1, RegistryFrames
  <2>5. SameKeys \/ fd_key' = [fd_key EXCEPT ![f] = NULL]
    BY <2>1 DEF client_remove, del_fd_key, SameKeys
  <2>. QED  BY <1>2, <2>1, <2>2, <2>3, <2>4, <2>5
<1>5. CASE remove_destroy(Heartbeat, "sweep")
  <2>1. /\ Settled /\ TableCall(Heartbeat) /\ client_remove_destroy(Heartbeat)
        /\ \E b : Goto(Heartbeat, b)
    BY Zenon, <1>5 DEF remove_destroy, netVars, Settled, TableCall
  <2>2. PcAlone(Heartbeat)
    BY <1>1, <2>1, GotoEffect
  <2>3. OthersKeep(Heartbeat) /\ SameKeys
    BY Zenon, <1>1, <2>1, RegistryFrames DEF KeylessCall, SameKeys
  <2>4. Private(Heartbeat)
    BY <2>1 DEF Private, client_remove_destroy
  <2>5. heap[ptr[Heartbeat]].fd \in Fd /\ fd_key[heap[ptr[Heartbeat]].fd] = NULL
    BY <1>1, <2>4, PrivateHasNoKey
  <2>6. Unregister(heap[ptr[Heartbeat]].fd)
    BY <1>5 DEF remove_destroy
  <2>. QED  BY <1>2, <2>1, <2>2, <2>3, <2>5, <2>6
<1>. QED  BY <1>3, <1>4, <1>5 DEF HeartbeatStep

\* The epoll thread, the peers and time move no other thread.
LEMMA MainMoves ==
  ASSUME IInv, BInv, MainStep \/ MainAccept \/ PeerStep \/ UNCHANGED vars
  PROVE  Moved(Main) /\ UNCHANGED <<pc, local>>
<1>1. Main \in Thread /\ BTypes /\ Main \notin Worker
  BY Threads DEF BInv
<1>2. UNCHANGED <<pc, local>> /\ UNCHANGED psVars
  BY Zenon DEF MainStep, MainAccept, PeerStep, main_client_add, main_queue_write, main_dispatch,
       main_accept_lobby, main_accept_vault, peer_send, peer_close, client_silent, vars, brokerVars
<1>3. KeylessCall(Main) \/ client_add(Main)
  BY Zenon DEF MainStep, MainAccept, PeerStep, main_client_add, main_queue_write, main_dispatch,
       main_accept_lobby, main_accept_vault, peer_send, peer_close, client_silent, vars, KeylessCall
<1>4. OthersKeep(Main)
  BY <1>1, <1>3, RegistryFrames
<1>5. PcAlone(Main)
  BY <1>1, <1>2, GotoEffect
<1>. QED  BY <1>1, <1>2, <1>4, <1>5 DEF Moved, TableCall

----------------------------------------------------------------------------
(* They forget no client. *)

\* The heartbeat only takes clients away, and the operator does nothing to them.
LEMMA OthersKeepWakeup ==
  ASSUME IInv, BInv, AInv, WInv, CliStep \/ HeartbeatStep
  PROVE  WInv'
<1>1. /\ epoll \in [Fd -> {"none", "off", "vault", "lobby"}]
      /\ fd_key \in [Fd -> Client \cup {NULL}] /\ Cli \in Thread /\ Heartbeat \in Thread
      /\ Cli \notin Worker /\ Heartbeat \notin Worker
  BY Threads DEF BInv, BTypes, IInv, cmTypeOK
<1>2. PICK t \in {Cli, Heartbeat} :
        /\ PcAlone(t) /\ Settled
        /\ \/ SameKeys /\ epoll' = epoll
           \/ epoll' = epoll /\ \E g \in Fd : fd_key' = [fd_key EXCEPT ![g] = NULL]
           \/ SameKeys /\ \E g \in Fd : fd_key[g] = NULL /\ Unregister(g)
  BY CliTurns, HeartbeatTurns DEF Moved
<1>. SUFFICES ASSUME NEW f \in Fd, fd_key'[f] # NULL
              PROVE  Woken(f)'
  BY DEF WInv, Woken
<1>3. fd_key[f] # NULL /\ epoll'[f] = epoll[f]
  BY <1>1, <1>2 DEF SameKeys, Unregister
<1>4. Woken(f)
  BY <1>3 DEF WInv
<1>5. /\ QueuedFor(f) => QueuedFor(f)'
      /\ \A u \in Worker : Working(u, f) => Working(u, f)'
  BY <1>1, <1>2, OthersWork
<1>. QED  BY <1>3, <1>4, <1>5 DEF Woken

LEMMA MainKeepsWakeup ==
  ASSUME IInv, BInv, WInv, MainStep \/ MainAccept \/ PeerStep \/ UNCHANGED vars
  PROVE  WInv'
<1>1. /\ epoll \in [Fd -> {"none", "off", "vault", "lobby"}] /\ queue \in Seq(Tasks)
      /\ main_task \in Tasks \cup {NULL} /\ fd_key \in [Fd -> Client \cup {NULL}]
      /\ Main \in Thread
  BY Threads DEF BInv, BTypes, IInv, cmTypeOK
<1>2. \A f : \A u \in Worker : Working(u, f) => Working(u, f)'
  BY MainMoves DEF Working
<1>. SUFFICES ASSUME NEW f \in Fd, fd_key'[f] # NULL
              PROVE  Woken(f)'
  BY DEF WInv, Woken
<1>3. ASSUME epoll'[f] = epoll[f], SameKeys, Settled
      PROVE  Woken(f)'
  <2>1. Woken(f)
    BY <1>3 DEF WInv, SameKeys
  <2>. QED  BY <1>2, <1>3, <2>1 DEF Woken, QueuedFor, Settled
<1>4. CASE main_client_add
  <2>1. /\ at[Main] = "adding" /\ Settled /\ epoll' = [epoll EXCEPT ![heap[ptr[Main]].fd] = "vault"]
        /\ fd_key' = [fd_key EXCEPT ![heap[ptr[Main]].fd] = ptr[Main]]
    BY <1>4 DEF main_client_add, Arm, client_add, Settled
  <2>2. heap[ptr[Main]].fd \in Fd
    BY <1>1, <2>1, PrivateHasNoKey DEF Private
  <2>3. CASE f = heap[ptr[Main]].fd
    BY <1>1, <2>1, <2>2, <2>3 DEF Woken
  <2>4. CASE f # heap[ptr[Main]].fd
    <3>1. epoll'[f] = epoll[f] /\ fd_key[f] # NULL
      BY <1>1, <2>1, <2>2, <2>4
    <3>2. Woken(f)
      BY <3>1 DEF WInv
    <3>. QED  BY <1>2, <2>1, <3>1, <3>2 DEF Woken, QueuedFor, Settled
  <2>. QED  BY <2>3, <2>4
<1>5. CASE main_queue_write
  <2>1. /\ main_task # NULL /\ queue' = Append(queue, main_task) /\ epoll' = epoll
        /\ SameKeys
    BY <1>5 DEF main_queue_write, cmVars, SameKeys
  <2>2. Woken(f)
    BY <2>1 DEF WInv, SameKeys
  <2>3. /\ Len(queue') = Len(queue) + 1 /\ queue'[Len(queue')] = main_task
        /\ \A i \in 1 .. Len(queue) : i \in 1 .. Len(queue') /\ queue'[i] = queue[i]
        /\ Len(queue') \in 1 .. Len(queue')
    BY <1>1, <2>1, SMT
  <2>4. QueuedFor(f) => QueuedFor(f)'
    BY <2>3 DEF QueuedFor
  <2>. QED  BY <1>2, <2>1, <2>2, <2>4 DEF Woken
<1>6. CASE \E g \in Fd : main_dispatch(g)
  <2>1. PICK g \in Fd : main_dispatch(g)
    BY <1>6
  <2>2. /\ main_task = NULL /\ queue' = queue /\ SameKeys /\ epoll' = [epoll EXCEPT ![g] = "off"]
        /\ main_task' = [conn_type |-> epoll[g], client_fd |-> g] /\ epoll[g] \in {"vault", "lobby"}
    BY <2>1 DEF main_dispatch, MainFree, cmVars, SameKeys
  <2>3. Woken(f)
    BY <2>2 DEF WInv, SameKeys
  <2>4. CASE f = g
    <3>1. main_task' # NULL /\ main_task'.client_fd = f
      BY <2>2, <2>4, NullIsNoTask, SMT DEF Tasks
    <3>. QED  BY <1>1, <2>2, <2>4, <3>1 DEF Woken, QueuedFor
  <2>5. CASE f # g
    <3>1. epoll'[f] = epoll[f] /\ (QueuedFor(f) => QueuedFor(f)')
      BY <1>1, <2>2, <2>5 DEF QueuedFor
    <3>. QED  BY <1>2, <2>3, <3>1 DEF Woken
  <2>. QED  BY <2>4, <2>5
<1>7. CASE MainAccept
  <2>1. SameKeys /\ Settled /\ (epoll' = epoll \/ \E g \in Fd : sock[g] = Closed /\ Arm(g, "lobby"))
    <3>1. ASSUME NEW g \in Fd, NEW cn, NEW a, NEW kind, main_accept_lobby(g, cn, a, kind)
          PROVE  SameKeys /\ Settled /\ sock[g] = Closed /\ Arm(g, "lobby")
      BY <3>1 DEF main_accept_lobby, accept_lobby, accept, SameKeys, Settled
    <3>2. ASSUME NEW g, NEW p, NEW cn, NEW a, NEW s, main_accept_vault(g, p, cn, a, s)
          PROVE  SameKeys /\ Settled /\ epoll' = epoll
      BY <3>2 DEF main_accept_vault, accept_vault, SameKeys, Settled
    <3>. QED  BY Zenon, <1>7, <3>1, <3>2 DEF MainAccept
  <2>2. sock[f] # Closed
    BY <2>1, RegisteredClient DEF SameKeys
  <2>3. epoll'[f] = epoll[f]
    BY <1>1, <2>1, <2>2 DEF Arm
  <2>. QED  BY <1>3, <2>1, <2>3
<1>8. CASE PeerStep \/ UNCHANGED vars
  <2>1. SameKeys /\ Settled /\ epoll' = epoll
    BY Zenon, <1>8 DEF PeerStep, peer_send, peer_close, client_silent, grow_idle, brokerVars, netVars,
         vars, cmVars, SameKeys, Settled
  <2>. QED  BY <1>3, <2>1
<1>. QED  BY <1>4, <1>5, <1>6, <1>7, <1>8 DEF MainStep

----------------------------------------------------------------------------
(* Without the heartbeat they take no connection for another. *)

LEMMA CliKeepsOwned ==
  ASSUME IInv, BInv, AInv, [cmNext]_cmVars, OwnedAll, CliStep
  PROVE  OwnedAll'
<1>1. Moved(Cli) /\ Settled /\ SameKeys /\ epoll' = epoll
  BY CliTurns
<1>2. \A u \in Worker : Owns(u)' /\ \A f : Tends(u, f)' <=> Tends(u, f)
  BY <1>1, RestKeepsOwns DEF SameKeys
<1>3. ASSUME NEW f \in Fd PROVE OwnedOnce(f)'
  <2>1. OwnedOnce(f) /\ QueuedOnce(f)
    BY DEF OwnedAll, VaultOwned, OwnedOnce
  <2>2. (VDispatched(f)' <=> VDispatched(f)) /\ (VQueued(f)' <=> VQueued(f)) /\ QueuedOnce(f)'
    BY <1>1, <2>1, SettledTasks
  <2>3. VArmed(f)' <=> VArmed(f)
    BY <1>1 DEF VArmed
  <2>. QED  BY <1>1, <1>2, <2>1, <2>2, <2>3, StaysOwned DEF SameKeys
<1>. QED  BY <1>2, <1>3 DEF OwnedAll, VaultOwned

\* A new client's descriptor is nowhere yet.
LEMMA NewcomerIsNowhere ==
  ASSUME IInv, BInv, AInv, OwnedAll, at[Main] = "adding"
  PROVE  LET f == heap[ptr[Main]].fd
         IN  f \in Fd /\ ~VDispatched(f) /\ ~VQueued(f) /\ ~Tended(f)
<1>. DEFINE f == heap[ptr[Main]].fd
<1>1. /\ Main \in Thread /\ Private(Main) /\ ptr[Main] \in Client /\ heap[ptr[Main]].alloc
      /\ f \in Fd /\ fd_key[f] = NULL
  BY Threads, PrivateHasNoKey DEF Private
<1>2. ~VDispatched(f) /\ ~VQueued(f)
  BY <1>1 DEF OwnedAll, VaultOwned, OwnedOnce
<1>3. ASSUME NEW u \in Worker, Tends(u, f)
      PROVE  FALSE
  <2>1. pc[u] = "destroy"
    BY <1>1, <1>3 DEF OwnedAll, Owns, Tends
  <2>2. u \in Thread /\ Private(u) /\ heap[ptr[u]].fd = f /\ u # Main
    BY <1>3, <2>1, Threads DEF AInv, Station, Knows, Private, Tends
  <2>3. ptr[u] \in Client /\ heap[ptr[u]].alloc
    BY <2>2, PrivateHasNoKey
  <2>4. ptr[u] = ptr[Main]
    BY <1>1, <2>2, <2>3 DEF IInv, OneStructPerFd
  <2>. QED  BY <1>1, <2>2, <2>4 DEF IInv, PrivateStructs
<1>. QED  BY <1>1, <1>2, <1>3 DEF Tended

LEMMA MainKeepsKeys ==
  ASSUME IInv, MainStep \/ MainAccept \/ PeerStep \/ UNCHANGED vars
  PROVE  \A f \in Fd : fd_key[f] # NULL => fd_key'[f] # NULL
<1>1. CASE main_client_add
  <2>1. at[Main] = "adding" /\ fd_key' = [fd_key EXCEPT ![heap[ptr[Main]].fd] = ptr[Main]]
    BY <1>1 DEF main_client_add, client_add
  <2>2. Main \in Thread /\ Private(Main)
    BY <2>1, Threads DEF Private
  <2>3. ptr[Main] # NULL
    BY <2>2, PrivateHasNoKey, NullIsNoClient
  <2>. QED  BY <2>1, <2>3 DEF IInv, cmTypeOK
<1>2. CASE \/ main_queue_write \/ (\E f \in Fd : main_dispatch(f)) \/ MainAccept \/ PeerStep
           \/ UNCHANGED vars
  <2>1. SameKeys
    BY Zenon, <1>2 DEF main_queue_write, main_dispatch, MainAccept, main_accept_lobby,
         main_accept_vault, accept_lobby, accept_vault, PeerStep, peer_send, peer_close,
         client_silent, grow_idle, vars, cmVars, SameKeys
  <2>. QED  BY <2>1 DEF SameKeys
<1>. QED  BY <1>1, <1>2 DEF MainStep

LEMMA MainKeepsOwned ==
  ASSUME IInv, BInv, AInv, [cmNext]_cmVars, OwnedAll, MainStep \/ MainAccept \/ PeerStep \/ UNCHANGED vars
  PROVE  OwnedAll'
<1>1. /\ epoll \in [Fd -> {"none", "off", "vault", "lobby"}] /\ queue \in Seq(Tasks)
      /\ main_task \in Tasks \cup {NULL} /\ fd_key \in [Fd -> Client \cup {NULL}]
  BY DEF BInv, BTypes, IInv, cmTypeOK
<1>2. \A u \in Worker : Owns(u)' /\ \A f : Tends(u, f)' <=> Tends(u, f)
  BY MainMoves, MainKeepsKeys, RestKeepsOwns
<1>. SUFFICES ASSUME NEW f \in Fd PROVE OwnedOnce(f)'
  BY <1>2 DEF OwnedAll, VaultOwned
<1>3. /\ OwnedOnce(f) /\ QueuedOnce(f) /\ (Tended(f)' <=> Tended(f))
      /\ \A w, u \in Worker : Tends(w, f)' /\ Tends(u, f)' => w = u
  BY <1>2 DEF OwnedAll, VaultOwned, OwnedOnce, Tended
<1>4. Settled => (VDispatched(f)' <=> VDispatched(f)) /\ (VQueued(f)' <=> VQueued(f)) /\ QueuedOnce(f)'
  BY <1>3, SettledTasks
<1>5. CASE main_client_add
  <2>. DEFINE g == heap[ptr[Main]].fd
  <2>1. /\ at[Main] = "adding" /\ Settled /\ epoll' = [epoll EXCEPT ![g] = "vault"]
        /\ fd_key' = [fd_key EXCEPT ![g] = ptr[Main]]
    BY <1>5 DEF main_client_add, Arm, client_add, Settled
  <2>2. g \in Fd /\ ~VDispatched(g) /\ ~VQueued(g) /\ ~Tended(g)
    BY <2>1, NewcomerIsNowhere
  <2>3. CASE f = g
    <3>1. Main \in Thread /\ Private(Main)
      BY <2>1, Threads DEF Private
    <3>2. ptr[Main] # NULL
      BY <3>1, PrivateHasNoKey, NullIsNoClient
    <3>3. fd_key'[f] # NULL
      BY <1>1, <2>1, <2>2, <2>3, <3>2
    <3>. QED  BY <1>3, <1>4, <2>1, <2>2, <2>3, <3>3 DEF OwnedOnce
  <2>4. CASE f # g
    <3>1. (VArmed(f)' <=> VArmed(f)) /\ fd_key'[f] = fd_key[f]
      BY <1>1, <2>1, <2>2, <2>4 DEF VArmed
    <3>. QED  BY <1>2, <1>3, <1>4, <2>1, <3>1, StaysOwned
  <2>. QED  BY <2>3, <2>4
<1>6. CASE main_queue_write
  <2>1. /\ main_task # NULL /\ queue' = Append(queue, main_task) /\ epoll' = epoll /\ SameKeys
        /\ main_task' = NULL /\ (VArmed(f)' <=> VArmed(f))
    BY <1>6 DEF main_queue_write, cmVars, SameKeys, VArmed
  <2>2. /\ Len(queue) \in Nat /\ Len(queue') = Len(queue) + 1 /\ queue'[Len(queue) + 1] = main_task
        /\ \A i \in 1 .. Len(queue) : queue'[i] = queue[i]
    BY <1>1, <2>1, SMT
  <2>3. ~VDispatched(f)'
    BY <2>1, NullIsNoTask, SMT DEF VDispatched, VaultTask, Tasks
  <2>4. CASE VDispatched(f)
    <3>1. ~VArmed(f) /\ ~VQueued(f) /\ ~Tended(f) /\ fd_key[f] # NULL
      BY <1>3, <2>4 DEF OwnedOnce
    <3>2. \A i \in 1 .. Len(queue') : queue'[i] = VaultTask(f) => i = Len(queue) + 1
      BY <2>2, <3>1, SMT DEF VQueued
    <3>3. QueuedOnce(f)'
      BY <3>2 DEF QueuedOnce, VaultTask
    <3>. QED  BY <1>3, <2>1, <2>3, <3>1, <3>3 DEF OwnedOnce, SameKeys
  <2>5. CASE ~VDispatched(f)
    <3>1. \A i \in 1 .. Len(queue') : queue'[i] = VaultTask(f) =>
            i \in 1 .. Len(queue) /\ queue[i] = VaultTask(f)
      BY <2>2, <2>5, SMT DEF VDispatched
    <3>2. (VQueued(f)' => VQueued(f)) /\ QueuedOnce(f)'
      BY <1>3, <3>1 DEF VQueued, QueuedOnce, VaultTask
    <3>. QED  BY <1>2, <1>3, <2>1, <2>3, <3>2, StaysOwned DEF SameKeys
  <2>. QED  BY <2>4, <2>5
<1>7. CASE \E g \in Fd : main_dispatch(g)
  <2>1. PICK g \in Fd : main_dispatch(g)
    BY <1>7
  <2>2. /\ main_task = NULL /\ queue' = queue /\ SameKeys /\ epoll' = [epoll EXCEPT ![g] = "off"]
        /\ main_task' = [conn_type |-> epoll[g], client_fd |-> g]
    BY <2>1 DEF main_dispatch, MainFree, cmVars, SameKeys
  <2>3. (VQueued(f)' <=> VQueued(f)) /\ QueuedOnce(f)' /\ ~VDispatched(f)
    <3>1. VaultTask(f) \in Tasks
      BY DEF VaultTask, Tasks
    <3>2. ~VDispatched(f)
      BY <2>2, <3>1, NullIsNoTask DEF VDispatched
    <3>3. VQueued(f)' <=> VQueued(f)
      BY <2>2 DEF VQueued, VaultTask
    <3>4. QueuedOnce(f)'
      BY <1>3, <2>2 DEF OwnedOnce, QueuedOnce, VaultTask
    <3>. QED  BY <3>2, <3>3, <3>4
  <2>4. (VArmed(f)' => VArmed(f) /\ f # g) /\ (VDispatched(f)' => f = g /\ VArmed(f))
    BY <1>1, <2>2 DEF VArmed, VDispatched, VaultTask
  <2>5. CASE VDispatched(f)'
    BY <1>3, <2>2, <2>3, <2>4, <2>5 DEF OwnedOnce, SameKeys
  <2>6. CASE ~VDispatched(f)'
    BY <1>2, <1>3, <2>2, <2>3, <2>4, <2>6, StaysOwned DEF SameKeys
  <2>. QED  BY <2>5, <2>6
<1>8. CASE MainAccept \/ PeerStep \/ UNCHANGED vars
  <2>1. SameKeys /\ Settled /\ (epoll' = epoll \/ \E g : Arm(g, "lobby"))
    BY Zenon, <1>8 DEF MainAccept, main_accept_lobby, main_accept_vault, accept_lobby, accept_vault,
         PeerStep, peer_send, peer_close, client_silent, grow_idle, brokerVars, netVars, vars,
         cmVars, SameKeys, Settled
  <2>2. VArmed(f)' => VArmed(f)
    BY <1>1, <2>1 DEF Arm, VArmed
  <2>. QED  BY <1>2, <1>3, <1>4, <2>1, <2>2, StaysOwned DEF SameKeys
<1>. QED  BY <1>5, <1>6, <1>7, <1>8 DEF MainStep

\* What is left of the load after a step of theirs.
LEMMA ThreadLoads ==
  /\ MainStep \/ MainAccept \/ PeerStep => load' = load
  /\ CliStep => load' = load \/ load' = [load EXCEPT !.commands = @ - 1]
  /\ HeartbeatStep => load' = load \/ load' = [load EXCEPT !.sweeps = IF @ > 0 THEN @ - 1 ELSE @]
<1>1. MainStep \/ MainAccept \/ PeerStep => load' = load
  BY Zenon DEF MainStep, MainAccept, PeerStep, main_client_add, main_queue_write, main_dispatch,
       main_accept_lobby, main_accept_vault, peer_send, peer_close, client_silent, brokerVars
<1>2. CliStep => load' = load \/ load' = [load EXCEPT !.commands = @ - 1]
  BY Zenon DEF CliStep, CliWork, cli_input, cli_find, cli_subscribe, cli_unsubscribe, cli_set,
       publish_lock, publish_skip, publish_wait, publish_write, publish_unlock, status_clients,
       status_lock, status_visit, status_turn, status_unlock, brokerVars
<1>3. HeartbeatStep => load' = load \/ load' = [load EXCEPT !.sweeps = IF @ > 0 THEN @ - 1 ELSE @]
  BY Zenon DEF HeartbeatStep, sweep_begin, sweep_scanned, sweep_done, sweep_scan, sweep_unsubscribe,
       remove_unmap, remove_destroy, brokerVars
<1>. QED  BY <1>1, <1>2, <1>3

\* And they change nobody's identity.
LEMMA ThreadPeople ==
  ASSUME IInv, BInv, [cmNext]_cmVars,
         CliStep \/ MainStep \/ MainAccept \/ PeerStep \/ UNCHANGED vars
  PROVE  SamePeople
<1>1. peer' = peer => SamePeople
  BY SamePeopleStay DEF SameIdentities
<1>2. CASE CliStep
  <2>1. peer' = peer
    BY <1>2 DEF CliStep, CliWork, cli_input, cli_find, cli_subscribe, cli_unsubscribe, cli_set,
       publish_lock, publish_skip, publish_wait, publish_write, publish_unlock, status_clients,
       status_lock, status_visit, status_turn, status_unlock, brokerVars, netVars
  <2>. QED  BY <1>1, <2>1
<1>3. CASE MainStep \/ (\E p \in Client : client_silent(p)) \/ UNCHANGED vars
  BY <1>1, <1>3 DEF MainStep, main_client_add, main_queue_write, main_dispatch, client_silent,
       vars, brokerVars, netVars
<1>4. CASE MainAccept
  <2>1. ASSUME NEW r, peer' = [peer EXCEPT ![accepted'] = r], accepted' = accepted + 1
        PROVE  SamePeople
    <3>1. \A n \in 1 .. accepted : n \in Conn /\ n # accepted' /\ n \in 1 .. accepted'
      BY <2>1, AcceptedGrows, AcceptedIsConn
    <3>. QED  BY <2>1, <3>1 DEF SamePeople, BInv, BTypes
  <2>2. ASSUME NEW f, NEW cn, NEW a, NEW kind, main_accept_lobby(f, cn, a, kind)
        PROVE  SamePeople
    BY <2>1, <2>2 DEF main_accept_lobby, accept_lobby, accept
  <2>3. ASSUME NEW f, NEW p, NEW cn, NEW a, NEW s, main_accept_vault(f, p, cn, a, s)
        PROVE  SamePeople
    BY <2>1, <2>3 DEF main_accept_vault, accept_vault, accept
  <2>. QED  BY <1>4, <2>2, <2>3 DEF MainAccept
<1>. QED  BY <1>2, <1>3, <1>4, PeersStayThemselves, SamePeopleStay DEF PeerStep
=============================================================================
