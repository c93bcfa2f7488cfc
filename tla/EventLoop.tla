----------------------------- MODULE EventLoop -----------------------------
(***************************************************************************)
(* src/main.c: the epoll thread.  It accepts connections on both ports and *)
(* turns readiness events into tasks.  Events that one epoll_wait returns  *)
(* together are taken one at a time: an event waiting in events[] has the  *)
(* same effect as its task waiting in the queue.                           *)
(***************************************************************************)
EXTENDS BrokerState

MainFree == at[Main] = "out" /\ main_task = NULL

\* accept on the vault port, then the first half of client_add.  The peer that
\* connects has certificate name cn and address a, and will send the chunks of s.
main_accept_vault(f, p, cn, a, s) ==
  /\ MainFree
  /\ accept_vault(Main, f, p)
  /\ session' = [session EXCEPT ![p] = NoSession]
  /\ peer' = [peer EXCEPT ![accepted'] = [NoPeer EXCEPT !.cn = cn, !.addr = a, !.unsent = s]]
  /\ UNCHANGED <<psVars, pc, local, epoll, queue, main_task, dataVars, load>>

\* EPOLL_CTL_ADD, ONESHOT, with ev.data.fd = +f or -f.
Arm(f, sign) == epoll' = [epoll EXCEPT ![f] = sign]

\* The map entry, then EPOLL_CTL_ADD.
main_client_add ==
  /\ client_add(Main)
  /\ Arm(heap[ptr[Main]].fd, "vault")
  /\ UNCHANGED <<psVars, pc, local, session, queue, main_task, peer, dataVars, load>>

\* A lobby peer sends one request: for a certificate as cn, or something else.
main_accept_lobby(f, cn, a, kind) ==
  /\ MainFree
  /\ accept_lobby(f)
  /\ Arm(f, "lobby")
  /\ peer' = [peer EXCEPT ![accepted'] =
                [NoPeer EXCEPT !.cn = cn, !.addr = a, !.unsent = <<[kind |-> kind, lines |-> <<>>]>>]]
  /\ UNCHANGED <<psVars, pc, local, session, queue, main_task, dataVars, load>>

\* epoll_wait reports a descriptor, which disarms it.
main_dispatch(f) ==
  /\ MainFree
  /\ epoll[f] \in {"vault", "lobby"}
  /\ Readable(f)
  /\ main_task' = [conn_type |-> epoll[f], client_fd |-> f]
  /\ epoll' = [epoll EXCEPT ![f] = "off"]
  /\ UNCHANGED <<cmVars, psVars, pc, local, session, queue, peer, dataVars, load>>

QueueHasRoom == Len(queue) < QUEUE_MAX_SIZE

main_queue_write ==
  /\ main_task # NULL
  /\ QueueHasRoom
  /\ queue' = Append(queue, main_task)
  /\ main_task' = NULL
  /\ UNCHANGED <<cmVars, psVars, pc, local, session, epoll, peer, dataVars, load>>

MainStep ==
  \/ main_client_add
  \/ main_queue_write
  \/ \E f \in Fd : main_dispatch(f)

MainAccept ==
  /\ accepted < load.connections
  /\ \E f \in Fd, cn \in Hostname, a \in load.addrs :
       \/ "lobby" \in load.ports /\ \E kind \in {"csr", "other"} : main_accept_lobby(f, cn, a, kind)
       \/ "vault" \in load.ports /\ \E p \in Client, s \in load.scripts : main_accept_vault(f, p, cn, a, s)

----------------------------------------------------------------------------
(* The peers. *)

Open(n) == \E f \in Fd : sock[f].conn = n

peer_send(n) ==
  /\ Open(n)
  /\ peer[n].unsent # <<>>
  /\ ~peer[n].closed
  /\ peer' = [peer EXCEPT ![n].input = Append(@, Head(peer[n].unsent)),
                          ![n].unsent = Tail(@)]
  /\ UNCHANGED <<cmVars, psVars, pc, local, session, epoll, queue, main_task, dataVars, load>>

peer_close(n) ==
  /\ Open(n)
  /\ ~peer[n].closed
  /\ peer' = [peer EXCEPT ![n].closed = TRUE, ![n].unsent = <<>>]
  /\ UNCHANGED <<cmVars, psVars, pc, local, session, epoll, queue, main_task, dataVars, load>>

\* The client sends nothing for timeout_seconds.  The sweep reads the clock once,
\* before its loop: no client becomes idle for it while it scans.
client_silent(p) ==
  /\ grow_idle(p)
  /\ pc[Heartbeat] # "scan"
  /\ UNCHANGED <<psVars, brokerVars>>

PeerStep ==
  \/ \E n \in Conn : peer_send(n) \/ peer_close(n)
  \/ \E p \in Client : client_silent(p)
=============================================================================
