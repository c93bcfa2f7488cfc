----------------------------- MODULE WorkerPool -----------------------------
(***************************************************************************)
(* src/worker.c: what a worker thread does with one task.  Its positions:  *)
(*   idle             queue_read                                           *)
(*   lookup           client_get_and_lock_by_fd(task->client_fd)           *)
(*   client           holds c: handshake or read                           *)
(*   set_hostname, copy_hostname, rearm   after a successful handshake     *)
(*   commands         holds c: the loop over the lines received            *)
(*   publish, fanout, relock              PUBLISH, with c->lock dropped    *)
(*   unsubscribe_all, remove, destroy     the client is gone               *)
(*   lobby, sign, certificate, close      an enrolment request             *)
(***************************************************************************)
EXTENDS BrokerState

\* The client a worker holds, and the chunk its socket has for it.
C(w) == ptr[w]
Peer(w) == peer[ConnOf(C(w))]
Chunk(w) == Head(Peer(w).input).kind
NoInput(w) == Peer(w).input = <<>>
Receive(w) == peer' = [peer EXCEPT ![ConnOf(C(w))].input = Tail(@)]

worker_queue_read(w) ==
  /\ At(w, "idle")
  /\ queue # <<>>
  /\ queue' = Tail(queue)
  /\ GotoWith(w, IF Head(queue).conn_type = "vault" THEN "lookup" ELSE "lobby",
              [NoLocal EXCEPT !.fd = Head(queue).client_fd])
  /\ UNCHANGED <<cmVars, psVars, session, epoll, main_task, peer, dataVars, load>>

\* Fault: closes the descriptor of a client that is gone.
worker_lookup_Closes(w) ==
  /\ At(w, "lookup")
  /\ \/ /\ at[w] = "out" /\ Lookup(local[w].fd) = NULL
        /\ Goto(w, "idle")
        /\ close_lobby(local[w].fd)
     \/ /\ get_wait(w, Lookup(local[w].fd), "getting")
        /\ UNCHANGED <<pc, local>>
     \/ /\ get_lock(w, Lookup(local[w].fd))
        /\ GotoWith(w, "client", [local[w] EXCEPT !.conn = heap[Found(w, Lookup(local[w].fd))].conn])
  /\ UNCHANGED <<psVars, session, netVars, dataVars, load>>

\* client_get_and_lock_by_fd: the task of a client that is gone is dropped.
worker_lookup(w) ==
  /\ At(w, "lookup")
  /\ \/ /\ at[w] = "out" /\ Lookup(local[w].fd) = NULL
        /\ Goto(w, "idle")
        /\ UNCHANGED cmVars
     \/ /\ get_wait(w, Lookup(local[w].fd), "getting")
        /\ UNCHANGED <<pc, local>>
     \/ /\ get_lock(w, Lookup(local[w].fd))
        /\ GotoWith(w, "client", [local[w] EXCEPT !.conn = heap[Found(w, Lookup(local[w].fd))].conn])
  /\ UNCHANGED <<psVars, session, netVars, dataVars, load>>

----------------------------------------------------------------------------
(* auth_status # AUTH_SUCCESS: SSL_new on the first task, then SSL_accept. *)

Handshaking(w) == At(w, "client") /\ ~session[C(w)].auth

\* SSL_ERROR_WANT_*: wait for more.
handshake_pending(w) ==
  /\ Handshaking(w)
  /\ \/ NoInput(w) /\ ~Peer(w).closed /\ UNCHANGED peer
     \/ ~NoInput(w) /\ Chunk(w) = "hello" /\ Receive(w)
  /\ session' = [session EXCEPT ![C(w)].ssl = TRUE]
  /\ Rearm(heap[C(w)].fd)
  /\ client_unlock(w)
  /\ Goto(w, "idle")
  /\ UNCHANGED <<psVars, queue, main_task, dataVars, load>>

\* Fault: re-arms the connection it goes on to remove.
handshake_failed_Rearms(w) ==
  /\ Handshaking(w)
  /\ \/ NoInput(w) /\ Peer(w).closed
     \/ ~NoInput(w) /\ Chunk(w) # "hello"
  /\ session' = [session EXCEPT ![C(w)].ssl = TRUE]
  /\ Rearm(heap[C(w)].fd)
  /\ client_unlock(w)
  /\ Goto(w, "remove")
  /\ UNCHANGED <<psVars, queue, main_task, peer, dataVars, load>>

\* Any other error, or an identity that auth_verify_mtls refuses: no certificate name,
\* no address or no DNS answer for it, or another address.
handshake_failed(w) ==
  /\ Handshaking(w)
  /\ \/ NoInput(w) /\ Peer(w).closed
     \/ ~NoInput(w) /\ Chunk(w) # "hello"
  /\ session' = [session EXCEPT ![C(w)].ssl = TRUE]
  /\ client_unlock(w)
  /\ Goto(w, "remove")
  /\ UNCHANGED <<psVars, netVars, dataVars, load>>

auth_verify_mtls(w) == auth_verify_identity(ConnOf(C(w)), Peer(w).cn)

\* Fault: re-arms before the hostname is set.
handshake_done_RearmsFirst(w) ==
  /\ Handshaking(w)
  /\ ~NoInput(w) /\ Chunk(w) = "finish"
  /\ auth_verify_mtls(w)
  /\ Receive(w)
  /\ session' = [session EXCEPT ![C(w)].ssl = TRUE, ![C(w)].auth = TRUE]
  /\ Rearm(heap[C(w)].fd)
  /\ client_unlock(w)
  /\ GotoWith(w, "set_hostname", [local[w] EXCEPT !.cn = Peer(w).cn])
  /\ UNCHANGED <<psVars, queue, main_task, dataVars, load>>

\* The handshake completes and the certificate name matches the peer's address.
handshake_done(w) ==
  /\ Handshaking(w)
  /\ ~NoInput(w) /\ Chunk(w) = "finish"
  /\ auth_verify_mtls(w)
  /\ Receive(w)
  /\ session' = [session EXCEPT ![C(w)].ssl = TRUE, ![C(w)].auth = TRUE]
  /\ client_unlock(w)
  /\ GotoWith(w, "set_hostname", [local[w] EXCEPT !.cn = Peer(w).cn])
  /\ UNCHANGED <<psVars, epoll, queue, main_task, dataVars, load>>

worker_set_hostname(w) ==
  /\ At(w, "set_hostname")
  /\ client_set_hostname(w, local[w].fd, local[w].cn)
  /\ Goto(w, IF at'[w] = "naming" THEN "copy_hostname" ELSE "rearm")
  /\ UNCHANGED <<psVars, session, netVars, dataVars, load>>

worker_copy_hostname(w) ==
  /\ At(w, "copy_hostname")
  /\ client_set_hostname_copy(w)
  /\ Goto(w, "rearm")
  /\ UNCHANGED <<psVars, session, netVars, dataVars, load>>

\* EPOLL_CTL_MOD by number: by now it may be the number of another socket.
worker_rearm(w) ==
  /\ At(w, "rearm")
  /\ Rearm(local[w].fd)
  /\ Goto(w, "idle")
  /\ UNCHANGED <<cmVars, psVars, session, queue, main_task, peer, dataVars, load>>

----------------------------------------------------------------------------
(* auth_status = AUTH_SUCCESS: one SSL_read. *)

\* Fault: does not look at auth_status.
Reading_Unchecked(w) == At(w, "client")

Reading(w) == At(w, "client") /\ session[C(w)].auth

read_nothing(w) ==
  /\ Reading(w)
  /\ NoInput(w) /\ ~Peer(w).closed
  /\ Rearm(heap[C(w)].fd)
  /\ client_unlock(w)
  /\ Goto(w, "idle")
  /\ UNCHANGED <<psVars, session, queue, main_task, peer, dataVars, load>>

read_disconnected(w) ==
  /\ Reading(w)
  /\ \/ NoInput(w) /\ Peer(w).closed
     \/ ~NoInput(w) /\ Chunk(w) # "data"
  /\ client_unlock(w)
  /\ Goto(w, "unsubscribe_all")
  /\ UNCHANGED <<psVars, session, netVars, dataVars, load>>

read_data(w) ==
  /\ Reading(w)
  /\ ~NoInput(w) /\ Chunk(w) = "data"
  /\ Receive(w)
  /\ touch(w)
  /\ session' = [session EXCEPT ![C(w)].lines = @ \o Head(Peer(w).input).lines]
  /\ Goto(w, "commands")
  /\ UNCHANGED <<psVars, epoll, queue, main_task, dataVars, load>>

----------------------------------------------------------------------------
(* The loop over complete lines. *)

Looping(w) == At(w, "commands") /\ session[C(w)].lines # <<>>
Line(w) == Head(session[C(w)].lines)
PopLine(w) == session' = [session EXCEPT ![C(w)].lines = Tail(@)]
Allowed(w) == <<heap[C(w)].hostname, Line(w).op, Line(w).topic>> \in Granted

\* The row a database call writes under c->hostname.
Row(w, table) == [table |-> table, host |-> heap[C(w)].hostname, topic |-> Line(w).topic,
                  op |-> Line(w).op, conn |-> heap[C(w)].conn]

\* PING, PONG, an unknown command, or one that rbac.c denies.
command_no_effect(w) ==
  /\ Looping(w)
  /\ \/ Line(w).op \notin {"SET", "GET", "SUBSCRIBE", "UNSUBSCRIBE", "PUBLISH"}
     \/ Line(w).op # "GET" /\ ~Allowed(w)
  /\ PopLine(w)
  /\ UNCHANGED <<cmVars, psVars, pc, local, netVars, dataVars, load>>

\* SET writes device_state and no audit row; GET writes an audit row.
command_set_get(w) ==
  /\ Looping(w)
  /\ \/ Line(w).op = "SET" /\ Allowed(w) /\ db' = db \cup {Row(w, "device_state")}
     \/ Line(w).op = "GET" /\ db' = db \cup {Row(w, "audit_log")}
  /\ PopLine(w)
  /\ UNCHANGED <<cmVars, psVars, pc, local, netVars, busVars, enrollVars, load>>

\* pubsub_lock is taken with c->lock held.
command_subscribe(w) ==
  /\ Looping(w)
  /\ Line(w).op = "SUBSCRIBE" /\ Allowed(w)
  /\ db' = db \cup {Row(w, "audit_log")}
  /\ pubsub_subscribe(heap[C(w)].fd, Line(w).topic)
  /\ PopLine(w)
  /\ UNCHANGED <<cmVars, pc, local, netVars, busVars, enrollVars, load>>

command_unsubscribe(w) ==
  /\ Looping(w)
  /\ Line(w).op = "UNSUBSCRIBE" /\ Allowed(w)
  /\ pubsub_unsubscribe(heap[C(w)].fd, Line(w).topic)
  /\ PopLine(w)
  /\ UNCHANGED <<cmVars, pc, local, netVars, dataVars, load>>

\* Fault: re-arms when it drops the lock.
command_publish_Rearms(w) ==
  /\ Looping(w)
  /\ Line(w).op = "PUBLISH" /\ Allowed(w)
  /\ db' = db \cup {Row(w, "audit_log")}
  /\ PopLine(w)
  /\ Rearm(heap[C(w)].fd)
  /\ client_unlock(w)
  /\ GotoWith(w, "publish", [local[w] EXCEPT !.topic = Line(w).topic])
  /\ UNCHANGED <<psVars, queue, main_task, peer, busVars, enrollVars, load>>

\* PUBLISH drops c->lock and looks the client up again afterwards.
command_publish(w) ==
  /\ Looping(w)
  /\ Line(w).op = "PUBLISH" /\ Allowed(w)
  /\ db' = db \cup {Row(w, "audit_log")}
  /\ PopLine(w)
  /\ client_unlock(w)
  /\ GotoWith(w, "publish", [local[w] EXCEPT !.topic = Line(w).topic])
  /\ UNCHANGED <<psVars, netVars, busVars, enrollVars, load>>

worker_relock(w) ==
  /\ At(w, "relock")
  /\ \/ /\ at[w] = "out" /\ Lookup(local[w].fd) = NULL
        /\ Goto(w, "unsubscribe_all")
        /\ UNCHANGED cmVars
     \/ /\ get_wait(w, Lookup(local[w].fd), "getting")
        /\ UNCHANGED <<pc, local>>
     \/ /\ get_lock(w, Lookup(local[w].fd))
        /\ Goto(w, "commands")
  /\ UNCHANGED <<psVars, session, netVars, dataVars, load>>

commands_done(w) ==
  /\ At(w, "commands") /\ session[C(w)].lines = <<>>
  /\ Rearm(heap[C(w)].fd)
  /\ client_unlock(w)
  /\ Goto(w, "idle")
  /\ UNCHANGED <<psVars, session, queue, main_task, peer, dataVars, load>>

----------------------------------------------------------------------------

worker_unsubscribe_all(w) ==
  /\ At(w, "unsubscribe_all")
  /\ pubsub_unsubscribe_all(local[w].fd)
  /\ Goto(w, "remove")
  /\ UNCHANGED <<cmVars, session, netVars, dataVars, load>>

----------------------------------------------------------------------------
(* The lobby: process_enrollment of src/enroll.c, and close by number.     *)

\* Fault: one name for all.
csr_filename_Shared(f) == NULL

\* "/tmp/csr_%d.pem", and crt_filename likewise
csr_filename(f) == f

\* One read and the first half of process_enrollment, up to the file.  Nothing read, a
\* request that is none, another identity, or no file: an answer at most.
worker_lobby(w) ==
  LET n == Requester(w)
      input == peer[n].input
  IN  /\ At(w, "lobby")
      /\ \/ /\ input # <<>> /\ Head(input).kind = "csr"
            /\ auth_verify_identity(n, peer[n].cn)
            /\ tmp' = [tmp EXCEPT !.csr[csr_filename(local[w].fd)] = n]
            /\ Goto(w, "sign")
         \/ Goto(w, "close") /\ UNCHANGED tmp
      /\ peer' = [peer EXCEPT ![n].input = IF @ = <<>> THEN @ ELSE Tail(@)]
      /\ UNCHANGED <<cmVars, psVars, session, epoll, queue, main_task, db, busVars, issued, load>>

\* system("openssl x509 -req ..."): if it fails the request goes, and what it may have
\* left of a certificate stays.
enroll_sign(w) ==
  LET f == csr_filename(local[w].fd) IN
  /\ At(w, "sign")
  /\ \/ tmp' = [tmp EXCEPT !.crt[f] = tmp.csr[f]] /\ Goto(w, "certificate")
     \/ \E left \in {tmp.crt[f], tmp.csr[f]} :
          tmp' = [tmp EXCEPT !.csr[f] = 0, !.crt[f] = left] /\ Goto(w, "close")
  /\ UNCHANGED <<cmVars, psVars, session, netVars, db, busVars, issued, load>>

\* The certificate is sent, if its file can be opened; both files go.
enroll_reply(w) ==
  LET f == csr_filename(local[w].fd)
      n == Requester(w)
  IN  /\ At(w, "certificate")
      /\ issued' \in {issued, issued \cup {[to |-> n, of |-> tmp.crt[f], host |-> peer[n].cn]}}
      /\ tmp' = [tmp EXCEPT !.csr[f] = 0, !.crt[f] = 0]
      /\ Goto(w, "close")
      /\ UNCHANGED <<cmVars, psVars, session, netVars, db, busVars, load>>

worker_close(w) ==
  /\ At(w, "close")
  /\ close_lobby(local[w].fd)
  /\ Unregister(local[w].fd)
  /\ Goto(w, "idle")
  /\ UNCHANGED <<psVars, session, queue, main_task, peer, dataVars, load>>

WorkerStep(w) ==
  \/ worker_queue_read(w) \/ worker_lookup(w)
  \/ handshake_pending(w) \/ handshake_failed(w) \/ handshake_done(w)
  \/ worker_set_hostname(w) \/ worker_copy_hostname(w) \/ worker_rearm(w)
  \/ read_nothing(w) \/ read_disconnected(w) \/ read_data(w)
  \/ command_no_effect(w) \/ command_set_get(w)
  \/ command_subscribe(w) \/ command_unsubscribe(w) \/ command_publish(w)
  \/ publish_lock(w) \/ publish_skip(w) \/ publish_wait(w) \/ publish_write(w)
  \/ publish_unlock(w, "relock")
  \/ worker_relock(w) \/ commands_done(w)
  \/ worker_unsubscribe_all(w) \/ remove_unmap(w, "idle") \/ remove_destroy(w, "idle")
  \/ worker_lobby(w) \/ enroll_sign(w) \/ enroll_reply(w) \/ worker_close(w)
=============================================================================
