---------------------------- MODULE MessageProofs ----------------------------
(***************************************************************************)
(* What the broker sends and records: its messages in one order, to whom   *)
(* they go, and the name under which a command is recorded.  The           *)
(* invariants, and that the steps of the threads keep them; BrokerProofs   *)
(* puts the steps together.                                                *)
(***************************************************************************)
EXTENDS Broker, BrokerInvariant

\* Most leaves need no arithmetic: Zenon, unless a leaf names SMT.
USE Zenon

----------------------------------------------------------------------------
(* The messages have one order: who publishes keeps pubsub_lock until the  *)
(* last subscriber has been served, so what is being written is always the *)
(* latest message.                                                         *)

Messages == [topic : Topic \cup {NULL}, no : Nat, tls : BOOLEAN, auth : BOOLEAN]
BusTypes ==
  published \in Nat /\ publishing \in [Thread -> Nat] /\ inbox \in [Conn -> Seq(Messages)]

Publisher == Worker \cup {Cli}
LatestFirst == \A t \in Publisher : pc[t] = "fanout" => publishing[t] = published

Increasing(s) == \A i, j \in 1 .. Len(s) : i < j => s[i].no <= s[j].no
AtMost(s, k) == \A i \in 1 .. Len(s) : s[i].no <= k
InOrder == \A n \in Conn : Increasing(inbox[n]) /\ AtMost(inbox[n], published)

BusInv == BusTypes /\ LatestFirst /\ InOrder

\* A step that takes nobody into a fan-out and writes nothing.
NoMessage(t) ==
  /\ UNCHANGED busVars
  /\ UNCHANGED pc \/ \E b, l : b # "fanout" /\ GotoWith(t, b, l)

LEMMA WorkerMessages ==
  ASSUME NEW w \in Worker, WorkerStep(w)
  PROVE  NoMessage(w) \/ publish_lock(w) \/ publish_write(w)
<1>1. CASE \/ worker_queue_read(w) \/ worker_lookup(w) \/ handshake_pending(w) \/ handshake_failed(w)
           \/ handshake_done(w) \/ worker_set_hostname(w) \/ worker_copy_hostname(w) \/ worker_rearm(w)
  BY <1>1 DEF NoMessage, dataVars, worker_queue_read, worker_lookup, handshake_pending,
       handshake_failed, handshake_done, worker_set_hostname, worker_copy_hostname, worker_rearm, Goto
<1>2. CASE \/ read_nothing(w) \/ read_disconnected(w) \/ read_data(w) \/ command_no_effect(w)
           \/ command_set_get(w) \/ command_subscribe(w) \/ command_unsubscribe(w)
           \/ command_publish(w)
  BY <1>2 DEF NoMessage, dataVars, read_nothing, read_disconnected, read_data, command_no_effect,
       command_set_get, command_subscribe, command_unsubscribe, command_publish, Goto
<1>3. CASE \/ publish_skip(w) \/ publish_wait(w) \/ publish_unlock(w, "relock") \/ worker_relock(w)
           \/ commands_done(w) \/ worker_unsubscribe_all(w) \/ remove_unmap(w, "idle")
           \/ remove_destroy(w, "idle")
  BY <1>3 DEF NoMessage, brokerVars, dataVars, publish_skip, publish_wait, publish_unlock,
       worker_relock, commands_done, worker_unsubscribe_all, remove_unmap, remove_destroy, Goto
<1>4. CASE worker_lobby(w) \/ enroll_sign(w) \/ enroll_reply(w) \/ worker_close(w)
  BY <1>4 DEF NoMessage, dataVars, worker_lobby, enroll_sign, enroll_reply, worker_close, Goto
<1>. QED  BY <1>1, <1>2, <1>3, <1>4 DEF WorkerStep

LEMMA CliMessages ==
  ASSUME BInv, CliStep
  PROVE  NoMessage(Cli) \/ publish_lock(Cli) \/ publish_write(Cli)
<1>1. CASE \/ cli_find("find_subscribe", "subscribe") \/ cli_find("find_unsubscribe", "unsubscribe")
           \/ cli_subscribe \/ cli_unsubscribe \/ cli_set \/ publish_skip(Cli) \/ publish_wait(Cli)
           \/ publish_unlock(Cli, "idle")
  BY <1>1 DEF NoMessage, brokerVars, dataVars, cli_find, cli_subscribe, cli_unsubscribe, cli_set,
       publish_skip, publish_wait, publish_unlock, Goto
<1>2. CASE status_clients \/ status_lock \/ status_visit \/ status_turn \/ status_unlock
  BY <1>2 DEF NoMessage, brokerVars, dataVars, status_clients, status_lock, status_visit,
       status_turn, status_unlock, Goto
<1>3. ASSUME NEW c \in load.typed, cli_input(c)
      PROVE  NoMessage(Cli)
  <2>1. c \in TypedCommands
    BY <1>3, LoadStays DEF Workloads
  <2>2. c.op # "fanout"
    BY <2>1 DEF TypedCommands
  <2>. QED  BY <1>3, <2>2 DEF NoMessage, dataVars, cli_input
<1>. QED  BY <1>1, <1>2, <1>3 DEF CliStep, CliWork

LEMMA OtherMessages ==
  ASSUME HeartbeatStep \/ MainStep \/ MainAccept \/ PeerStep \/ UNCHANGED vars
  PROVE  \E t \in {Heartbeat, Main} : NoMessage(t)
<1>1. CASE HeartbeatStep
  <2>1. NoMessage(Heartbeat)
    BY <1>1 DEF NoMessage, brokerVars, dataVars, HeartbeatStep, sweep_begin, sweep_scanned, sweep_done,
         sweep_scan, sweep_unsubscribe, remove_unmap, remove_destroy, Goto
  <2>. QED  BY <2>1
<1>2. CASE MainStep \/ MainAccept \/ PeerStep \/ UNCHANGED vars
  BY <1>2 DEF NoMessage, MainStep, MainAccept, PeerStep, main_client_add, main_queue_write,
       main_dispatch, main_accept_lobby, main_accept_vault, peer_send, peer_close, client_silent,
       vars, brokerVars, dataVars
<1>. QED  BY <1>1, <1>2

\* All steps but two leave the messages alone.
LEMMA BusSteps ==
  ASSUME BInv, [Next]_vars
  PROVE  \/ \E t \in Thread : NoMessage(t)
         \/ \E t \in Publisher : publish_lock(t) \/ publish_write(t)
BY Threads, WorkerMessages, CliMessages, OtherMessages DEF Next, Publisher

LEMMA MessageNumbers ==
  ASSUME NEW s \in Seq(Messages)
  PROVE  DOMAIN s = 1 .. Len(s) /\ \A i \in 1 .. Len(s) : s[i].no \in Nat
<1>1. DOMAIN s = 1 .. Len(s) /\ \A i \in 1 .. Len(s) : s[i] \in Messages
  BY SMT
<1>. QED  BY <1>1 DEF Messages

\* The next number is larger than all before.
LEMMA LockKeepsBus ==
  ASSUME BInv, AInv, BusInv, NEW t \in Publisher, publish_lock(t)
  PROVE  BusInv'
<1>1. t \in Thread /\ pubsub_lock = NULL
  BY Threads DEF Publisher, publish_lock, publish_begin, Unlocked
<1>2. /\ published' = published + 1 /\ publishing' = [publishing EXCEPT ![t] = published']
      /\ inbox' = inbox /\ pc' = [pc EXCEPT ![t] = "fanout"]
  BY DEF publish_lock, Goto, GotoWith
<1>3. published' \in Nat
  BY <1>2, SMT DEF BusInv, BusTypes
<1>4. BusTypes'
  BY <1>2, <1>3 DEF BusInv, BusTypes
<1>5. LatestFirst'
  <2>1. ASSUME NEW u \in Publisher, u # t
        PROVE  u \in Thread /\ pc'[u] # "fanout"
    <3>1. u \in Thread /\ pc'[u] = pc[u]
      BY <1>1, <1>2, <2>1, Threads DEF Publisher, BInv, BTypes
    <3>2. pc[u] # "fanout"
      BY <1>1, <3>1, Stationed, NullIsNothing DEF Publisher, Fanning
    <3>. QED  BY <3>1, <3>2
  <2>2. publishing'[t] = published'
    BY <1>1, <1>2 DEF BusInv, BusTypes
  <2>. QED  BY <2>1, <2>2 DEF LatestFirst
<1>6. ASSUME NEW n \in Conn
      PROVE  AtMost(inbox[n], published + 1)
  <2>1. inbox[n] \in Seq(Messages) /\ AtMost(inbox[n], published) /\ published \in Nat
    BY DEF BusInv, BusTypes, InOrder
  <2>2. \A k \in Nat : k <= published => k <= published + 1
    BY <2>1, SMT
  <2>. QED  BY <2>1, <2>2, MessageNumbers DEF AtMost
<1>. QED  BY <1>2, <1>4, <1>5, <1>6 DEF BusInv, InOrder

\* A list stays in order when its latest, or an equally late, message comes behind it.
LEMMA AppendInOrder ==
  ASSUME NEW s \in Seq(Messages), NEW m \in Messages, Increasing(s), AtMost(s, m.no)
  PROVE  Increasing(Append(s, m)) /\ AtMost(Append(s, m), m.no)
<1>. DEFINE r == Append(s, m)
<1>1. /\ Len(r) = Len(s) + 1 /\ r[Len(s) + 1] = m /\ m.no <= m.no
      /\ \A i \in 1 .. Len(s) : r[i] = s[i]
      /\ \A i \in 1 .. Len(r) : i \in 1 .. Len(s) \/ i = Len(s) + 1
      /\ \A i \in 1 .. Len(s) : ~(Len(s) + 1 < i)
      /\ ~(Len(s) + 1 < Len(s) + 1)
  <2>1. m.no \in Nat
    BY DEF Messages
  <2>. QED  BY <2>1, SMT
<1>. HIDE DEF r
<1>2. Increasing(r)
  BY <1>1 DEF Increasing, AtMost
<1>3. AtMost(r, m.no)
  BY <1>1 DEF AtMost
<1>. QED  BY <1>2, <1>3 DEF r

\* The subscriber that pubsub_publish writes to.
Receiver(t) == Found(t, Lookup(Current(t)))
LEMMA ReceiverIsClient ==
  ASSUME IInv, AInv, NEW t \in Publisher, publish_write(t)
  PROVE  Receiver(t) = Lookup(Current(t)) /\ Current(t) \in Fd /\ Receiver(t) \in Client
<1>1. t \in Thread /\ Fanning(t) /\ pc[t] = "fanout" /\ Station(t)
  BY Stationed DEF Publisher, publish_write, At
<1>2. Receiver(t) = Lookup(Current(t)) /\ Receiver(t) # NULL
  BY <1>1 DEF Fanning, Station, publish_write, get_visit, Receiver, Found
<1>. QED  BY <1>2 DEF Lookup, IInv, cmTypeOK

LEMMA WriteKeepsBus ==
  ASSUME IInv, BInv, AInv, BusInv, NEW t \in Publisher, publish_write(t)
  PROVE  BusInv'
<1>. DEFINE p == Receiver(t)
            m == [topic |-> local[t].topic, no |-> publishing[t], tls |-> session[p].ssl,
                  auth |-> session[p].auth]
<1>1. /\ UNCHANGED <<pc, published, publishing>>
      /\ inbox' \in {inbox, [inbox EXCEPT ![ConnOf(p)] = Append(@, m)]}
      /\ pc[t] = "fanout"
  BY DEF publish_write, At, Receiver
<1>2. t \in Thread /\ publishing[t] = published
  BY <1>1, Threads DEF Publisher, BusInv, LatestFirst
<1>3. m \in Messages
  <2>1. local[t] \in Locals /\ session[p] \in Sessions /\ publishing[t] \in Nat
    BY <1>2, ReceiverIsClient DEF BInv, BTypes, BusInv, BusTypes
  <2>. QED  BY <2>1, SMT DEF Messages, Locals, Sessions
<1>4. m.no = published
  BY <1>2
<1>. HIDE DEF m
<1>5. ASSUME NEW n \in Conn
      PROVE  /\ Append(inbox[n], m) \in Seq(Messages)
             /\ Increasing(Append(inbox[n], m)) /\ AtMost(Append(inbox[n], m), published)
  <2>1. inbox[n] \in Seq(Messages) /\ Increasing(inbox[n]) /\ AtMost(inbox[n], m.no)
    BY <1>4 DEF BusInv, BusTypes, InOrder
  <2>2. Append(inbox[n], m) \in Seq(Messages)
    BY <1>3, <2>1, SMT
  <2>. QED  BY <1>3, <1>4, <2>1, <2>2, AppendInOrder
<1>6. ASSUME NEW n \in Conn
      PROVE  inbox'[n] \in Seq(Messages) /\ Increasing(inbox'[n]) /\ AtMost(inbox'[n], published)
  <2>1. inbox'[n] \in {inbox[n], Append(inbox[n], m)}
    BY <1>1 DEF BusInv, BusTypes
  <2>. QED  BY <1>5, <2>1 DEF BusInv, BusTypes, InOrder
<1>7. inbox' = [n \in Conn |-> inbox'[n]]
  BY <1>1 DEF BusInv, BusTypes
<1>. QED  BY <1>1, <1>6, <1>7 DEF BusInv, BusTypes, LatestFirst, InOrder

LEMMA BusNext == IInv /\ BInv /\ AInv /\ BusInv /\ [Next]_vars => BusInv'
<1>. SUFFICES ASSUME IInv, BInv, AInv, BusInv, NEW t \in Thread, NoMessage(t) PROVE BusInv'
  BY BusSteps, LockKeepsBus, WriteKeepsBus
<1>1. UNCHANGED busVars /\ \A u \in Thread : pc'[u] = "fanout" => pc[u] = "fanout"
  BY DEF NoMessage, GotoWith, BInv, BTypes
<1>. QED  BY <1>1, Threads DEF busVars, BusInv, BusTypes, LatestFirst, InOrder, Publisher

\* So two messages come in the same order wherever both come.
LEMMA OneOrder == BusInv => SameOrder
<1>. SUFFICES ASSUME BusInv, NEW m \in Conn, NEW n \in Conn,
                     NEW i \in DOMAIN inbox[m], NEW j \in DOMAIN inbox[m],
                     NEW k \in DOMAIN inbox[n], NEW l \in DOMAIN inbox[n],
                     Same(inbox[m][i], inbox[n][k]), Same(inbox[m][j], inbox[n][l]),
                     ~Same(inbox[m][i], inbox[m][j]), i < j
              PROVE  k < l
  BY DEF SameOrder
<1>1. inbox[m] \in Seq(Messages) /\ inbox[n] \in Seq(Messages) /\ Increasing(inbox[m]) /\ Increasing(inbox[n])
  BY DEF BusInv, BusTypes, InOrder
<1>2. /\ i \in 1 .. Len(inbox[m]) /\ j \in 1 .. Len(inbox[m])
      /\ k \in 1 .. Len(inbox[n]) /\ l \in 1 .. Len(inbox[n])
      /\ inbox[m][i].no \in Nat /\ inbox[m][j].no \in Nat
  BY <1>1, MessageNumbers
<1>3. inbox[m][i].no <= inbox[m][j].no /\ (l < k => inbox[m][j].no <= inbox[m][i].no)
  BY <1>1, <1>2 DEF Increasing, Same
<1>4. k < l \/ k = l \/ l < k
  BY <1>1, <1>2, SMT
<1>5. \A a, b \in Nat : a <= b /\ b <= a => a = b
  BY SMT
<1>. QED  BY <1>2, <1>3, <1>4, <1>5 DEF Same

LEMMA BusInit == Init => BusInv
<1>. SUFFICES ASSUME Init PROVE BusInv
  OBVIOUS
<1>1. published = 0 /\ publishing = [t \in Thread |-> 0] /\ inbox = [n \in Conn |-> <<>>]
      /\ pc = [t \in Thread |-> "idle"]
  BY DEF Init
<1>2. 0 \in Nat /\ <<>> \in Seq(Messages) /\ Increasing(<<>>) /\ AtMost(<<>>, 0)
  BY SMT DEF Increasing, AtMost
<1>. QED  BY <1>1, <1>2, Threads DEF BusInv, BusTypes, LatestFirst, InOrder, Publisher

----------------------------------------------------------------------------
(* Without the heartbeat: who has authenticated has been verified and has  *)
(* the name of its certificate, or is about to get it from the worker that *)
(* has it in its hands; and no command is executed before.                 *)

Naming == {"set_hostname", "copy_hostname"}
Trusted == {"commands", "publish", "fanout", "relock"}

NamedClient(p) ==
  heap[p].alloc /\ session[p].auth =>
    /\ Verified(heap[p].conn)
    /\ \/ heap[p].hostname = peer[heap[p].conn].cn
       \/ \E w \in Worker : pc[w] \in Naming /\ local[w].fd = heap[p].fd
KnowsName(w) ==
  /\ pc[w] \in Naming => local[w].cn = peer[local[w].conn].cn
  /\ pc[w] = "copy_hostname" => arg[w] = local[w].cn /\ ptr[w] = fd_key[local[w].fd]
  /\ pc[w] \in Trusted => session[fd_key[local[w].fd]].auth
RowsNamed == \A r \in db : r.conn # 0 => Verified(r.conn) /\ r.host = peer[r.conn].cn

NamesOwned == RowsNamed /\ (\A p \in Client : NamedClient(p)) /\ \A w \in Worker : KnowsName(w)
NameInv == ~load.heartbeat => NamesOwned

\* Every call of the registry but accept and the one that names a client: it makes no
\* client, and those it does not free stay who they are.
Call(t) ==
  \/ UNCHANGED cmVars \/ touch(t) \/ client_unlock(t)
  \/ client_remove_destroy(t) \/ walk_begin(t) \/ walk_end(t) \/ client_add(t)
  \/ \E p : \/ get_wait(t, p, "getting") \/ get_wait(t, p, "asking") \/ get_lock(t, p)
            \/ get_visit(t, p) \/ grow_idle(p) \/ walk_visit(t, p, TRUE) \/ walk_visit(t, p, FALSE)
  \/ \E f : close_lobby(f) \/ \E h : client_set_hostname(t, f, h)
  \/ \E f \in Fd : client_remove(t, f)
  \/ \E e : sweep_next(e)

Persists(p) ==
  heap'[p].alloc => heap[p].alloc /\ heap'[p].fd = heap[p].fd /\ heap'[p].conn = heap[p].conn
SameName(p) == heap'[p].alloc => heap'[p].hostname = heap[p].hostname

LEMMA CallFrames ==
  ASSUME IInv, NEW t, Call(t), NEW p \in Client
  PROVE  Persists(p) /\ SameName(p) /\ heap'[p].hostname \in {heap[p].hostname, NULL}
<1>1. heap \in [Client -> Structs]
  BY DEF IInv, cmTypeOK
<1>2. \/ heap' = heap
      \/ \E q, x : heap' = [heap EXCEPT ![q].lock = x] \/ heap' = [heap EXCEPT ![q].idle = x]
      \/ \E q : heap' = [heap EXCEPT ![q] = Freed]
  BY DEF Call, cmVars, touch, client_unlock, client_remove_destroy, walk_begin, walk_end, client_add,
       get_wait, get_lock, get_visit, grow_idle, walk_visit, close_lobby, client_remove,
       client_set_hostname, sweep_next
<1>. DEFINE Alike == /\ heap'[p].alloc = heap[p].alloc /\ heap'[p].fd = heap[p].fd
                     /\ heap'[p].conn = heap[p].conn /\ heap'[p].hostname = heap[p].hostname
<1>3. ASSUME NEW q, NEW x, heap' = [heap EXCEPT ![q].lock = x]
      PROVE  Alike
  BY <1>1, <1>3, SMT DEF Structs
<1>4. ASSUME NEW q, NEW x, heap' = [heap EXCEPT ![q].idle = x]
      PROVE  Alike
  BY <1>1, <1>4, SMT DEF Structs
<1>5. ASSUME NEW q, heap' = [heap EXCEPT ![q] = Freed]
      PROVE  heap'[p] = heap[p] \/ (~heap'[p].alloc /\ heap'[p].hostname = NULL)
  BY <1>1, <1>5 DEF Freed
<1>6. Alike \/ (~heap'[p].alloc /\ heap'[p].hostname = NULL)
  BY <1>2, <1>3, <1>4, <1>5
<1>. QED  BY <1>6 DEF Persists, SameName

LEMMA NamingFrames ==
  ASSUME IInv, NEW t \in Thread, client_set_hostname_copy(t), NEW p \in Client
  PROVE  /\ Persists(p)
         /\ p # ptr[t] => SameName(p) /\ heap'[p].hostname = heap[p].hostname
         /\ p = ptr[t] => heap'[p].hostname = arg[t]
<1>1. heap \in [Client -> Structs] /\ heap' = [heap EXCEPT ![ptr[t]].hostname = arg[t]]
  BY DEF IInv, cmTypeOK, client_set_hostname_copy
<1>2. /\ heap'[p].alloc = heap[p].alloc /\ heap'[p].fd = heap[p].fd /\ heap'[p].conn = heap[p].conn
      /\ p # ptr[t] => heap'[p].hostname = heap[p].hostname
      /\ p = ptr[t] => heap'[p].hostname = arg[t]
  BY <1>1, SMT DEF Structs
<1>. QED  BY <1>2 DEF Persists, SameName

LEMMA WorkerCalls ==
  ASSUME BInv, NEW w \in Worker, WorkerStep(w)
  PROVE  Call(w) \/ worker_copy_hostname(w)
<1>1. CASE \/ worker_queue_read(w) \/ worker_lookup(w) \/ handshake_pending(w) \/ handshake_failed(w)
           \/ handshake_done(w) \/ worker_set_hostname(w) \/ worker_rearm(w)
  BY <1>1 DEF Call, worker_queue_read, worker_lookup, handshake_pending, handshake_failed,
       handshake_done, worker_set_hostname, worker_rearm
<1>2. CASE \/ read_nothing(w) \/ read_disconnected(w) \/ read_data(w) \/ command_no_effect(w)
           \/ command_set_get(w) \/ command_subscribe(w) \/ command_unsubscribe(w)
           \/ command_publish(w)
  BY <1>2 DEF Call, read_nothing, read_disconnected, read_data, command_no_effect,
       command_set_get, command_subscribe, command_unsubscribe, command_publish
<1>3. CASE \/ publish_lock(w) \/ publish_skip(w) \/ publish_wait(w) \/ publish_write(w)
           \/ publish_unlock(w, "relock") \/ worker_relock(w) \/ commands_done(w)
           \/ worker_unsubscribe_all(w) \/ remove_destroy(w, "idle")
  BY <1>3 DEF Call, publish_lock, publish_skip, publish_wait, publish_write, publish_unlock,
       worker_relock, commands_done, worker_unsubscribe_all, remove_destroy
<1>4. CASE worker_lobby(w) \/ enroll_sign(w) \/ enroll_reply(w) \/ worker_close(w)
  BY <1>4 DEF Call, worker_lobby, enroll_sign, enroll_reply, worker_close
<1>5. CASE remove_unmap(w, "idle")
  <2>1. local[w].fd \in Fd /\ client_remove(w, local[w].fd)
    BY <1>5, Threads DEF remove_unmap, At, BInv, Positions, PositionOf
  <2>. QED  BY <2>1 DEF Call
<1>. QED  BY <1>1, <1>2, <1>3, <1>4, <1>5 DEF WorkerStep

\* What a step does to the sessions: nobody loses theirs, and whose handshake it completes.
SameSession(p) ==
  /\ heap[p].alloc /\ session[p].auth => session'[p].auth
  /\ heap'[p].alloc /\ session'[p].auth => heap[p].alloc /\ session[p].auth

LEMMA SessionChange ==
  ASSUME BInv, NEW p \in Client, Persists(p),
         \/ session' = session
         \/ \E q, x : session' = [session EXCEPT ![q].ssl = x] \/ session' = [session EXCEPT ![q].lines = x]
  PROVE  SameSession(p)
<1>1. session \in [Client -> Sessions]
  BY DEF BInv, BTypes
<1>2. ASSUME NEW q, NEW x, session' = [session EXCEPT ![q].ssl = x]
      PROVE  session'[p].auth = session[p].auth
  BY <1>1, <1>2, SMT DEF Sessions
<1>3. ASSUME NEW q, NEW x, session' = [session EXCEPT ![q].lines = x]
      PROVE  session'[p].auth = session[p].auth
  BY <1>1, <1>3, SMT DEF Sessions
<1>4. session'[p].auth = session[p].auth
  BY <1>2, <1>3
<1>. QED  BY <1>4 DEF SameSession, Persists

LEMMA WorkerSessions ==
  ASSUME BInv, NEW w \in Worker, WorkerStep(w), ~handshake_done(w), NEW p \in Client, Persists(p)
  PROVE  SameSession(p)
<1>1. CASE \/ worker_queue_read(w) \/ worker_lookup(w) \/ handshake_pending(w) \/ handshake_failed(w)
           \/ worker_set_hostname(w) \/ worker_copy_hostname(w) \/ worker_rearm(w)
  BY <1>1, SessionChange DEF worker_queue_read, worker_lookup, handshake_pending, handshake_failed,
       worker_set_hostname, worker_copy_hostname, worker_rearm
<1>2. CASE \/ read_nothing(w) \/ read_disconnected(w) \/ read_data(w) \/ command_no_effect(w)
           \/ command_set_get(w) \/ command_subscribe(w) \/ command_unsubscribe(w)
           \/ command_publish(w)
  BY <1>2, SessionChange DEF read_nothing, read_disconnected, read_data, command_no_effect,
       command_set_get, command_subscribe, command_unsubscribe, command_publish, PopLine
<1>3. CASE \/ publish_lock(w) \/ publish_skip(w) \/ publish_wait(w) \/ publish_write(w)
           \/ publish_unlock(w, "relock") \/ worker_relock(w) \/ commands_done(w)
           \/ worker_unsubscribe_all(w) \/ remove_unmap(w, "idle") \/ remove_destroy(w, "idle")
  <2>1. session' = session
    BY <1>3 DEF publish_lock, publish_skip, publish_wait, publish_write, publish_unlock,
         worker_relock, commands_done, worker_unsubscribe_all, remove_unmap, remove_destroy, brokerVars
  <2>. QED  BY <2>1, SessionChange
<1>4. CASE worker_lobby(w) \/ enroll_sign(w) \/ enroll_reply(w) \/ worker_close(w)
  <2>1. worker_lobby(w) \/ enroll_sign(w) \/ worker_close(w) => session' = session
    BY DEF worker_lobby, enroll_sign, worker_close
  <2>2. ASSUME enroll_reply(w) PROVE UNCHANGED session
    BY <2>2 DEF enroll_reply
  <2>. QED  BY <1>4, <2>1, <2>2, SessionChange
<1>. QED  BY <1>1, <1>2, <1>3, <1>4 DEF WorkerStep

\* How a worker comes where it is.
LEMMA WorkerPlaces ==
  ASSUME BInv, NEW w \in Worker, WorkerStep(w)
  PROVE  /\ pc'[w] = "set_hostname" => handshake_done(w)
         /\ pc'[w] = "copy_hostname" => worker_set_hostname(w)
         /\ pc'[w] \in Trusted => pc[w] \in Trusted \/ read_data(w)
         /\ pc[w] \in Naming => worker_set_hostname(w) \/ worker_copy_hostname(w)
         /\ pc'[w] = "remove" => handshake_failed(w) \/ worker_unsubscribe_all(w)
<1>1. /\ \A b, l : GotoWith(w, b, l) => pc'[w] = b
      /\ \A b : Goto(w, b) => pc'[w] = b
      /\ UNCHANGED pc => pc'[w] = pc[w]
  BY GotoEffect, Threads DEF BInv
<1>. USE DEF Trusted, Naming, At
<1>2. CASE worker_queue_read(w) \/ worker_lookup(w) \/ handshake_pending(w) \/ handshake_failed(w)
  BY <1>1, <1>2 DEF worker_queue_read, worker_lookup, handshake_pending, handshake_failed, Handshaking
<1>3. CASE handshake_done(w) \/ worker_set_hostname(w) \/ worker_copy_hostname(w) \/ worker_rearm(w)
  BY <1>1, <1>3 DEF handshake_done, worker_set_hostname, worker_copy_hostname, worker_rearm, Handshaking
<1>4. CASE \/ read_nothing(w) \/ read_disconnected(w) \/ read_data(w) \/ command_no_effect(w)
           \/ command_set_get(w) \/ command_subscribe(w) \/ command_unsubscribe(w)
           \/ command_publish(w)
  BY <1>1, <1>4 DEF read_nothing, read_disconnected, read_data, command_no_effect, Reading, Looping,
       command_set_get, command_subscribe, command_unsubscribe, command_publish
<1>5. CASE \/ publish_lock(w) \/ publish_skip(w) \/ publish_wait(w) \/ publish_write(w)
           \/ publish_unlock(w, "relock")
  BY <1>1, <1>5 DEF publish_lock, publish_skip, publish_wait, publish_write, publish_unlock, brokerVars
<1>6. CASE \/ worker_relock(w) \/ commands_done(w)
           \/ worker_unsubscribe_all(w) \/ remove_unmap(w, "idle") \/ remove_destroy(w, "idle")
  BY <1>1, <1>6 DEF worker_relock, commands_done, worker_unsubscribe_all, remove_unmap, remove_destroy
<1>7. CASE worker_lobby(w) \/ enroll_sign(w) \/ enroll_reply(w) \/ worker_close(w)
  BY <1>1, <1>7 DEF worker_lobby, enroll_sign, enroll_reply, worker_close
<1>. QED  BY <1>2, <1>3, <1>4, <1>5, <1>6, <1>7 DEF WorkerStep

\* What a worker writes to the database.
LEMMA WorkerRows ==
  ASSUME NEW w \in Worker, WorkerStep(w)
  PROVE  db' = db \/ (pc[w] = "commands" /\ \E x : db' = db \cup {Row(w, x)})
<1>1. CASE \/ worker_queue_read(w) \/ worker_lookup(w) \/ handshake_pending(w) \/ handshake_failed(w)
           \/ handshake_done(w) \/ worker_set_hostname(w) \/ worker_copy_hostname(w) \/ worker_rearm(w)
  BY <1>1 DEF worker_queue_read, worker_lookup, handshake_pending, handshake_failed, handshake_done,
       worker_set_hostname, worker_copy_hostname, worker_rearm, dataVars
<1>2. CASE \/ read_nothing(w) \/ read_disconnected(w) \/ read_data(w) \/ command_no_effect(w)
           \/ command_set_get(w) \/ command_subscribe(w) \/ command_unsubscribe(w)
           \/ command_publish(w)
  BY <1>2 DEF read_nothing, read_disconnected, read_data, command_no_effect, Looping, At, dataVars,
       command_set_get, command_subscribe, command_unsubscribe, command_publish
<1>3. CASE \/ publish_lock(w) \/ publish_skip(w) \/ publish_wait(w) \/ publish_write(w)
           \/ publish_unlock(w, "relock") \/ worker_relock(w) \/ commands_done(w)
           \/ worker_unsubscribe_all(w) \/ remove_unmap(w, "idle") \/ remove_destroy(w, "idle")
  BY <1>3 DEF publish_lock, publish_skip, publish_wait, publish_write, publish_unlock, worker_relock,
       commands_done, worker_unsubscribe_all, remove_unmap, remove_destroy, brokerVars, dataVars
<1>4. CASE worker_lobby(w) \/ enroll_sign(w) \/ enroll_reply(w) \/ worker_close(w)
  BY <1>4 DEF worker_lobby, enroll_sign, enroll_reply, worker_close, dataVars
<1>. QED  BY <1>1, <1>2, <1>3, <1>4 DEF WorkerStep

\* A registered client keeps its key.
LEMMA KeyStays ==
  ASSUME IInv, IInv', [cmNext]_cmVars, NEW f \in Fd, fd_key[f] # NULL, fd_key'[f] # NULL
  PROVE  fd_key'[f] = fd_key[f]
<1>1. /\ fd_key[f] \in Client /\ SameStruct(fd_key[f])
      /\ heap[fd_key[f]].alloc /\ heap[fd_key[f]].fd = f
  BY RegisteredStays, RegisteredClient
<1>2. fd_key' \in [Fd -> Client \cup {NULL}] /\ KeysLeadToStructs' /\ OneStructPerFd'
  BY DEF IInv, cmTypeOK
<1>3. fd_key'[f] \in Client /\ heap'[fd_key'[f]].alloc /\ heap'[fd_key'[f]].fd = f
  BY <1>2 DEF KeysLeadToStructs
<1>4. heap'[fd_key[f]].alloc /\ heap'[fd_key[f]].fd = f
  BY <1>1 DEF SameStruct
<1>. QED  BY <1>1, <1>2, <1>3, <1>4 DEF OneStructPerFd

\* The client of a worker's task, once it has been looked up and before it is removed.
LEMMA OwnClient ==
  ASSUME IInv, BInv, NEW w \in Worker, Owns(w), Tending(w), pc[w] \notin {"lookup", "destroy"}
  PROVE  /\ local[w].fd \in Fd /\ fd_key[local[w].fd] # NULL /\ fd_key[local[w].fd] \in Client
         /\ heap[fd_key[local[w].fd]].alloc /\ heap[fd_key[local[w].fd]].fd = local[w].fd
         /\ heap[fd_key[local[w].fd]].conn = local[w].conn /\ local[w].conn \in 1 .. accepted
         /\ \A p \in Client : heap[p].alloc /\ heap[p].fd = local[w].fd => p = fd_key[local[w].fd]
<1>1. local[w].fd \in Fd
  BY Threads DEF BInv, Positions, PositionOf, Tending
<1>2. fd_key[local[w].fd] # NULL /\ sock[local[w].fd].conn = local[w].conn
  BY DEF Owns
<1>. QED  BY <1>1, <1>2, RegisteredClient DEF BInv, SocketsHavePeers

\* Nobody is logged out.
SessionsLast == \A p \in Client : heap[p].alloc /\ session[p].auth => session'[p].auth

LEMMA KnowsNameStays ==
  ASSUME IInv, BInv, IInv', [cmNext]_cmVars, SamePeople, SessionsLast, NEW u \in Worker,
         pc'[u] = pc[u], local'[u] = local[u], ptr'[u] = ptr[u], arg'[u] = arg[u],
         Owns(u), Owns(u)', KnowsName(u)
  PROVE  KnowsName(u)'
<1>. SUFFICES ASSUME pc[u] \in Naming \cup Trusted PROVE KnowsName(u)'
  BY DEF KnowsName, Naming
<1>1. Tending(u) /\ Tending(u)' /\ pc[u] \notin {"lookup", "destroy"}
  BY DEF Tending, Naming, Trusted, Enrolling
<1>2. /\ local[u].fd \in Fd /\ fd_key[local[u].fd] # NULL /\ fd_key[local[u].fd] \in Client
      /\ heap[fd_key[local[u].fd]].alloc /\ local[u].conn \in 1 .. accepted
  BY <1>1, OwnClient
<1>3. fd_key'[local[u].fd] = fd_key[local[u].fd]
  BY <1>1, <1>2, KeyStays DEF Owns
<1>4. peer'[local[u].conn].cn = peer[local[u].conn].cn
  BY <1>2 DEF SamePeople
<1>. QED  BY <1>2, <1>3, <1>4 DEF KnowsName, SessionsLast

\* A worker learns its client's name in the handshake, and executes commands once it has
\* been through one.
LEMMA WorkerKnowsName ==
  ASSUME IInv, BInv, AInv, SamePeople, SessionsLast, NEW w \in Worker, Owns(w), KnowsName(w),
         WorkerStep(w), Turn(w)
  PROVE  KnowsName(w)'
<1>1. w \in Thread /\ Knows(w)
  BY Threads DEF AInv
<1>2. ASSUME pc'[w] = "set_hostname"
      PROVE  local'[w].cn = peer'[local'[w].conn].cn
  <2>1. handshake_done(w) /\ pc[w] = "client"
    BY <1>2, WorkerPlaces DEF handshake_done, Handshaking, At
  <2>2. local' = [local EXCEPT ![w] = [local[w] EXCEPT !.cn = Peer(w).cn]] /\ local \in [Thread -> Locals]
    BY <2>1 DEF handshake_done, GotoWith, BInv, BTypes
  <2>3. local'[w].cn = Peer(w).cn /\ local'[w].conn = local[w].conn
    BY <1>1, <2>2 DEF Locals
  <2>4. local[w].conn \in 1 .. accepted /\ sock[local[w].fd].conn = local[w].conn
    BY <2>1, OwnClient DEF Tending, Enrolling, Owns
  <2>5. Peer(w) = peer[local[w].conn]
    BY <1>1, <2>1, <2>4 DEF Knows, Peer, ConnOf, C
  <2>. QED  BY <2>3, <2>4, <2>5 DEF SamePeople
<1>3. ASSUME pc'[w] = "copy_hostname"
      PROVE  /\ local'[w].cn = peer'[local'[w].conn].cn
             /\ arg'[w] = local'[w].cn /\ ptr'[w] = fd_key'[local'[w].fd]
  <2>1. worker_set_hostname(w) /\ pc[w] = "set_hostname"
    BY <1>3, WorkerPlaces DEF worker_set_hostname, At
  <2>2. /\ local[w].conn \in 1 .. accepted /\ fd_key[local[w].fd] # NULL
        /\ local[w].cn = peer[local[w].conn].cn
    BY <2>1, OwnClient DEF Tending, Enrolling, KnowsName, Naming
  <2>3. local'[w] = local[w]
    <3>1. Goto(w, pc'[w])
      BY <1>1, <1>3, <2>1, GotoEffect DEF worker_set_hostname, BInv
    <3>. QED  BY <1>1, <1>3, <3>1, GotoEffect DEF BInv
  <2>4. arg'[w] = local[w].cn /\ ptr'[w] = fd_key[local[w].fd] /\ fd_key' = fd_key
    BY <1>1, <2>1, <2>2 DEF worker_set_hostname, client_set_hostname, Goes, IInv, cmTypeOK
  <2>. QED  BY <2>2, <2>3, <2>4 DEF SamePeople
<1>4. ASSUME pc'[w] \in Trusted
      PROVE  session'[fd_key'[local'[w].fd]].auth
  <2>1. pc[w] \in Trusted \/ (read_data(w) /\ pc[w] = "client" /\ session[C(w)].auth)
    BY <1>4, WorkerPlaces DEF read_data, Reading, At
  <2>2. local'[w].fd = local[w].fd /\ fd_key' = fd_key
    BY <1>4, <2>1 DEF Turn, GoesOn, Rearms, Drops, Unmaps, Finishes, Takes, Enrols, Trusted,
                      Enrolling, SameKeys
  <2>3. /\ fd_key[local[w].fd] \in Client /\ heap[fd_key[local[w].fd]].alloc
        /\ \A p \in Client : heap[p].alloc /\ heap[p].fd = local[w].fd => p = fd_key[local[w].fd]
    BY <2>1, OwnClient DEF Tending, Enrolling, Trusted
  <2>4. pc[w] = "client" => C(w) \in Client /\ heap[C(w)].alloc /\ heap[C(w)].fd = local[w].fd
    BY <1>1, Stationed DEF Station, IInv, HoldersOwnLocks, Knows, C
  <2>5. session[fd_key[local[w].fd]].auth
    BY <2>1, <2>3, <2>4 DEF KnowsName
  <2>. QED  BY <2>2, <2>3, <2>5 DEF SessionsLast
<1>. QED  BY <1>2, <1>3, <1>4 DEF KnowsName, Naming

\* Who has a name or a worker that will give it to them keeps it.
LEMMA NameStays ==
  ASSUME IInv, SamePeople, NEW p \in Client, Persists(p), SameName(p), SameSession(p), NamedClient(p),
         \A u \in Worker : pc[u] \in Naming /\ local[u].fd = heap[p].fd =>
                             pc'[u] \in Naming /\ local'[u].fd = local[u].fd
  PROVE  NamedClient(p)'
<1>. SUFFICES ASSUME heap'[p].alloc, session'[p].auth PROVE NamedClient(p)'
  BY DEF NamedClient
<1>1. /\ heap'[p].conn = heap[p].conn /\ heap'[p].fd = heap[p].fd /\ heap'[p].hostname = heap[p].hostname
      /\ heap[p].alloc /\ session[p].auth
  BY DEF Persists, SameName, SameSession
<1>2. PICK n : n = heap[p].conn
  OBVIOUS
<1>3. Verified(n)
  BY <1>1, <1>2 DEF NamedClient
<1>4. Verified(n)' /\ peer'[n].cn = peer[n].cn
  BY <1>3 DEF SamePeople, Verified
<1>. QED  BY <1>1, <1>2, <1>4 DEF NamedClient, Verified

\* The client that a worker authenticates waits for its name;
LEMMA Authenticated ==
  ASSUME IInv, BInv, AInv, SamePeople, NEW w \in Worker, handshake_done(w),
         NEW p \in Client, p = C(w), Persists(p)
  PROVE  NamedClient(p)'
<1>1. w \in Thread /\ pc[w] = "client" /\ Station(w) /\ Knows(w)
  BY Threads, Stationed DEF handshake_done, Handshaking, At, AInv
<1>2. heap[p].alloc /\ heap[p].fd = local[w].fd
  BY <1>1 DEF Station, IInv, HoldersOwnLocks, Knows, C
<1>3. /\ heap[p].fd \in Fd /\ sock[heap[p].fd] # Closed
      /\ sock[heap[p].fd] = [kind |-> "vault", conn |-> heap[p].conn]
  BY <1>2, VaultSocket DEF IInv, AllocatedIsOpen
<1>4. ConnOf(p) = heap[p].conn /\ heap[p].conn \in 1 .. accepted
  <2>1. sock[heap[p].fd].conn = heap[p].conn
    BY <1>3, SMT
  <2>. QED  BY <1>3, <2>1 DEF ConnOf, BInv, SocketsHavePeers
<1>5. Verified(heap[p].conn)
  BY <1>4 DEF handshake_done, auth_verify_mtls, auth_verify_identity, Verified, Peer
<1>6. pc'[w] = "set_hostname" /\ local'[w].fd = local[w].fd
  <2>1. GotoWith(w, "set_hostname", [local[w] EXCEPT !.cn = Peer(w).cn]) /\ local[w] \in Locals
    BY <1>1 DEF handshake_done, BInv, BTypes
  <2>2. \A l : GotoWith(w, "set_hostname", l) => pc'[w] = "set_hostname" /\ local'[w] = l
    BY <1>1, GotoEffect DEF BInv
  <2>3. [local[w] EXCEPT !.cn = Peer(w).cn].fd = local[w].fd
    BY <2>1 DEF Locals
  <2>. QED  BY <2>1, <2>2, <2>3
<1>7. PICK n : n = heap[p].conn
  OBVIOUS
<1>8. Verified(n)'
  BY <1>5, <1>7, PeopleStayVerified
<1>. QED  BY <1>2, <1>6, <1>7, <1>8 DEF NamedClient, Persists, Verified, Naming

\* and gets it when the worker copies it.
LEMMA Named ==
  ASSUME IInv, BInv, SamePeople, NEW w \in Worker, Owns(w), KnowsName(w), worker_copy_hostname(w),
         NEW p \in Client, p = ptr[w], NamedClient(p), SameSession(p)
  PROVE  NamedClient(p)'
<1>. SUFFICES ASSUME heap'[p].alloc, session'[p].auth PROVE NamedClient(p)'
  BY DEF NamedClient
<1>1. w \in Thread /\ pc[w] = "copy_hostname" /\ client_set_hostname_copy(w)
  BY Threads DEF worker_copy_hostname, At
<1>2. Persists(p) /\ heap'[p].hostname = arg[w]
  BY <1>1, NamingFrames
<1>3. heap'[p].conn = heap[p].conn /\ heap[p].alloc /\ session[p].auth
  BY <1>2 DEF Persists, SameSession
<1>4. arg[w] = peer[local[w].conn].cn /\ heap[p].conn = local[w].conn
  <2>1. arg[w] = peer[local[w].conn].cn /\ p = fd_key[local[w].fd]
    BY <1>1 DEF KnowsName, Naming
  <2>2. Tending(w) /\ pc[w] \notin {"lookup", "destroy"}
    BY <1>1 DEF Tending, Enrolling
  <2>3. heap[fd_key[local[w].fd]].conn = local[w].conn
    BY <2>2, OwnClient
  <2>. QED  BY <2>1, <2>3
<1>5. PICK n : n = heap[p].conn
  OBVIOUS
<1>6. Verified(n)
  BY <1>3, <1>5 DEF NamedClient
<1>7. Verified(n)' /\ peer'[n].cn = peer[n].cn
  BY <1>6 DEF SamePeople, Verified
<1>. QED  BY <1>2, <1>3, <1>4, <1>5, <1>7 DEF NamedClient, Verified

\* A command's row carries the name of its client.
LEMMA RowIsNamed ==
  ASSUME IInv, BInv, AInv, OwnedAll, NamesOwned, NEW w \in Worker, pc[w] = "commands", NEW x
  PROVE  Verified(Row(w, x).conn) /\ Row(w, x).host = peer[Row(w, x).conn].cn
<1>1. Station(w) /\ Knows(w) /\ Owns(w) /\ KnowsName(w) /\ w \in Thread
  BY Threads, Stationed DEF AInv, OwnedAll, NamesOwned
<1>2. C(w) \in Client /\ heap[C(w)].alloc /\ heap[C(w)].fd = local[w].fd
  BY <1>1 DEF Station, IInv, HoldersOwnLocks, Knows, C
<1>3. Tending(w) /\ local[w].fd \in Fd /\ C(w) = fd_key[local[w].fd]
  BY <1>1, <1>2, OwnClient DEF Tending, Enrolling
<1>4. session[C(w)].auth
  BY <1>1, <1>3 DEF KnowsName, Trusted
<1>5. ASSUME NEW u \in Worker, pc[u] \in Naming, local[u].fd = heap[C(w)].fd
      PROVE  FALSE
  <2>1. Tends(u, local[w].fd) /\ Tends(w, local[w].fd) /\ u # w
    BY <1>2, <1>3, <1>5 DEF Tends, Tending, Naming, Enrolling
  <2>. QED  BY <1>3, <2>1 DEF OwnedAll, VaultOwned, OwnedOnce
<1>6. Verified(heap[C(w)].conn) /\ heap[C(w)].hostname = peer[heap[C(w)].conn].cn
  BY <1>2, <1>4, <1>5 DEF NamesOwned, NamedClient
<1>. QED  BY <1>6 DEF Row

LEMMA RowsStay ==
  ASSUME SamePeople, RowsNamed,
         \/ db' = db
         \/ \E r : db' = db \cup {r} /\ (r.conn # 0 => Verified(r.conn) /\ r.host = peer[r.conn].cn)
  PROVE  RowsNamed'
<1>1. ASSUME NEW r \in db', r.conn # 0
      PROVE  Verified(r.conn) /\ r.host = peer[r.conn].cn
  BY <1>1 DEF RowsNamed
<1>. QED  BY <1>1, PeopleStayVerified DEF RowsNamed, Verified

LEMMA HandshakeSession ==
  ASSUME BInv, NEW w, handshake_done(w), NEW p \in Client, Persists(p)
  PROVE  (p # C(w) => SameSession(p)) /\ (p = C(w) => session'[p].auth)
<1>1. session \in [Client -> Sessions]
  BY DEF BInv, BTypes
<1>2. session' = [session EXCEPT ![C(w)].ssl = TRUE, ![C(w)].auth = TRUE]
  BY DEF handshake_done
<1>3. (p # C(w) => session'[p] = session[p]) /\ (p = C(w) => session'[p].auth = TRUE)
  BY <1>1, <1>2, SMT DEF Sessions
<1>. QED  BY <1>3 DEF SameSession, Persists

\* The name is on its way to the client from the map entry on.
LEMMA SetHostnameGoesOn ==
  ASSUME IInv, BInv, NEW w \in Worker, Owns(w), worker_set_hostname(w)
  PROVE  pc'[w] = "copy_hostname" /\ local'[w] = local[w]
<1>1. w \in Thread /\ pc[w] = "set_hostname" /\ fd_key[local[w].fd] # NULL
  BY Threads DEF worker_set_hostname, At, Owns, Tending, Enrolling
<1>2. at'[w] = "naming"
  BY <1>1 DEF worker_set_hostname, client_set_hostname, Goes, IInv, cmTypeOK
<1>3. Goto(w, "copy_hostname")
  BY <1>2 DEF worker_set_hostname
<1>4. GotoWith(w, "copy_hostname", local[w])
  BY <1>3 DEF Goto
<1>. QED  BY <1>1, <1>4 DEF GotoWith, BInv, BTypes

LEMMA WorkerLogsNobodyOut ==
  ASSUME IInv, BInv, NEW w \in Worker, WorkerStep(w)
  PROVE  SessionsLast
<1>1. w \in Thread /\ (worker_copy_hostname(w) => client_set_hostname_copy(w))
  BY Threads DEF worker_copy_hostname
<1>2. \A p \in Client : Persists(p)
  BY <1>1, WorkerCalls, CallFrames, NamingFrames
<1>. QED  BY <1>2, WorkerSessions, HandshakeSession DEF SessionsLast, SameSession

LEMMA WorkerKeepsNames ==
  ASSUME IInv, BInv, AInv, OwnedAll, NamesOwned, IInv', OwnedAll', [cmNext]_cmVars, SamePeople,
         NEW w \in Worker, WorkerStep(w), Moved(w), Turn(w)
  PROVE  NamesOwned'
<1>1. /\ w \in Thread /\ Owns(w) /\ KnowsName(w)
      /\ worker_copy_hostname(w) => client_set_hostname_copy(w)
  BY Threads DEF OwnedAll, NamesOwned, worker_copy_hostname
<1>2. ASSUME NEW p \in Client
      PROVE  Persists(p) /\ (SameName(p) \/ (worker_copy_hostname(w) /\ p = ptr[w]))
  BY <1>1, WorkerCalls, CallFrames, NamingFrames
<1>3. ASSUME NEW p \in Client
      PROVE  SameSession(p) \/ (handshake_done(w) /\ p = C(w))
  BY <1>2, WorkerSessions, HandshakeSession
<1>4. SessionsLast
  BY WorkerLogsNobodyOut
<1>5. ASSUME NEW u \in Worker
      PROVE  KnowsName(u)'
  <2>1. CASE u = w
    BY <1>1, <1>4, <2>1, WorkerKnowsName
  <2>2. CASE u # w
    <3>1. pc'[u] = pc[u] /\ local'[u] = local[u] /\ ptr'[u] = ptr[u] /\ arg'[u] = arg[u]
      BY <2>2, Threads DEF Moved, PcAlone, OthersKeep
    <3>2. Owns(u) /\ Owns(u)' /\ KnowsName(u)
      BY DEF OwnedAll, NamesOwned
    <3>. QED  BY <1>4, <3>1, <3>2, KnowsNameStays
  <2>. QED  BY <2>1, <2>2
<1>6. ASSUME NEW p \in Client
      PROVE  NamedClient(p)'
  <2>1. Persists(p) /\ NamedClient(p)
    BY <1>2 DEF NamesOwned
  <2>2. CASE handshake_done(w) /\ p = C(w)
    BY <2>1, <2>2, Authenticated
  <2>3. CASE SameSession(p) /\ worker_copy_hostname(w) /\ p = ptr[w]
    BY <1>1, <2>1, <2>3, Named
  <2>4. CASE SameSession(p) /\ SameName(p) /\ ~(worker_copy_hostname(w) /\ p = ptr[w])
    <3>1. ASSUME NEW u \in Worker, u # w, pc[u] \in Naming
          PROVE  pc'[u] \in Naming /\ local'[u].fd = local[u].fd
      BY <3>1, Threads DEF Moved, PcAlone
    <3>2. ASSUME pc[w] \in Naming, local[w].fd = heap[p].fd, heap[p].alloc
          PROVE  pc'[w] \in Naming /\ local'[w].fd = local[w].fd
      <4>1. ~worker_copy_hostname(w)
        <5>1. SUFFICES ASSUME worker_copy_hostname(w) PROVE p = ptr[w]
          BY <2>4
        <5>2. pc[w] = "copy_hostname" /\ Tending(w)
          BY <5>1 DEF worker_copy_hostname, At, Tending, Enrolling
        <5>3. ptr[w] = fd_key[local[w].fd]
          BY <1>1, <5>2 DEF KnowsName
        <5>. QED  BY <1>1, <3>2, <5>2, <5>3, OwnClient
      <4>2. worker_set_hostname(w)
        BY <3>2, <4>1, WorkerPlaces
      <4>. QED  BY <1>1, <4>2, SetHostnameGoesOn DEF Naming
    <3>3. CASE heap[p].alloc
      BY <2>1, <2>4, <3>1, <3>2, <3>3, NameStays
    <3>4. CASE ~heap[p].alloc
      BY <2>1, <3>4 DEF Persists, NamedClient
    <3>. QED  BY <3>3, <3>4
  <2>. QED  BY <1>2, <1>3, <2>2, <2>3, <2>4
<1>7. RowsNamed'
  <2>1. CASE db' = db
    BY <2>1, RowsStay DEF NamesOwned
  <2>2. ASSUME NEW x, db' = db \cup {Row(w, x)}, pc[w] = "commands"
        PROVE  RowsNamed'
    BY <2>2, RowIsNamed, RowsStay DEF NamesOwned
  <2>. QED  BY <2>1, <2>2, WorkerRows
<1>. QED  BY <1>5, <1>6, <1>7 DEF NamesOwned

\* A step of a thread that is no worker, and accepts nobody.
LEMMA RestKeepsNames ==
  ASSUME IInv, BInv, OwnedAll, NamesOwned, IInv', OwnedAll', [cmNext]_cmVars, SamePeople,
         NEW t \in {Main, Cli}, Moved(t), session' = session, RowsNamed',
         \A p \in Client : Persists(p) /\ SameName(p)
  PROVE  NamesOwned'
<1>1. ASSUME NEW u \in Worker
      PROVE  pc'[u] = pc[u] /\ local'[u] = local[u] /\ ptr'[u] = ptr[u] /\ arg'[u] = arg[u]
  BY Threads DEF Moved, PcAlone, OthersKeep
<1>2. SessionsLast /\ \A p \in Client : SameSession(p)
  BY DEF SessionsLast, SameSession, Persists
<1>3. \A u \in Worker : KnowsName(u)'
  BY <1>1, <1>2, KnowsNameStays DEF OwnedAll, NamesOwned
<1>4. \A p \in Client : NamedClient(p)'
  BY <1>1, <1>2, NameStays DEF NamesOwned
<1>. QED  BY <1>3, <1>4 DEF NamesOwned

\* The operator names nobody, and what the operator sets is under no client's name.
LEMMA CliCalls ==
  ASSUME CliStep
  PROVE  /\ Call(Cli) /\ session' = session
         /\ db' = db \/ \E r : db' = db \cup {r} /\ r.conn = 0
<1>1. CASE \/ cli_find("find_subscribe", "subscribe") \/ cli_find("find_unsubscribe", "unsubscribe")
           \/ cli_subscribe \/ cli_unsubscribe \/ publish_skip(Cli) \/ publish_wait(Cli)
  BY <1>1 DEF Call, brokerVars, dataVars, cli_find, cli_subscribe, cli_unsubscribe,
       publish_skip, publish_wait
<1>2. CASE publish_lock(Cli) \/ publish_write(Cli) \/ publish_unlock(Cli, "idle")
  BY <1>2 DEF Call, dataVars, publish_lock, publish_write, publish_unlock
<1>3. CASE status_clients \/ status_lock \/ status_visit \/ status_turn \/ status_unlock
  BY <1>3 DEF Call, brokerVars, dataVars, status_clients, status_lock, status_visit,
       status_turn, status_unlock
<1>4. CASE \E c \in load.typed : cli_input(c)
  BY <1>4 DEF Call, dataVars, cli_input
<1>5. CASE cli_set
  <2>. DEFINE r == [table |-> "device_state", host |-> local[Cli].cn, topic |-> local[Cli].topic,
                    op |-> "SET", conn |-> 0]
  <2>1. db' = db \cup {r} /\ r.conn = 0
    BY <1>5 DEF cli_set
  <2>2. UNCHANGED cmVars /\ session' = session
    BY <1>5 DEF cli_set
  <2>. HIDE DEF r
  <2>. QED  BY <2>1, <2>2 DEF Call
<1>. QED  BY <1>1, <1>2, <1>3, <1>4, <1>5 DEF CliStep, CliWork

LEMMA CliKeepsNames ==
  ASSUME IInv, BInv, OwnedAll, NamesOwned, IInv', OwnedAll', [cmNext]_cmVars, SamePeople,
         CliStep, Moved(Cli)
  PROVE  NamesOwned'
<1>1. RowsNamed'
  BY CliCalls, RowsStay DEF NamesOwned
<1>2. \A p \in Client : Persists(p) /\ SameName(p)
  BY CliCalls, CallFrames
<1>. QED  BY <1>1, <1>2, CliCalls, RestKeepsNames

\* Who connects has no session.
LEMMA MainCalls ==
  ASSUME MainStep \/ MainAccept \/ PeerStep \/ UNCHANGED vars
  PROVE  /\ db' = db
         /\ \/ Call(Main) /\ session' = session
            \/ /\ session' = session /\ heap' = heap
               /\ fd_key' = fd_key /\ host_key' = host_key /\ at' = at /\ ptr' = ptr
            \/ \E p \in Client : /\ \E f \in Fd : accept_vault(Main, f, p)
                                 /\ session' = [session EXCEPT ![p] = NoSession]
<1>1. CASE MainStep \/ PeerStep \/ UNCHANGED vars
  BY <1>1 DEF MainStep, PeerStep, main_client_add, main_queue_write, main_dispatch, peer_send,
       peer_close, client_silent, Call, vars, brokerVars, dataVars
<1>2. ASSUME NEW f, NEW cn, NEW a, NEW kind, main_accept_lobby(f, cn, a, kind)
      PROVE  /\ db' = db /\ session' = session /\ heap' = heap
             /\ fd_key' = fd_key /\ host_key' = host_key /\ at' = at /\ ptr' = ptr
  BY <1>2 DEF main_accept_lobby, accept_lobby, dataVars
<1>3. ASSUME NEW f, NEW p, NEW cn, NEW a, NEW s, main_accept_vault(f, p, cn, a, s)
      PROVE  db' = db /\ accept_vault(Main, f, p) /\ session' = [session EXCEPT ![p] = NoSession]
  BY <1>3 DEF main_accept_vault, dataVars
<1>. QED  BY <1>1, <1>2, <1>3 DEF MainAccept

LEMMA MainKeepsNames ==
  ASSUME IInv, BInv, OwnedAll, NamesOwned, IInv', OwnedAll', [cmNext]_cmVars, SamePeople,
         MainStep \/ MainAccept \/ PeerStep \/ UNCHANGED vars, Moved(Main)
  PROVE  NamesOwned'
<1>1. RowsNamed'
  BY MainCalls, RowsStay DEF NamesOwned
<1>2. CASE Call(Main) /\ session' = session
  <2>1. \A p \in Client : Persists(p) /\ SameName(p)
    BY <1>2, CallFrames
  <2>. QED  BY <1>1, <1>2, <2>1, RestKeepsNames
<1>3. CASE session' = session /\ heap' = heap
  <2>1. \A p \in Client : Persists(p) /\ SameName(p)
    BY <1>3 DEF Persists, SameName
  <2>. QED  BY <1>1, <1>3, <2>1, RestKeepsNames
<1>4. ASSUME NEW f, NEW q \in Client, accept_vault(Main, f, q), session' = [session EXCEPT ![q] = NoSession]
      PROVE  NamesOwned'
  <2>1. ASSUME NEW u \in Worker
        PROVE  pc'[u] = pc[u] /\ local'[u] = local[u] /\ ptr'[u] = ptr[u] /\ arg'[u] = arg[u]
    BY Threads DEF Moved, PcAlone, OthersKeep
  <2>2. /\ ~heap[q].alloc /\ session'[q].auth = FALSE
        /\ \A p \in Client : p # q => heap'[p] = heap[p] /\ session'[p] = session[p]
    BY <1>4 DEF accept_vault, IInv, cmTypeOK, BInv, BTypes, NoSession
  <2>3. SessionsLast
    BY <2>2 DEF SessionsLast
  <2>4. \A u \in Worker : KnowsName(u)'
    BY <2>1, <2>3, KnowsNameStays DEF OwnedAll, NamesOwned
  <2>5. ASSUME NEW p \in Client, p # q
        PROVE  NamedClient(p)'
    <3>1. Persists(p) /\ SameName(p) /\ SameSession(p)
      BY <2>2, <2>5 DEF Persists, SameName, SameSession
    <3>. QED  BY <2>1, <3>1, NameStays DEF NamesOwned
  <2>6. NamedClient(q)'
    BY <2>2 DEF NamedClient
  <2>. QED  BY <1>1, <2>4, <2>5, <2>6 DEF NamesOwned
<1>. QED  BY <1>2, <1>3, <1>4, MainCalls

LEMMA NamesInit == Init => NameInv
<1>. SUFFICES ASSUME Init PROVE NamesOwned
  BY DEF NameInv
<1>1. /\ pc = [t \in Thread |-> "idle"] /\ heap = [p \in Client |-> Freed] /\ db = {}
  BY DEF Init, client_manager_init
<1>. QED  BY <1>1, Threads DEF NamesOwned, RowsNamed, NamedClient, KnowsName, Freed, Naming, Trusted

LEMMA RowsAreNamed == NameInv => RowsNameTheirSender
BY DEF NameInv, NamesOwned, RowsNamed, RowsNameTheirSender, Verified

----------------------------------------------------------------------------
(* Without the heartbeat and the operator's SUBSCRIBE: who is subscribed   *)
(* is registered and has authenticated, and so has who is sent a message.  *)

NoSubscribeTyped == pc[Cli] \notin {"find_subscribe", "subscribe"}
Subscribers ==
  \A f \in SubscriberFd, a \in Topic :
    Subscribed(f, a) => f \in Fd /\ fd_key[f] # NULL /\ session[fd_key[f]].auth
\* Whom a worker is about to remove is subscribed no more.
Leaving(w) == pc[w] = "remove" => \A a \in Topic : ~Subscribed(local[w].fd, a)

SubscribersOwned ==
  NoSubscribeTyped /\ Subscribers /\ (\A w \in Worker : Leaving(w)) /\ OnlyAuthenticatedReceive
Undisturbed == ~load.heartbeat /\ ~OperatorSubscribes
SubscriberInv == Undisturbed => SubscribersOwned

\* What the topic table promises its callers.
TableLaws ==
  /\ \A fd \in SubscriberFd, name \in Topic :
       /\ pubsub_subscribe(fd, name) =>
            \A f \in SubscriberFd, a \in Topic : Subscribed(f, a)' => Subscribed(f, a) \/ f = fd
       /\ pubsub_unsubscribe(fd, name) =>
            \A f \in SubscriberFd, a \in Topic : Subscribed(f, a)' => Subscribed(f, a)
  /\ \A fd \in SubscriberFd : pubsub_unsubscribe_all(fd) =>
       \A f \in SubscriberFd, a \in Topic : Subscribed(f, a)' => Subscribed(f, a) /\ f # fd
  /\ \A t \in Thread : AtSubscriber(t) =>
       Current(t) \in SubscriberFd /\ \E a \in Topic : Subscribed(Current(t), a)

NoNewSubscriber == \A f \in SubscriberFd, a \in Topic : Subscribed(f, a)' => Subscribed(f, a)
NewSubscriber(fd) == \A f \in SubscriberFd, a \in Topic : Subscribed(f, a)' => Subscribed(f, a) \/ f = fd

\* Who is sent a message is subscribed.
LEMMA WritesAuthenticated ==
  ASSUME IInv, BInv, AInv, BusInv, TableLaws, Subscribers, OnlyAuthenticatedReceive,
         NEW t \in Publisher, publish_write(t)
  PROVE  OnlyAuthenticatedReceive'
<1>. DEFINE p == Receiver(t)
            m == [topic |-> local[t].topic, no |-> publishing[t], tls |-> session[p].ssl,
                  auth |-> session[p].auth]
<1>1. /\ inbox' \in {inbox, [inbox EXCEPT ![ConnOf(p)] = Append(@, m)]}
      /\ pc[t] = "fanout" /\ AtSubscriber(t)
  BY DEF publish_write, At, Receiver
<1>2. t \in Thread /\ p = fd_key[Current(t)] /\ Current(t) \in Fd
  BY ReceiverIsClient, Threads DEF Publisher, Lookup
<1>3. session[p].auth
  BY <1>1, <1>2 DEF TableLaws, Subscribers
<1>4. m.auth
  BY <1>3
<1>. HIDE DEF m
<1>5. ASSUME NEW n \in Conn, NEW i \in 1 .. Len(inbox'[n])
      PROVE  inbox'[n][i].auth
  <2>1. inbox[n] \in Seq(Messages) /\ \A k \in 1 .. Len(inbox[n]) : inbox[n][k].auth
    BY DEF BusInv, BusTypes, OnlyAuthenticatedReceive
  <2>2. inbox'[n] = inbox[n] \/ inbox'[n] = Append(inbox[n], m)
    BY <1>1 DEF BusInv, BusTypes
  <2>3. \A s \in Seq(Messages) : \A k \in 1 .. Len(Append(s, m)) :
          (k \in 1 .. Len(s) /\ Append(s, m)[k] = s[k]) \/ Append(s, m)[k] = m
    BY SMT
  <2>. QED  BY <1>4, <1>5, <2>1, <2>2, <2>3
<1>. QED  BY <1>5 DEF OnlyAuthenticatedReceive

LEMMA WorkerTable ==
  ASSUME NEW w \in Worker, WorkerStep(w)
  PROVE  \/ topics' = topics
         \/ Looping(w) /\ UNCHANGED <<cmVars, pc, local>> /\ pubsub_subscribe(heap[C(w)].fd, Line(w).topic)
         \/ Looping(w) /\ UNCHANGED <<cmVars, pc, local>> /\ pubsub_unsubscribe(heap[C(w)].fd, Line(w).topic)
         \/ worker_unsubscribe_all(w)
<1>1. CASE \/ worker_queue_read(w) \/ worker_lookup(w) \/ handshake_pending(w) \/ handshake_failed(w)
           \/ handshake_done(w) \/ worker_set_hostname(w) \/ worker_copy_hostname(w) \/ worker_rearm(w)
  BY <1>1 DEF worker_queue_read, worker_lookup, handshake_pending, handshake_failed, handshake_done,
       worker_set_hostname, worker_copy_hostname, worker_rearm, psVars
<1>2. CASE \/ read_nothing(w) \/ read_disconnected(w) \/ read_data(w) \/ command_no_effect(w)
           \/ command_set_get(w) \/ command_subscribe(w) \/ command_unsubscribe(w)
           \/ command_publish(w)
  BY <1>2 DEF read_nothing, read_disconnected, read_data, command_no_effect, psVars,
       command_set_get, command_subscribe, command_unsubscribe, command_publish
<1>3. CASE \/ publish_lock(w) \/ publish_skip(w) \/ publish_wait(w) \/ publish_write(w)
           \/ publish_unlock(w, "relock") \/ worker_relock(w) \/ commands_done(w)
           \/ worker_unsubscribe_all(w) \/ remove_unmap(w, "idle") \/ remove_destroy(w, "idle")
  BY <1>3 DEF publish_lock, publish_skip, publish_wait, publish_write, publish_unlock, worker_relock,
       commands_done, remove_unmap, remove_destroy, psVars, publish_begin, publish_next, publish_end
<1>4. CASE worker_lobby(w) \/ enroll_sign(w) \/ enroll_reply(w) \/ worker_close(w)
  BY <1>4 DEF worker_lobby, enroll_sign, enroll_reply, worker_close, psVars
<1>. QED  BY <1>1, <1>2, <1>3, <1>4 DEF WorkerStep

\* The client whose lines a worker executes has authenticated.
LEMMA ServedClient ==
  ASSUME IInv, BInv, AInv, OwnedAll, NamesOwned, NEW w \in Worker, pc[w] = "commands"
  PROVE  /\ C(w) \in Client /\ heap[C(w)].fd = local[w].fd /\ local[w].fd \in Fd
         /\ fd_key[local[w].fd] = C(w) /\ fd_key[local[w].fd] # NULL /\ heap[C(w)].alloc /\ session[C(w)].auth
<1>1. Station(w) /\ Knows(w) /\ Owns(w) /\ KnowsName(w) /\ w \in Thread
  BY Threads, Stationed DEF AInv, OwnedAll, NamesOwned
<1>2. C(w) \in Client /\ heap[C(w)].alloc /\ heap[C(w)].fd = local[w].fd
  BY <1>1 DEF Station, IInv, HoldersOwnLocks, Knows, C
<1>3. local[w].fd \in Fd /\ C(w) = fd_key[local[w].fd] /\ fd_key[local[w].fd] # NULL
  BY <1>1, <1>2, OwnClient DEF Tending, Enrolling
<1>. QED  BY <1>1, <1>2, <1>3 DEF KnowsName, Trusted

\* A worker subscribes only the client whose line it executes,
LEMMA WorkerSubscribes ==
  ASSUME IInv, BInv, AInv, OwnedAll, NamesOwned, TableLaws, NEW w \in Worker, WorkerStep(w)
  PROVE  \/ NoNewSubscriber
         \/ /\ pc[w] = "commands" /\ UNCHANGED <<cmVars, pc, local>>
            /\ NewSubscriber(local[w].fd)
<1>1. CASE topics' = topics
  BY <1>1 DEF NoNewSubscriber, Subscribed
<1>2. CASE Looping(w)
  <2>1. pc[w] = "commands" /\ session[C(w)].lines # <<>>
    BY <1>2 DEF Looping, At
  <2>2. local[w].fd \in SubscriberFd /\ heap[C(w)].fd = local[w].fd /\ session[C(w)] \in Sessions
    BY <2>1, ServedClient DEF SubscriberFd, BInv, BTypes
  <2>3. Line(w).topic \in Topic
    <3>1. session[C(w)].lines \in Seq(Commands)
      BY <2>2 DEF Sessions
    <3>2. Line(w) \in Commands
      BY <2>1, <3>1, SMT DEF Line
    <3>. QED  BY <3>2 DEF Commands
  <2>4. pubsub_subscribe(heap[C(w)].fd, Line(w).topic) => NewSubscriber(local[w].fd)
    BY <2>2, <2>3 DEF TableLaws, NewSubscriber
  <2>5. pubsub_unsubscribe(heap[C(w)].fd, Line(w).topic) => NoNewSubscriber
    BY <2>2, <2>3 DEF TableLaws, NoNewSubscriber
  <2>6. ~worker_unsubscribe_all(w)
    BY <2>1 DEF worker_unsubscribe_all, At
  <2>. QED  BY <1>1, <2>1, <2>4, <2>5, <2>6, WorkerTable
<1>3. CASE worker_unsubscribe_all(w)
  <2>1. local[w].fd \in SubscriberFd /\ pubsub_unsubscribe_all(local[w].fd)
    BY <1>3, Threads DEF worker_unsubscribe_all, BInv, BTypes, Locals, SubscriberFd
  <2>. QED  BY <2>1 DEF TableLaws, NoNewSubscriber
<1>. QED  BY <1>1, <1>2, <1>3, WorkerTable

\* Who is subscribed and not removed stays so.
LEMMA SubscribersStay ==
  ASSUME IInv, IInv', [cmNext]_cmVars, SessionsLast, Subscribers,
         NEW f \in SubscriberFd, NEW a \in Topic, Subscribed(f, a), fd_key'[f] # NULL
  PROVE  f \in Fd /\ fd_key'[f] # NULL /\ session'[fd_key'[f]].auth
<1>1. f \in Fd /\ fd_key[f] # NULL /\ session[fd_key[f]].auth
  BY DEF Subscribers
<1>2. fd_key'[f] = fd_key[f] /\ fd_key[f] \in Client /\ heap[fd_key[f]].alloc
  BY <1>1, KeyStays, RegisteredClient
<1>. QED  BY <1>1, <1>2 DEF SessionsLast

\* and whom it removes is subscribed no more.
LEMMA WorkerKeepsSubscribers ==
  ASSUME IInv, BInv, AInv, OwnedAll, NamesOwned, BusInv, SubscribersOwned, TableLaws, IInv',
         [cmNext]_cmVars, NEW w \in Worker, WorkerStep(w), Moved(w), Turn(w)
  PROVE  SubscribersOwned'
<1>1. SessionsLast /\ w \in Thread /\ Leaving(w) /\ Subscribers /\ Owns(w)
  BY WorkerLogsNobodyOut, Threads DEF SubscribersOwned, OwnedAll
<1>2. ASSUME NEW f \in SubscriberFd, NEW a \in Topic, Subscribed(f, a)
      PROVE  f \in Fd /\ fd_key'[f] # NULL /\ session'[fd_key'[f]].auth
  <2>1. f \in Fd /\ fd_key[f] # NULL
    BY <1>1, <1>2 DEF Subscribers
  <2>2. CASE SameKeys
    BY <1>1, <1>2, <2>1, <2>2, SubscribersStay DEF SameKeys
  <2>3. CASE Unmaps(w)
    <3>1. f # local[w].fd
      BY <1>1, <1>2, <2>3 DEF Leaving, Unmaps
    <3>2. fd_key'[f] = fd_key[f]
      BY <2>1, <2>3, <3>1 DEF Unmaps, IInv, cmTypeOK
    <3>. QED  BY <1>1, <1>2, <2>1, <3>2, SubscribersStay
  <2>. QED  BY <2>2, <2>3 DEF Turn, GoesOn, Rearms, Drops, Finishes, Takes, Enrols
<1>3. Subscribers'
  <2>1. ASSUME NEW f \in SubscriberFd, NEW a \in Topic, Subscribed(f, a)', ~Subscribed(f, a)
        PROVE  f \in Fd /\ fd_key'[f] # NULL /\ session'[fd_key'[f]].auth
    <3>1. pc[w] = "commands" /\ UNCHANGED cmVars /\ f = local[w].fd
      BY <2>1, WorkerSubscribes DEF NoNewSubscriber, NewSubscriber
    <3>2. fd_key' = fd_key
      BY <3>1 DEF cmVars
    <3>. QED  BY <1>1, <3>1, <3>2, ServedClient DEF SessionsLast
  <2>. QED  BY <1>2, <2>1 DEF Subscribers
<1>4. ASSUME NEW u \in Worker, u # w
      PROVE  Leaving(u)'
  <2>. SUFFICES ASSUME pc'[u] = "remove" PROVE Leaving(u)'
    BY DEF Leaving
  <2>1. pc[u] = "remove" /\ local'[u] = local[u] /\ u \in Thread
    BY <1>4, Threads DEF Moved, PcAlone
  <2>2. local[u].fd \in Fd /\ local[u].fd \in SubscriberFd /\ Tends(u, local[u].fd)
    BY <2>1 DEF BInv, Positions, PositionOf, SubscriberFd, Tends, Tending, Enrolling
  <2>3. PICK f : f = local[u].fd
    OBVIOUS
  <2>4. ASSUME NEW a \in Topic, Subscribed(f, a)'
        PROVE  FALSE
    <3>1. ~Subscribed(f, a)
      BY <2>1, <2>3 DEF SubscribersOwned, Leaving
    <3>2. f = local[w].fd /\ pc[w] = "commands"
      BY <2>2, <2>3, <2>4, <3>1, WorkerSubscribes DEF NoNewSubscriber, NewSubscriber
    <3>3. Tends(w, f)
      BY <3>2 DEF Tends, Tending, Enrolling
    <3>. QED  BY <1>4, <2>2, <2>3, <3>3 DEF OwnedAll, VaultOwned, OwnedOnce
  <2>. QED  BY <2>1, <2>3, <2>4 DEF Leaving
<1>5. Leaving(w)'
  <2>1. CASE worker_unsubscribe_all(w)
    <3>1. local[w].fd \in SubscriberFd /\ pubsub_unsubscribe_all(local[w].fd)
      BY <1>1, <2>1 DEF worker_unsubscribe_all, BInv, BTypes, Locals, SubscriberFd
    <3>2. local'[w] = local[w]
      BY <1>1, <2>1 DEF worker_unsubscribe_all, Goto, GotoWith, BInv, BTypes
    <3>3. PICK f : f = local[w].fd
      OBVIOUS
    <3>4. \A a \in Topic : ~Subscribed(f, a)'
      BY <3>1, <3>3 DEF TableLaws
    <3>. QED  BY <3>2, <3>3, <3>4 DEF Leaving
  <2>2. CASE handshake_failed(w)
    <3>1. /\ pc[w] = "client" /\ ~session[C(w)].auth /\ topics' = topics /\ Goto(w, "remove")
      BY <2>2 DEF handshake_failed, Handshaking, At, psVars
    <3>2. local'[w] = local[w]
      BY <1>1, <3>1, GotoEffect DEF BInv
    <3>3. C(w) \in Client /\ heap[C(w)].alloc /\ heap[C(w)].fd = local[w].fd
      BY <3>1, Stationed DEF Station, IInv, HoldersOwnLocks, AInv, Knows, C
    <3>4. local[w].fd \in Fd /\ fd_key[local[w].fd] = C(w)
      BY <1>1, <3>1, <3>3, OwnClient DEF Tending, Enrolling
    <3>5. \A a \in Topic : ~Subscribed(local[w].fd, a)
      BY <1>1, <3>1, <3>4 DEF Subscribers, SubscriberFd
    <3>. QED  BY <3>1, <3>2, <3>5 DEF Leaving, Subscribed
  <2>. QED  BY <2>1, <2>2, WorkerPlaces DEF Leaving
<1>6. NoSubscribeTyped'
  BY Threads DEF Moved, PcAlone, SubscribersOwned, NoSubscribeTyped
<1>7. OnlyAuthenticatedReceive'
  <2>1. OnlyAuthenticatedReceive /\ w \in Publisher
    BY DEF SubscribersOwned, Publisher
  <2>2. inbox' = inbox \/ publish_write(w)
    BY WorkerMessages DEF NoMessage, busVars, publish_lock
  <2>. QED  BY <1>1, <2>1, <2>2, WritesAuthenticated DEF OnlyAuthenticatedReceive
<1>. QED  BY <1>3, <1>4, <1>5, <1>6, <1>7 DEF SubscribersOwned

\* The operator who does not subscribe anybody only unsubscribes.
LEMMA CliTable ==
  ASSUME BInv, ~OperatorSubscribes, NoSubscribeTyped, TableLaws, CliStep
  PROVE  NoNewSubscriber /\ NoSubscribeTyped'
<1>1. /\ \A b, l : GotoWith(Cli, b, l) => pc'[Cli] = b
      /\ \A b : Goto(Cli, b) => pc'[Cli] = b
      /\ Cli \in Thread
  BY GotoEffect, Threads DEF BInv
<1>2. topics' = topics => NoNewSubscriber
  BY DEF NoNewSubscriber, Subscribed
<1>. USE DEF NoSubscribeTyped, At
<1>3. CASE \/ cli_find("find_subscribe", "subscribe") \/ cli_find("find_unsubscribe", "unsubscribe")
           \/ cli_subscribe \/ cli_set
  BY <1>1, <1>2, <1>3 DEF cli_find, cli_subscribe, cli_set, psVars
<1>4. CASE \/ publish_lock(Cli) \/ publish_skip(Cli) \/ publish_wait(Cli) \/ publish_write(Cli)
           \/ publish_unlock(Cli, "idle")
  BY <1>1, <1>2, <1>4 DEF publish_lock, publish_skip, publish_wait, publish_write, publish_unlock,
       psVars, brokerVars, publish_begin, publish_next, publish_end
<1>5. CASE status_clients \/ status_lock \/ status_visit \/ status_turn \/ status_unlock
  BY <1>1, <1>2, <1>5 DEF status_clients, status_lock, status_visit, status_turn, status_unlock,
       psVars, brokerVars, status_begin, publish_next, status_next_topic, publish_end
<1>6. CASE cli_unsubscribe
  <2>1. local[Cli].fd \in SubscriberFd /\ local[Cli].topic \in Topic
    BY <1>1, <1>6 DEF cli_unsubscribe, BInv, BTypes, Locals, SubscriberFd, Positions, PositionOf
  <2>. QED  BY <1>1, <1>6, <2>1 DEF cli_unsubscribe, TableLaws, NoNewSubscriber
<1>7. ASSUME NEW c \in load.typed, cli_input(c)
      PROVE  NoNewSubscriber /\ NoSubscribeTyped'
  <2>1. c \in TypedCommands /\ c.op # "find_subscribe"
    BY <1>7, LoadStays DEF Workloads, OperatorSubscribes
  <2>2. c.op # "subscribe"
    BY <2>1 DEF TypedCommands
  <2>. QED  BY <1>1, <1>2, <1>7, <2>1, <2>2 DEF cli_input, psVars
<1>. QED  BY <1>3, <1>4, <1>5, <1>6, <1>7 DEF CliStep, CliWork

\* A step of a thread that is no worker.
LEMMA RestKeepsSubscribers ==
  ASSUME IInv, IInv', BInv, [cmNext]_cmVars, SessionsLast, SubscribersOwned, NEW t \in {Main, Cli},
         Moved(t), \A f \in Fd : fd_key[f] # NULL => fd_key'[f] # NULL,
         NoNewSubscriber, NoSubscribeTyped', OnlyAuthenticatedReceive'
  PROVE  SubscribersOwned'
<1>1. Subscribers'
  <2>1. ASSUME NEW f \in SubscriberFd, NEW a \in Topic, Subscribed(f, a)
        PROVE  f \in Fd /\ fd_key'[f] # NULL /\ session'[fd_key'[f]].auth
    BY <2>1, SubscribersStay DEF SubscribersOwned, Subscribers
  <2>. QED  BY <2>1 DEF Subscribers, NoNewSubscriber
<1>2. ASSUME NEW u \in Worker
      PROVE  Leaving(u)'
  <2>1. pc'[u] = pc[u] /\ local'[u] = local[u] /\ Leaving(u) /\ u \in Thread
    BY Threads DEF Moved, PcAlone, SubscribersOwned
  <2>2. pc[u] = "remove" => local[u].fd \in SubscriberFd
    BY <2>1 DEF BInv, BTypes, Locals, SubscriberFd
  <2>3. PICK f : f = local[u].fd
    OBVIOUS
  <2>4. pc[u] = "remove" => \A a \in Topic : ~Subscribed(f, a)'
    BY <2>1, <2>2, <2>3 DEF Leaving, NoNewSubscriber
  <2>. QED  BY <2>1, <2>3, <2>4 DEF Leaving
<1>. QED  BY <1>1, <1>2 DEF SubscribersOwned

LEMMA CliKeepsSubscribers ==
  ASSUME IInv, BInv, AInv, BusInv, SubscribersOwned, TableLaws, ~OperatorSubscribes, IInv',
         [cmNext]_cmVars, CliStep, Moved(Cli), SameKeys
  PROVE  SubscribersOwned'
<1>1. SessionsLast
  BY CliCalls DEF SessionsLast
<1>2. NoNewSubscriber /\ NoSubscribeTyped'
  BY CliTable DEF SubscribersOwned
<1>3. OnlyAuthenticatedReceive'
  <2>1. OnlyAuthenticatedReceive /\ Cli \in Publisher /\ Subscribers
    BY DEF SubscribersOwned, Publisher
  <2>2. inbox' = inbox \/ publish_write(Cli)
    BY CliMessages DEF NoMessage, busVars, publish_lock
  <2>. QED  BY <2>1, <2>2, WritesAuthenticated DEF OnlyAuthenticatedReceive
<1>. QED  BY <1>1, <1>2, <1>3, RestKeepsSubscribers DEF SameKeys

LEMMA MainKeepsSubscribers ==
  ASSUME IInv, BInv, SubscribersOwned, IInv', [cmNext]_cmVars,
         MainStep \/ MainAccept \/ PeerStep \/ UNCHANGED vars, Moved(Main),
         \A f \in Fd : fd_key[f] # NULL => fd_key'[f] # NULL
  PROVE  SubscribersOwned'
<1>1. topics' = topics /\ inbox' = inbox
  BY DEF MainStep, MainAccept, PeerStep, main_client_add, main_queue_write,
       main_dispatch, main_accept_lobby, main_accept_vault, peer_send, peer_close, client_silent,
       vars, brokerVars, dataVars, busVars, psVars
<1>2. SessionsLast
  BY MainCalls DEF SessionsLast, accept_vault, BInv, BTypes
<1>3. NoNewSubscriber /\ OnlyAuthenticatedReceive'
  BY <1>1 DEF NoNewSubscriber, Subscribed, SubscribersOwned, OnlyAuthenticatedReceive
<1>4. NoSubscribeTyped'
  BY Threads DEF Moved, PcAlone, SubscribersOwned, NoSubscribeTyped
<1>. QED  BY <1>2, <1>3, <1>4, RestKeepsSubscribers

LEMMA SubscribersInit == Init => SubscriberInv
<1>. SUFFICES ASSUME Init PROVE SubscribersOwned
  BY DEF SubscriberInv
<1>1. /\ pc = [t \in Thread |-> "idle"] /\ topics = <<>> /\ inbox = [n \in Conn |-> <<>>]
  BY DEF Init, pubsub_init
<1>2. \A f, a : ~Subscribed(f, a)
  BY <1>1, SMT DEF Subscribed
<1>3. OnlyAuthenticatedReceive
  BY <1>1, SMT DEF OnlyAuthenticatedReceive
<1>. QED  BY <1>1, <1>2, <1>3, Threads DEF SubscribersOwned, Subscribers, Leaving, NoSubscribeTyped

LEMMA SubscribersAreClients == SubscriberInv => NoGhostSubscriptions /\ ReceiversAuthenticated
BY DEF SubscriberInv, Undisturbed, SubscribersOwned, Subscribers, SubscriberFd, NoGhostSubscriptions,
     ReceiversAuthenticated

----------------------------------------------------------------------------
(* While no two connections use one name, a name is given once, and the    *)
(* key of a registered client's name is in the map: also with the sweep,   *)
(* where a worker may give the name to the next client of the descriptor,  *)
(* or write it into a struct that has been freed and used again.           *)

Giving(w, h) == pc[w] \in Naming /\ local[w].cn = h
InUse(h) == (\E p \in Client : heap[p].hostname = h) \/ \E w \in Worker : Giving(w, h)
Listed(p) == Mapped(p) \/ \E t \in Thread : at[t] = "adding" /\ ptr[t] = p

OneStructPerConn ==
  \A p, q \in Client : heap[p].alloc /\ heap[q].alloc /\ heap[p].conn = heap[q].conn => p = q
GivenOnce ==
  \A h \in Hostname :
    /\ \A p, q \in Client : heap[p].hostname = h /\ heap[q].hostname = h => p = q
    /\ \A w, u \in Worker : Giving(w, h) /\ Giving(u, h) => w = u
    /\ \A w \in Worker, p \in Client : Giving(w, h) => heap[p].hostname # h
NotYetGiven == \A p \in Client : heap[p].alloc /\ ~session[p].auth => ~InUse(peer[heap[p].conn].cn)
GivenToPeers == \A h \in Hostname : InUse(h) => \E n \in 1 .. accepted : peer[n].cn = h
KeyThere(p) == heap[p].hostname # NULL /\ Listed(p) => host_key[heap[p].hostname] # NULL
Copies(w) == pc[w] = "copy_hostname" => arg[w] = local[w].cn /\ host_key[arg[w]] # NULL

NamesGiven == OneStructPerConn /\ GivenOnce /\ NotYetGiven /\ GivenToPeers
KeysThere == (\A p \in Client : KeyThere(p)) /\ \A w \in Worker : Copies(w)
FoundInv == NamesAreUnique => NamesGiven /\ KeysThere

\* A step that gives no name away and lets nobody in.
Ungiving ==
  /\ \A p \in Client : Persists(p) /\ heap'[p].hostname \in {heap[p].hostname, NULL}
  /\ \A u \in Worker, h \in Hostname : Giving(u, h)' => Giving(u, h)

LEMMA UniquenessWasThere ==
  ASSUME SamePeople, NamesAreUnique'
  PROVE  NamesAreUnique
BY DEF SamePeople, NamesAreUnique

\* Whose client it is.
LEMMA ClientConn ==
  ASSUME IInv, BInv, NEW p \in Client, heap[p].alloc
  PROVE  /\ heap[p].conn \in 1 .. accepted /\ ConnOf(p) = heap[p].conn
         /\ peer[heap[p].conn].cn \in Hostname
<1>1. /\ heap[p].fd \in Fd /\ sock[heap[p].fd] # Closed
      /\ sock[heap[p].fd] = [kind |-> "vault", conn |-> heap[p].conn]
  BY VaultSocket DEF IInv, AllocatedIsOpen
<1>2. sock[heap[p].fd].conn = heap[p].conn
  BY <1>1, SMT
<1>. QED  BY <1>1, <1>2 DEF ConnOf, BInv, SocketsHavePeers

LEMMA UngivingKeeps ==
  ASSUME IInv, BInv, SamePeople, SessionsLast, NamesGiven, Ungiving
  PROVE  NamesGiven'
<1>1. ASSUME NEW h \in Hostname
      PROVE  /\ \A p \in Client : heap'[p].hostname = h => heap[p].hostname = h
             /\ InUse(h)' => InUse(h)
  BY NullIsNoClient DEF Ungiving, InUse
<1>2. OneStructPerConn'
  BY DEF NamesGiven, OneStructPerConn, Ungiving, Persists
<1>3. GivenOnce'
  BY <1>1 DEF NamesGiven, GivenOnce, Ungiving
<1>4. NotYetGiven'
  <2>. SUFFICES ASSUME NEW p \in Client, heap'[p].alloc, ~session'[p].auth
                PROVE  ~InUse(peer[heap[p].conn].cn)'
    BY DEF NotYetGiven
  <2>1. heap[p].alloc /\ ~session[p].auth /\ heap'[p].conn = heap[p].conn
    BY DEF Ungiving, Persists, SessionsLast
  <2>2. PICK n, h : n = heap[p].conn /\ h = peer[n].cn
    OBVIOUS
  <2>3. h \in Hostname /\ peer'[n].cn = h
    BY <2>1, <2>2, ClientConn DEF SamePeople
  <2>4. ~InUse(h)'
    BY <1>1, <2>1, <2>2, <2>3 DEF NamesGiven, NotYetGiven
  <2>. QED  BY <2>1, <2>2, <2>3, <2>4 DEF InUse, Giving
<1>5. GivenToPeers'
  BY <1>1 DEF NamesGiven, GivenToPeers, SamePeople
<1>. QED  BY <1>2, <1>3, <1>4, <1>5 DEF NamesGiven

\* Completing a handshake is the only way to a name, and nobody has had it before.
LEMMA HandshakeGives ==
  ASSUME IInv, BInv, AInv, SamePeople, NamesAreUnique, NamesGiven, NEW w \in Worker, handshake_done(w),
         PcAlone(w), \A p \in Client : Persists(p) /\ heap'[p].hostname \in {heap[p].hostname, NULL}
  PROVE  NamesGiven'
<1>1. w \in Thread /\ pc[w] = "client" /\ ~session[C(w)].auth /\ Station(w)
  BY Threads, Stationed DEF handshake_done, Handshaking, At
<1>2. C(w) \in Client /\ heap[C(w)].alloc
  BY <1>1 DEF Station, IInv, HoldersOwnLocks, C
<1>3. PICK c, n, k : c = C(w) /\ n = heap[c].conn /\ k = peer[n].cn
  OBVIOUS
<1>4. n \in 1 .. accepted /\ k \in Hostname /\ Peer(w).cn = k
  BY <1>2, <1>3, ClientConn DEF Peer
<1>5. ~InUse(k)
  BY <1>1, <1>2, <1>3 DEF NamesGiven, NotYetGiven
<1>6. pc'[w] = "set_hostname" /\ local'[w].cn = k
  <2>1. GotoWith(w, "set_hostname", [local[w] EXCEPT !.cn = Peer(w).cn]) /\ local[w] \in Locals
    BY <1>1 DEF handshake_done, BInv, BTypes
  <2>2. \A l : GotoWith(w, "set_hostname", l) => pc'[w] = "set_hostname" /\ local'[w] = l
    BY <1>1, GotoEffect DEF BInv
  <2>3. [local[w] EXCEPT !.cn = Peer(w).cn].cn = Peer(w).cn
    BY <2>1 DEF Locals
  <2>. QED  BY <1>4, <2>1, <2>2, <2>3
<1>7. ASSUME NEW h \in Hostname
      PROVE  /\ \A u \in Worker : Giving(u, h)' <=> (u = w /\ h = k) \/ (u # w /\ Giving(u, h))
             /\ \A p \in Client : heap'[p].hostname = h => heap[p].hostname = h
             /\ ~Giving(w, h)
  BY <1>1, <1>6, NullIsNoClient, Threads DEF Giving, Naming, PcAlone
<1>8. \A h \in Hostname : InUse(h)' => InUse(h) \/ h = k
  BY <1>7 DEF InUse
<1>9. OneStructPerConn'
  BY DEF NamesGiven, OneStructPerConn, Persists
<1>10. GivenOnce'
  <2>1. /\ \A p \in Client : heap[p].hostname # k
        /\ \A u \in Worker : ~Giving(u, k)
    BY <1>5 DEF InUse
  <2>. SUFFICES ASSUME NEW h \in Hostname
                PROVE  /\ \A p, q \in Client : heap'[p].hostname = h /\ heap'[q].hostname = h => p = q
                       /\ \A u, v \in Worker : Giving(u, h)' /\ Giving(v, h)' => u = v
                       /\ \A u \in Worker, p \in Client : Giving(u, h)' => heap'[p].hostname # h
    BY DEF GivenOnce
  <2>2. ASSUME NEW u \in Worker, NEW v \in Worker, Giving(u, h)', Giving(v, h)'
        PROVE  u = v
    <3>1. \A x \in Worker : Giving(x, h) => h # k
      BY <2>1
    <3>2. /\ (u = w /\ h = k) \/ (u # w /\ Giving(u, h))
          /\ (v = w /\ h = k) \/ (v # w /\ Giving(v, h))
      BY <1>7, <2>2
    <3>. QED  BY <3>1, <3>2 DEF NamesGiven, GivenOnce
  <2>3. \A u \in Worker, p \in Client : Giving(u, h)' => heap'[p].hostname # h
    BY <1>7, <2>1 DEF NamesGiven, GivenOnce
  <2>. QED  BY <1>7, <2>2, <2>3 DEF NamesGiven, GivenOnce
<1>11. NotYetGiven'
  <2>. SUFFICES ASSUME NEW p \in Client, heap'[p].alloc, ~session'[p].auth
                PROVE  ~InUse(peer[heap[p].conn].cn)'
    BY DEF NotYetGiven
  <2>1. heap[p].alloc /\ heap'[p].conn = heap[p].conn /\ p # c /\ ~session[p].auth
    BY <1>3, HandshakeSession DEF Persists, SameSession
  <2>2. PICK m, h : m = heap[p].conn /\ h = peer[m].cn
    OBVIOUS
  <2>3. h \in Hostname /\ peer'[m].cn = h /\ m \in 1 .. accepted
    BY <2>1, <2>2, ClientConn DEF SamePeople
  <2>4. h # k
    <3>1. m # n
      BY <1>2, <1>3, <2>1, <2>2 DEF NamesGiven, OneStructPerConn
    <3>. QED  BY <1>3, <1>4, <2>2, <2>3, <3>1 DEF NamesAreUnique
  <2>5. ~InUse(h)
    BY <2>1, <2>2 DEF NamesGiven, NotYetGiven
  <2>6. ~InUse(h)'
    BY <1>8, <2>3, <2>4, <2>5
  <2>. QED  BY <2>1, <2>2, <2>3, <2>6 DEF InUse, Giving
<1>12. GivenToPeers'
  BY <1>3, <1>4, <1>8 DEF NamesGiven, GivenToPeers, SamePeople
<1>. QED  BY <1>9, <1>10, <1>11, <1>12 DEF NamesGiven

\* Copying it gives it, whoever has the struct by now.
LEMMA CopyGives ==
  ASSUME IInv, BInv, AInv, SamePeople, SessionsLast, NamesGiven, NEW w \in Worker, Copies(w),
         worker_copy_hostname(w), PcAlone(w)
  PROVE  NamesGiven'
<1>1. w \in Thread /\ pc[w] = "copy_hostname" /\ client_set_hostname_copy(w) /\ Station(w)
  BY Threads, Stationed DEF worker_copy_hostname, At
<1>2. PICK c, k : c = ptr[w] /\ k = arg[w]
  OBVIOUS
<1>3. c \in Client /\ k \in Hostname /\ Giving(w, k)
  BY <1>1, <1>2 DEF Station, IInv, WaitersKeepMap, Copies, Giving, Naming
<1>4. pc'[w] = "rearm"
  BY <1>1, GotoEffect DEF worker_copy_hostname, BInv
<1>5. ASSUME NEW p \in Client
      PROVE  Persists(p) /\ heap'[p].hostname = IF p = c THEN k ELSE heap[p].hostname
  BY <1>1, <1>2, NamingFrames
<1>6. ASSUME NEW h \in Hostname, NEW u \in Worker
      PROVE  Giving(u, h)' <=> u # w /\ Giving(u, h)
  BY <1>4, Threads DEF Giving, Naming, PcAlone
<1>7. ASSUME NEW h \in Hostname
      PROVE  InUse(h)' => InUse(h)
  BY <1>3, <1>5, <1>6 DEF InUse
<1>8. OneStructPerConn'
  BY <1>5 DEF NamesGiven, OneStructPerConn, Persists
<1>9. GivenOnce'
  <2>. SUFFICES ASSUME NEW h \in Hostname
                PROVE  /\ \A p, q \in Client : heap'[p].hostname = h /\ heap'[q].hostname = h => p = q
                       /\ \A u, v \in Worker : Giving(u, h)' /\ Giving(v, h)' => u = v
                       /\ \A u \in Worker, p \in Client : Giving(u, h)' => heap'[p].hostname # h
    BY DEF GivenOnce
  <2>1. GivenOnce /\ (h = k => Giving(w, h))
    BY <1>3 DEF NamesGiven
  <2>2. ASSUME NEW p \in Client, NEW q \in Client, heap'[p].hostname = h, heap'[q].hostname = h
        PROVE  p = q
    <3>1. h = k => heap[p].hostname # h /\ heap[q].hostname # h
      BY <2>1 DEF GivenOnce
    <3>2. (p = c /\ h = k) \/ heap[p].hostname = h
      BY <1>5, <2>2
    <3>3. (q = c /\ h = k) \/ heap[q].hostname = h
      BY <1>5, <2>2
    <3>. QED  BY <2>1, <3>1, <3>2, <3>3 DEF GivenOnce
  <2>3. \A u \in Worker, p \in Client : Giving(u, h)' => heap'[p].hostname # h
    BY <1>5, <1>6, <2>1 DEF GivenOnce
  <2>. QED  BY <1>6, <2>1, <2>2, <2>3 DEF GivenOnce
<1>10. NotYetGiven'
  <2>. SUFFICES ASSUME NEW p \in Client, heap'[p].alloc, ~session'[p].auth
                PROVE  ~InUse(peer[heap[p].conn].cn)'
    BY DEF NotYetGiven
  <2>1. heap[p].alloc /\ ~session[p].auth /\ heap'[p].conn = heap[p].conn
    BY <1>5 DEF Persists, SessionsLast
  <2>2. PICK n, h : n = heap[p].conn /\ h = peer[n].cn
    OBVIOUS
  <2>3. h \in Hostname /\ peer'[n].cn = h
    BY <2>1, <2>2, ClientConn DEF SamePeople
  <2>4. ~InUse(h)'
    BY <1>7, <2>1, <2>2, <2>3 DEF NamesGiven, NotYetGiven
  <2>. QED  BY <2>1, <2>2, <2>3, <2>4 DEF InUse, Giving
<1>11. GivenToPeers'
  BY <1>7 DEF NamesGiven, GivenToPeers, SamePeople
<1>. QED  BY <1>8, <1>9, <1>10, <1>11 DEF NamesGiven

\* Who connects has a name that nobody has had.
LEMMA AcceptGives ==
  ASSUME IInv, BInv, BInv', [cmNext]_cmVars, SamePeople, NamesAreUnique', NamesGiven, NEW q \in Client,
         NEW f \in Fd, accept_vault(Main, f, q), session' = [session EXCEPT ![q] = NoSession],
         pc' = pc, local' = local
  PROVE  NamesGiven' /\ heap'[q].hostname = NULL /\ \A p \in Client : p # q => heap'[p] = heap[p]
<1>1. PICK m : m = accepted + 1
  OBVIOUS
<1>2. /\ accepted' = m /\ heap'[q].conn = m /\ heap'[q].hostname = NULL
      /\ \A p \in Client : p # q => heap'[p] = heap[p] /\ session'[p] = session[p]
      /\ sock' = [sock EXCEPT ![f] = [kind |-> "vault", conn |-> m]] /\ sock \in [Fd -> Sockets]
  BY <1>1 DEF accept_vault, accept, IInv, cmTypeOK, BInv, BTypes
<1>3. sock'[f] # Closed /\ sock'[f].conn = m
  BY <1>2, SMT DEF Closed
<1>4. PICK k : k = peer'[m].cn
  OBVIOUS
<1>5. k \in Hostname /\ m \in 1 .. accepted' /\ \A n \in 1 .. accepted : n # m
  BY <1>1, <1>3, <1>4, AcceptedGrows DEF BInv, SocketsHavePeers
<1>6. ASSUME NEW h \in Hostname
      PROVE  /\ \A p \in Client : heap'[p].hostname = h => heap[p].hostname = h
             /\ \A u \in Worker : Giving(u, h)' <=> Giving(u, h)
             /\ InUse(h)' => InUse(h)
  <2>1. \A p \in Client : heap'[p].hostname = h => heap[p].hostname = h
    BY <1>2, NullIsNoClient
  <2>2. \A u \in Worker : Giving(u, h)' <=> Giving(u, h)
    BY DEF Giving
  <2>. QED  BY <2>1, <2>2 DEF InUse
<1>7. ~InUse(k)'
  <2>1. ASSUME InUse(k)
        PROVE  FALSE
    <3>1. PICK n \in 1 .. accepted : peer[n].cn = k
      BY <1>5, <2>1 DEF NamesGiven, GivenToPeers
    <3>2. n \in 1 .. accepted' /\ peer'[n].cn = peer'[m].cn
      BY <1>4, <3>1 DEF SamePeople
    <3>. QED  BY <1>5, <3>2 DEF NamesAreUnique
  <2>. QED  BY <1>5, <1>6, <2>1
<1>8. OneStructPerConn'
  <2>1. ASSUME NEW p \in Client, p # q, heap[p].alloc
        PROVE  heap[p].conn # m
    BY <1>5, <2>1, ClientConn
  <2>. QED  BY <1>2, <2>1 DEF NamesGiven, OneStructPerConn
<1>9. GivenOnce'
  BY <1>6 DEF NamesGiven, GivenOnce
<1>10. NotYetGiven'
  <2>. SUFFICES ASSUME NEW p \in Client, heap'[p].alloc, ~session'[p].auth
                PROVE  ~InUse(peer[heap[p].conn].cn)'
    BY DEF NotYetGiven
  <2>1. CASE p = q
    BY <1>2, <1>4, <1>7, <2>1 DEF InUse, Giving
  <2>2. CASE p # q
    <3>1. heap[p].alloc /\ ~session[p].auth /\ heap'[p].conn = heap[p].conn
      BY <1>2, <2>2
    <3>2. PICK n, h : n = heap[p].conn /\ h = peer[n].cn
      OBVIOUS
    <3>3. h \in Hostname /\ peer'[n].cn = h
      BY <3>1, <3>2, ClientConn DEF SamePeople
    <3>4. ~InUse(h)'
      BY <1>6, <3>1, <3>2, <3>3 DEF NamesGiven, NotYetGiven
    <3>. QED  BY <3>1, <3>2, <3>3, <3>4 DEF InUse, Giving
  <2>. QED  BY <2>1, <2>2
<1>11. GivenToPeers'
  BY <1>6 DEF NamesGiven, GivenToPeers, SamePeople
<1>. QED  BY <1>2, <1>8, <1>9, <1>10, <1>11 DEF NamesGiven

\* No call puts anybody into the registry who was not on the way there, and only
\* client_remove takes keys away.
NoNewcomer == \A p \in Client : Listed(p)' => Listed(p)
KeysStay == \A h \in Hostname : host_key[h] # NULL => host_key'[h] # NULL

LEMMA CallKeys ==
  ASSUME IInv, NEW t \in Thread, Call(t)
  PROVE  /\ NoNewcomer /\ OthersKeep(t)
         /\ KeysStay \/ \E f \in Fd : client_remove(t, f)
<1>1. KeylessCall(t) \/ client_add(t) \/ \E f \in Fd : client_remove(t, f)
  BY DEF Call, KeylessCall
<1>2. OthersKeep(t)
  BY <1>1, RegistryFrames
<1>3. \/ UNCHANGED <<at, ptr>>
      \/ \E s, p : s # "adding" /\ Goes(t, s, p)
  BY DEF Call, cmVars, touch, client_unlock, client_remove_destroy, walk_begin, walk_end, client_add,
       get_wait, get_lock, get_visit, grow_idle, walk_visit, close_lobby, client_remove,
       client_set_hostname, sweep_next
<1>4. \A u \in Thread : at'[u] = "adding" => at[u] = "adding" /\ ptr'[u] = ptr[u]
  BY <1>2, <1>3 DEF OthersKeep, Goes, IInv, cmTypeOK
<1>5. ASSUME NEW p \in Client, Mapped(p)'
      PROVE  Listed(p)
  <2>1. CASE KeylessCall(t)
    BY <1>5, <2>1, RegistryFrames DEF Listed, Mapped
  <2>2. CASE client_add(t)
    BY <1>5, <2>2 DEF client_add, Listed, Mapped, IInv, cmTypeOK
  <2>3. CASE \E f \in Fd : client_remove(t, f)
    BY <1>5, <2>3, NullIsNoClient DEF client_remove, del_fd_key, Listed, Mapped, IInv, cmTypeOK
  <2>. QED  BY <1>1, <2>1, <2>2, <2>3
<1>6. NoNewcomer
  BY <1>4, <1>5 DEF NoNewcomer, Listed
<1>7. host_key' = host_key \/ (\E f, h : client_set_hostname(t, f, h)) \/ \E f \in Fd : client_remove(t, f)
  BY DEF Call, cmVars, touch, client_unlock, client_remove_destroy, walk_begin, walk_end, client_add,
       get_wait, get_lock, get_visit, grow_idle, walk_visit, close_lobby, sweep_next
<1>8. ASSUME NEW f, NEW h, client_set_hostname(t, f, h)
      PROVE  KeysStay
  BY <1>8 DEF KeysStay, client_set_hostname, set_hostname_key, IInv, cmTypeOK
<1>. QED  BY <1>2, <1>6, <1>7, <1>8 DEF KeysStay

\* client_remove takes away the key of the client that leaves, which is no one else's.
LEMMA RemovalKeys ==
  ASSUME IInv, NEW t \in Thread, NEW f \in Fd, client_remove(t, f), OthersKeep(t), GivenOnce,
         NEW h \in Hostname, host_key[h] # NULL
  PROVE  /\ \A p \in Client : heap[p].hostname = h /\ Listed(p) /\ Listed(p)' => host_key'[h] # NULL
         /\ \A w \in Worker : Giving(w, h) => host_key'[h] # NULL
<1>1. CASE fd_key[f] = NULL
  BY <1>1 DEF client_remove
<1>2. CASE fd_key[f] # NULL
  <2>1. PICK q : q = fd_key[f]
    OBVIOUS
  <2>2. /\ q \in Client /\ heap[q].fd = f /\ Mapped(q) /\ at'[t] = "removing"
        /\ fd_key' = [fd_key EXCEPT ![f] = NULL]
        /\ host_key'[h] = NULL => heap[q].hostname = h
    <3>1. q \in Client /\ heap[q].fd = f /\ Mapped(q)
      BY <1>2, <2>1, RegisteredClient DEF Mapped
    <3>2. fd_key' = [fd_key EXCEPT ![f] = NULL] /\ del_hostname_key(q) /\ Goes(t, "removing", q)
      BY <1>2, <2>1 DEF client_remove, del_fd_key
    <3>3. at'[t] = "removing"
      BY <3>2 DEF Goes, IInv, cmTypeOK
    <3>4. host_key'[h] = NULL => heap[q].hostname = h
      BY <3>2 DEF del_hostname_key
    <3>. QED  BY <3>1, <3>2, <3>3, <3>4
  <2>3. ~Listed(q)'
    <3>1. ASSUME NEW g \in Fd, fd_key'[g] = q
          PROVE  FALSE
      <4>1. g # f /\ fd_key[g] = q
        BY <2>2, <3>1, NullIsNoClient DEF IInv, cmTypeOK
      <4>2. heap[q].fd = g
        BY <2>2, <4>1, NullIsNoClient DEF IInv, KeysLeadToStructs
      <4>. QED  BY <2>2, <4>1, <4>2
    <3>2. ASSUME NEW u \in Thread, at'[u] = "adding", ptr'[u] = q
          PROVE  FALSE
      <4>1. Private(u) /\ ptr[u] = q
        BY <2>2, <3>2 DEF OthersKeep, Private
      <4>. QED  BY <2>2, <4>1 DEF IInv, PrivateStructs
    <3>. QED  BY <3>1, <3>2 DEF Listed, Mapped
  <2>. QED  BY <2>2, <2>3 DEF GivenOnce
<1>. QED  BY <1>1, <1>2

LEMMA CallKeepsKeys ==
  ASSUME IInv, AInv, GivenOnce, KeysThere, NEW t \in Thread, Call(t), PcAlone(t)
  PROVE  (\A p \in Client : KeyThere(p)') /\ \A u \in Worker : u # t => Copies(u)'
<1>1. NoNewcomer /\ OthersKeep(t)
  BY CallKeys
<1>2. ASSUME NEW h \in Hostname, host_key[h] # NULL
      PROVE  /\ \A p \in Client : heap[p].hostname = h /\ Listed(p) /\ Listed(p)' => host_key'[h] # NULL
             /\ \A w \in Worker : Giving(w, h) => host_key'[h] # NULL
  <2>1. CASE KeysStay
    BY <1>2, <2>1 DEF KeysStay
  <2>2. CASE \E f \in Fd : client_remove(t, f)
    BY <1>1, <1>2, <2>2, RemovalKeys
  <2>. QED  BY <2>1, <2>2, CallKeys
<1>3. ASSUME NEW p \in Client
      PROVE  KeyThere(p)'
  <2>. SUFFICES ASSUME heap'[p].hostname # NULL, Listed(p)'
                PROVE  host_key'[heap'[p].hostname] # NULL
    BY DEF KeyThere
  <2>1. PICK h : h = heap[p].hostname
    OBVIOUS
  <2>2. heap'[p].hostname = h /\ h # NULL
    BY <2>1, CallFrames
  <2>3. h \in Hostname
    <3>1. heap[p] \in Structs
      BY DEF IInv, cmTypeOK
    <3>. QED  BY <2>1, <2>2, <3>1, SMT DEF Structs
  <2>4. Listed(p) /\ host_key[h] # NULL
    BY <1>1, <2>1, <2>2 DEF NoNewcomer, KeysThere, KeyThere
  <2>. QED  BY <1>2, <2>1, <2>2, <2>3, <2>4
<1>4. ASSUME NEW u \in Worker, u # t
      PROVE  Copies(u)'
  <2>. SUFFICES ASSUME pc'[u] = "copy_hostname"
                PROVE  arg'[u] = local'[u].cn /\ host_key'[arg'[u]] # NULL
    BY DEF Copies
  <2>1. u \in Thread /\ Station(u) /\ Copies(u)
    BY Stationed DEF KeysThere
  <2>2. pc[u] = "copy_hostname" /\ local'[u] = local[u] /\ arg'[u] = arg[u]
    BY <1>1, <1>4, <2>1 DEF PcAlone, OthersKeep
  <2>3. PICK h : h = arg[u]
    OBVIOUS
  <2>4. h \in Hostname /\ Giving(u, h) /\ host_key[h] # NULL
    BY <2>1, <2>2, <2>3 DEF Station, IInv, WaitersKeepMap, Copies, Giving, Naming
  <2>. QED  BY <1>2, <2>1, <2>2, <2>3, <2>4 DEF Copies
<1>. QED  BY <1>3, <1>4

\* A worker copies the name under which it has just put the key into the map.
LEMMA WorkerCopies ==
  ASSUME IInv, BInv, NEW w \in Worker, WorkerStep(w)
  PROVE  /\ Copies(w)'
         /\ pc'[w] = "copy_hostname" => pc[w] = "set_hostname" /\ local'[w] = local[w]
<1>. SUFFICES ASSUME pc'[w] = "copy_hostname"
              PROVE  /\ arg'[w] = local'[w].cn /\ host_key'[arg'[w]] # NULL
                     /\ pc[w] = "set_hostname" /\ local'[w] = local[w]
  BY DEF Copies
<1>1. w \in Thread /\ worker_set_hostname(w) /\ pc[w] = "set_hostname" /\ local[w].cn \in Hostname
  BY Threads, WorkerPlaces DEF worker_set_hostname, At, BInv, Positions, PositionOf
<1>2. Goto(w, "copy_hostname") /\ at'[w] = "naming"
  <2>1. Goto(w, "rearm") => pc'[w] = "rearm"
    BY <1>1, GotoEffect DEF BInv
  <2>. QED  BY <1>1, <2>1 DEF worker_set_hostname
<1>3. GotoWith(w, "copy_hostname", local[w])
  BY <1>2 DEF Goto
<1>4. local'[w] = local[w]
  BY <1>1, <1>3, GotoEffect DEF BInv
<1>5. /\ fd_key[local[w].fd] # NULL /\ host_key' = [host_key EXCEPT ![local[w].cn] = fd_key[local[w].fd]]
      /\ arg' = [arg EXCEPT ![w] = local[w].cn]
  BY <1>1, <1>2 DEF worker_set_hostname, client_set_hostname, set_hostname_key
<1>6. arg'[w] = local[w].cn /\ host_key'[local[w].cn] # NULL
  BY <1>1, <1>5 DEF IInv, cmTypeOK
<1>. QED  BY <1>1, <1>4, <1>6

LEMMA CopyKeepsKeys ==
  ASSUME IInv, AInv, KeysThere, NEW w \in Worker, worker_copy_hostname(w), OthersKeep(w), PcAlone(w)
  PROVE  (\A p \in Client : KeyThere(p)') /\ \A u \in Worker : u # w => Copies(u)'
<1>1. w \in Thread /\ pc[w] = "copy_hostname" /\ client_set_hostname_copy(w) /\ Copies(w)
  BY Threads DEF worker_copy_hostname, At, KeysThere
<1>2. host_key' = host_key /\ fd_key' = fd_key /\ at'[w] = "out" /\ host_key[arg[w]] # NULL
  BY <1>1 DEF client_set_hostname_copy, Goes, IInv, cmTypeOK, Copies
<1>3. \A p \in Client : Listed(p)' => Listed(p)
  BY <1>2 DEF Listed, Mapped, OthersKeep
<1>4. ASSUME NEW p \in Client
      PROVE  KeyThere(p)'
  <2>1. CASE p = ptr[w]
    <3>1. heap'[p].hostname = arg[w]
      BY <1>1, <2>1, NamingFrames
    <3>. QED  BY <1>2, <3>1 DEF KeyThere
  <2>2. CASE p # ptr[w]
    <3>1. heap'[p].hostname = heap[p].hostname
      BY <1>1, <2>2, NamingFrames
    <3>. QED  BY <1>2, <1>3, <3>1 DEF KeyThere, KeysThere
  <2>. QED  BY <2>1, <2>2
<1>5. ASSUME NEW u \in Worker, u # w
      PROVE  Copies(u)'
  <2>1. u \in Thread /\ pc'[u] = pc[u] /\ local'[u] = local[u] /\ arg'[u] = arg[u]
    BY <1>5, Threads DEF PcAlone, OthersKeep
  <2>. QED  BY <1>2, <2>1 DEF Copies, KeysThere
<1>. QED  BY <1>4, <1>5

LEMMA WorkerKeepsFound ==
  ASSUME IInv, BInv, AInv, SamePeople, NamesAreUnique, NamesGiven, KeysThere,
         NEW w \in Worker, WorkerStep(w), Moved(w)
  PROVE  NamesGiven' /\ KeysThere'
<1>1. w \in Thread /\ PcAlone(w) /\ OthersKeep(w) /\ SessionsLast /\ GivenOnce /\ Copies(w)
  BY Threads, WorkerLogsNobodyOut DEF Moved, NamesGiven, KeysThere
<1>2. CASE worker_copy_hostname(w)
  <2>1. NamesGiven'
    BY <1>1, <1>2, CopyGives
  <2>2. KeysThere'
    BY <1>1, <1>2, CopyKeepsKeys, WorkerCopies DEF KeysThere
  <2>. QED  BY <2>1, <2>2
<1>3. CASE Call(w)
  <2>1. \A p \in Client : Persists(p) /\ heap'[p].hostname \in {heap[p].hostname, NULL}
    BY <1>3, CallFrames
  <2>2. ASSUME handshake_done(w)
        PROVE  NamesGiven'
    BY <1>1, <2>1, <2>2, HandshakeGives
  <2>3. ASSUME ~handshake_done(w)
        PROVE  NamesGiven'
    <3>1. pc'[w] \in Naming => pc[w] = "set_hostname" /\ local'[w] = local[w]
      BY <2>3, WorkerPlaces, WorkerCopies DEF Naming
    <3>2. \A u \in Worker, h \in Hostname : Giving(u, h)' => Giving(u, h)
      BY <1>1, <3>1, Threads DEF PcAlone, Giving, Naming
    <3>. QED  BY <1>1, <2>1, <3>2, UngivingKeeps DEF Ungiving
  <2>4. KeysThere'
    BY <1>1, <1>3, CallKeepsKeys, WorkerCopies DEF KeysThere
  <2>. QED  BY <2>2, <2>3, <2>4
<1>. QED  BY <1>2, <1>3, WorkerCalls

\* The other threads give no names.
LEMMA RestKeepsFound ==
  ASSUME IInv, BInv, AInv, SamePeople, NamesGiven, KeysThere,
         NEW t \in {Main, Heartbeat, Cli}, Call(t), PcAlone(t), session' = session
  PROVE  NamesGiven' /\ KeysThere'
<1>1. t \in Thread /\ t \notin Worker /\ GivenOnce /\ SessionsLast
  BY Threads DEF NamesGiven, SessionsLast
<1>2. Ungiving
  <2>1. \A p \in Client : Persists(p) /\ heap'[p].hostname \in {heap[p].hostname, NULL}
    BY CallFrames
  <2>2. \A u \in Worker, h \in Hostname : Giving(u, h)' => Giving(u, h)
    BY <1>1, Threads DEF PcAlone, Giving
  <2>. QED  BY <2>1, <2>2 DEF Ungiving
<1>3. KeysThere'
  BY <1>1, CallKeepsKeys DEF KeysThere
<1>. QED  BY <1>1, <1>2, <1>3, UngivingKeeps

LEMMA HeartbeatCalls ==
  ASSUME BInv, HeartbeatStep
  PROVE  Call(Heartbeat) /\ session' = session /\ peer' = peer
<1>1. CASE remove_unmap(Heartbeat, "sweep")
  <2>1. /\ local[Heartbeat].fd \in Fd /\ client_remove(Heartbeat, local[Heartbeat].fd)
        /\ session' = session /\ peer' = peer
    BY <1>1, Threads DEF remove_unmap, At, BInv, Positions, PositionOf, netVars
  <2>. QED  BY <2>1 DEF Call
<1>2. CASE \/ sweep_begin \/ sweep_scanned \/ sweep_done \/ (\E p \in Client : sweep_scan(p))
           \/ (\E e \in fds_to_remove : sweep_unsubscribe(e)) \/ remove_destroy(Heartbeat, "sweep")
  BY <1>2 DEF sweep_begin, sweep_scanned, sweep_done, sweep_scan, sweep_unsubscribe, remove_destroy,
       Call, brokerVars, netVars
<1>. QED  BY <1>1, <1>2 DEF HeartbeatStep

LEMMA MainKeepsFound ==
  ASSUME IInv, BInv, BInv', AInv, [cmNext]_cmVars, SamePeople, NamesAreUnique', NamesGiven, KeysThere,
         MainStep \/ MainAccept \/ PeerStep \/ UNCHANGED vars, Moved(Main), pc' = pc, local' = local
  PROVE  NamesGiven' /\ KeysThere'
<1>1. Main \in Thread /\ Main \notin Worker /\ PcAlone(Main) /\ OthersKeep(Main)
  BY Threads DEF Moved
<1>2. CASE Call(Main) /\ session' = session
  BY <1>1, <1>2, RestKeepsFound
<1>3. ASSUME host_key' = host_key
      PROVE  \A u \in Worker : Copies(u)'
  <2>1. \A u \in Worker : arg'[u] = arg[u]
    BY <1>1, Threads DEF OthersKeep
  <2>. QED  BY <1>3, <2>1 DEF Copies, KeysThere
<1>4. CASE /\ session' = session /\ heap' = heap
           /\ fd_key' = fd_key /\ host_key' = host_key /\ at' = at /\ ptr' = ptr
  <2>1. Ungiving /\ SessionsLast
    BY <1>4 DEF Ungiving, SessionsLast, Persists, Giving
  <2>2. \A p \in Client : KeyThere(p)'
    BY <1>4 DEF KeysThere, KeyThere, Listed, Mapped
  <2>. QED  BY <1>3, <1>4, <2>1, <2>2, UngivingKeeps DEF KeysThere
<1>5. ASSUME NEW f \in Fd, NEW q \in Client, accept_vault(Main, f, q),
             session' = [session EXCEPT ![q] = NoSession]
      PROVE  NamesGiven' /\ KeysThere'
  <2>1. NamesGiven' /\ heap'[q].hostname = NULL /\ \A p \in Client : p # q => heap'[p] = heap[p]
    BY <1>5, AcceptGives
  <2>2. fd_key' = fd_key /\ host_key' = host_key /\ ptr'[Main] = q
    BY <1>1, <1>5 DEF accept_vault, Goes, IInv, cmTypeOK
  <2>3. \A p \in Client : p # q /\ Listed(p)' => Listed(p)
    BY <1>1, <2>2 DEF Listed, Mapped, OthersKeep
  <2>4. \A p \in Client : KeyThere(p)'
    BY <2>1, <2>2, <2>3 DEF KeyThere, KeysThere
  <2>. QED  BY <1>3, <2>1, <2>2, <2>4 DEF KeysThere
<1>. QED  BY <1>2, <1>4, <1>5, MainCalls

LEMMA FoundInit == Init => FoundInv
<1>. SUFFICES ASSUME Init PROVE NamesGiven /\ KeysThere
  BY DEF FoundInv
<1>1. pc = [t \in Thread |-> "idle"] /\ heap = [p \in Client |-> Freed]
  BY DEF Init, client_manager_init
<1>2. /\ \A p \in Client : ~heap[p].alloc /\ heap[p].hostname = NULL
      /\ \A w \in Worker : pc[w] = "idle"
  BY <1>1, Threads DEF Freed
<1>3. \A h \in Hostname : ~InUse(h) /\ \A w \in Worker : ~Giving(w, h)
  BY <1>2, NullIsNoClient DEF InUse, Giving, Naming
<1>4. NamesGiven
  BY <1>2, <1>3, NullIsNoClient DEF NamesGiven, OneStructPerConn, GivenOnce, NotYetGiven, GivenToPeers
<1>5. KeysThere
  BY <1>2 DEF KeysThere, KeyThere, Copies
<1>. QED  BY <1>4, <1>5

LEMMA ConnectedAreFound == IInv /\ BInv /\ FoundInv => CliFindsConnected
<1>. SUFFICES ASSUME IInv, BInv, FoundInv, NamesAreUnique, pc[Cli] \in Finding,
                     host_key[local[Cli].cn] = NULL, NEW f \in Fd, fd_key[f] # NULL
              PROVE  heap[fd_key[f]].hostname # local[Cli].cn
  BY DEF CliFindsConnected, Finding
<1>1. fd_key[f] \in Client /\ Listed(fd_key[f])
  BY RegisteredClient DEF Listed, Mapped
<1>2. local[Cli].cn \in Hostname
  BY Threads DEF BInv, Positions, PositionOf
<1>. QED  BY <1>1, <1>2, NullIsNoClient DEF FoundInv, KeysThere, KeyThere
==============================================================================
