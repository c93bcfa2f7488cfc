---------------------------- MODULE BrokerProofs ----------------------------
(***************************************************************************)
(* The whole broker, for any number of workers, connections, descriptors,  *)
(* topics and queue slots, whatever its peers and its operator do: its     *)
(* threads use the registry and the topic table only in the ways that the  *)
(* theorems about those two allow, an enrolling peer is sent its own       *)
(* certificate, no client is forgotten, messages arrive in one order, and, *)
(* where no sweep closes clients behind the workers' backs, no connection  *)
(* is taken for another: commands, rows and messages reach their own.      *)
(***************************************************************************)
EXTENDS Broker, SharedStateProofs, WorkerProofs, ThreadProofs, MessageProofs

\* Most leaves need no arithmetic: Zenon, unless a leaf names SMT.
USE Zenon

----------------------------------------------------------------------------
(* The invariants hold throughout. *)

LEMMA RegistryStep == IInv /\ BInv /\ [Next]_vars => [cmNext]_cmVars
<1>. SUFFICES ASSUME IInv, BInv, [Next]_vars PROVE [cmNext]_cmVars
  OBVIOUS
<1>1. CASE PeerStep
  BY Zenon, <1>1, RegistrySteps DEF PeerStep, peer_send, peer_close, client_silent
<1>2. CASE UNCHANGED vars
  BY <1>2 DEF vars
<1>. QED  BY <1>1, <1>2, MainRegistrySteps, WorkerRegistrySteps, HeartbeatRegistrySteps,
             CliRegistrySteps DEF Next

LEMMA BrokerNext == IInv /\ BInv /\ [Next]_vars => BInv'
<1>. SUFFICES ASSUME IInv, BInv, [Next]_vars PROVE BInv'
  OBVIOUS
<1>1. CASE MainStep
  BY <1>1, ClientAddKeeps, QueueWriteKeeps, DispatchKeeps DEF MainStep
<1>2. CASE UNCHANGED vars
  <2>1. /\ UNCHANGED <<pc, local, session, netVars, enrollVars, load>>
        /\ at' = at /\ sock' = sock /\ accepted' = accepted
    BY <1>2 DEF vars, cmVars, brokerVars, dataVars
  <2>2. Main \in Thread /\ OthersStay(Main) /\ PositionOf(Main)'
    BY <2>1, Threads DEF BInv, Positions, OthersStay, PositionOf
  <2>. QED  BY <2>1, <2>2, StaysPut
<1>. QED  BY <1>1, <1>2, MainAcceptKeeps, WorkerKeeps, HeartbeatKeeps, CliKeeps, PeersKeep DEF Next

LEMMA BrokerAlways == Spec => [](IInv /\ BInv)
<1>1. Init => IInv /\ BInv
  BY InitIInv, BrokerInit DEF Init
<1>2. IInv /\ BInv /\ [Next]_vars => (IInv /\ BInv)'
  BY RegistryStep, NextIInv, BrokerNext
<1>. QED  BY <1>1, <1>2, PTL DEF Spec

LEMMA TableStep == IInv /\ BInv /\ [Next]_vars => [psNext]_psVars
<1>. SUFFICES ASSUME IInv, BInv, [Next]_vars PROVE [psNext]_psVars
  OBVIOUS
<1>1. CASE MainStep \/ MainAccept \/ PeerStep
  BY Zenon, <1>1 DEF MainStep, MainAccept, PeerStep, main_client_add, main_queue_write, main_dispatch,
       main_accept_lobby, main_accept_vault, peer_send, peer_close, client_silent
<1>2. CASE HeartbeatStep
  <2>1. Heartbeat \in Thread
    BY Threads
  <2>2. ASSUME NEW e \in fds_to_remove, sweep_unsubscribe(e)
        PROVE  [psNext]_psVars
    <3>1. e[1] \in SubscriberFd
      BY <2>2 DEF IInv, cmTypeOK, SubscriberFd
    <3>. QED  BY <2>2, <3>1, TableSteps DEF sweep_unsubscribe
  <2>3. CASE sweep_begin \/ sweep_scanned \/ sweep_done \/ \E p \in Client : sweep_scan(p)
    BY Zenon, <2>3 DEF sweep_begin, sweep_scanned, sweep_done, sweep_scan
  <2>. QED  BY <1>2, <2>1, <2>2, <2>3, SharedTableSteps DEF HeartbeatStep
<1>3. CASE UNCHANGED vars
  BY <1>3 DEF vars
<1>. QED  BY <1>1, <1>2, <1>3, WorkerTableSteps, CliTableSteps DEF Next

LEMMA TableAlways == Spec => psSpec
<1>1. Init => pubsub_init
  BY DEF Init
<1>. QED  BY <1>1, BrokerAlways, TableStep, PTL DEF Spec, psSpec

LEMMA StationsNext == IInv /\ BInv /\ AInv /\ [Next]_vars => AInv'
<1>. SUFFICES ASSUME IInv, BInv, AInv, [Next]_vars PROVE AInv'
  OBVIOUS
<1>1. [cmNext]_cmVars
  BY RegistryStep
<1>2. \E t \in Thread : Moved(t)
  <2>1. CASE \E w \in Worker : WorkerStep(w)
    BY <1>1, <2>1, WorkerTurns, Threads
  <2>. QED  BY <2>1, CliTurns, HeartbeatTurns, MainMoves, Threads DEF Next
<1>. QED  BY <1>1, <1>2, MovedKeeps

LEMMA WakeupNext == IInv /\ BInv /\ AInv /\ WInv /\ [Next]_vars => WInv'
<1>. SUFFICES ASSUME IInv, BInv, AInv, WInv, [Next]_vars PROVE WInv'
  OBVIOUS
<1>1. [cmNext]_cmVars
  BY RegistryStep
<1>2. CASE \E w \in Worker : WorkerStep(w)
  <2>1. PICK w \in Worker : PcAlone(w) /\ Turn(w)
    BY <1>1, <1>2, WorkerTurns DEF Moved
  <2>. QED  BY <2>1, TurnKeepsWakeup DEF IInv, cmTypeOK
<1>. QED  BY <1>2, OthersKeepWakeup, MainKeepsWakeup DEF Next

LEMMA ServiceAlways == Spec => [](IInv /\ BInv /\ AInv /\ WInv)
<1>1. Init => AInv /\ WInv
  BY ServiceInit
<1>2. IInv /\ BInv /\ AInv /\ WInv /\ [Next]_vars => (AInv /\ WInv)'
  BY StationsNext, WakeupNext
<1>. QED  BY <1>1, <1>2, BrokerAlways, PTL DEF Spec

\* The load bounds what is still to come; the heartbeat never wakes up without one.
LEMMA LoadSteps ==
  ASSUME BInv, [Next]_vars
  PROVE  /\ load'.heartbeat = load.heartbeat /\ load'.typed = load.typed
         /\ HeartbeatStep \/ load'.sweeps = load.sweeps
<1>1. UNCHANGED vars => load' = load
  BY DEF vars, brokerVars
<1>2. load \in Workloads
  BY LoadStays
<1>. QED  BY <1>1, <1>2, WorkerLoad, ThreadLoads DEF Next, Workloads

LEMMA AsleepStays == Asleep => ~HeartbeatStep
BY DEF Asleep, HeartbeatStep, sweep_begin, sweep_scanned, sweep_done, sweep_scan,
     sweep_unsubscribe, remove_unmap, remove_destroy, At

LEMMA OwnNext == IInv /\ BInv /\ AInv /\ OwnInv /\ [Next]_vars => OwnInv'
<1>. SUFFICES ASSUME IInv, BInv, AInv, OwnInv, [Next]_vars, ~load'.heartbeat
              PROVE  Asleep' /\ OwnedAll'
  BY DEF OwnInv, OwnedAll
<1>1. [cmNext]_cmVars
  BY RegistryStep
<1>2. ~load.heartbeat /\ (HeartbeatStep \/ load'.sweeps = load.sweeps)
  BY LoadSteps
<1>3. Asleep /\ OwnedAll
  BY <1>2 DEF OwnInv, OwnedAll
<1>4. ~HeartbeatStep
  BY <1>3, AsleepStays
<1>5. CASE \E w \in Worker : WorkerStep(w)
  <2>1. PICK w \in Worker : WorkerStep(w)
    BY <1>5
  <2>2. Moved(w) /\ Turn(w)
    BY <1>1, <2>1, WorkerTurns
  <2>3. OwnedAll'
    BY <1>1, <1>3, <2>2, WorkerKeepsOwned
  <2>4. pc'[Heartbeat] = pc[Heartbeat]
    BY <2>2, Threads DEF Moved, PcAlone
  <2>. QED  BY <1>2, <1>3, <1>4, <2>3, <2>4 DEF Asleep
<1>6. CASE CliStep
  <2>1. OwnedAll'
    BY <1>1, <1>3, <1>6, CliKeepsOwned
  <2>2. pc'[Heartbeat] = pc[Heartbeat]
    BY <1>6, CliTurns, Threads DEF Moved, PcAlone
  <2>. QED  BY <1>2, <1>3, <1>4, <2>1, <2>2 DEF Asleep
<1>7. CASE MainStep \/ MainAccept \/ PeerStep \/ UNCHANGED vars
  <2>1. OwnedAll'
    BY <1>1, <1>3, <1>7, MainKeepsOwned
  <2>2. pc'[Heartbeat] = pc[Heartbeat]
    BY <1>7, MainMoves
  <2>. QED  BY <1>2, <1>3, <1>4, <2>1, <2>2 DEF Asleep
<1>. QED  BY <1>4, <1>5, <1>6, <1>7 DEF Next

LEMMA OwnAlways == Spec => [](IInv /\ BInv /\ AInv /\ OwnInv)
<1>1. Init => OwnInv
  BY OwnInit
<1>2. IInv /\ BInv /\ AInv /\ OwnInv /\ [Next]_vars => OwnInv'
  BY OwnNext
<1>. QED  BY <1>1, <1>2, ServiceAlways, PTL DEF Spec

LEMMA NameNext == IInv /\ BInv /\ AInv /\ OwnInv /\ NameInv /\ [Next]_vars => NameInv'
<1>. SUFFICES ASSUME IInv, BInv, AInv, OwnInv, NameInv, [Next]_vars, ~load'.heartbeat
              PROVE  NamesOwned'
  BY DEF NameInv
<1>1. [cmNext]_cmVars /\ IInv'
  BY RegistryStep, NextIInv
<1>2. Asleep /\ OwnedAll /\ NamesOwned /\ OwnedAll'
  BY LoadSteps, OwnNext DEF OwnInv, OwnedAll, NameInv
<1>3. CASE \E w \in Worker : WorkerStep(w)
  <2>1. PICK w \in Worker : WorkerStep(w)
    BY <1>3
  <2>. QED  BY <1>1, <1>2, <2>1, WorkerTurns, WorkerPeople, WorkerKeepsNames
<1>4. CASE CliStep
  BY <1>1, <1>2, <1>4, CliTurns, ThreadPeople, CliKeepsNames
<1>5. CASE MainStep \/ MainAccept \/ PeerStep \/ UNCHANGED vars
  BY <1>1, <1>2, <1>5, MainMoves, ThreadPeople, MainKeepsNames
<1>. QED  BY <1>2, <1>3, <1>4, <1>5, AsleepStays DEF Next

LEMMA NameAlways == Spec => [](IInv /\ BInv /\ AInv /\ OwnInv /\ NameInv)
<1>1. Init => NameInv
  BY NamesInit
<1>2. IInv /\ BInv /\ AInv /\ OwnInv /\ NameInv /\ [Next]_vars => NameInv'
  BY NameNext
<1>. QED  BY <1>1, <1>2, OwnAlways, PTL DEF Spec

LEMMA BusAlways == Spec => [](IInv /\ BInv /\ AInv /\ BusInv)
<1>1. Init => BusInv
  BY BusInit
<1>2. IInv /\ BInv /\ AInv /\ BusInv /\ [Next]_vars => BusInv'
  BY BusNext
<1>. QED  BY <1>1, <1>2, ServiceAlways, PTL DEF Spec

\* The topic table's own invariant gives its callers what they count on.
LEMMA TableKeepsItsLaws == psInv => TableLaws
<1>. SUFFICES ASSUME psInv PROVE TableLaws
  OBVIOUS
<1>1. WellFormed(topics) /\ cursor \in [Thread -> Nat \X Nat \X Nat] /\ CursorInside
  BY TypesAndShape DEF psInv
<1>2. \A f, a : (Subscribed(f, a) <=> IsIn(topics, f, a)) /\ (Subscribed(f, a)' <=> IsIn(topics', f, a))
  BY DEF Subscribed, IsIn, Elements
<1>3. ASSUME NEW fd \in SubscriberFd, NEW name \in Topic
      PROVE  /\ pubsub_subscribe(fd, name) =>
                  \A f \in SubscriberFd, a \in Topic : Subscribed(f, a)' => Subscribed(f, a) \/ f = fd
             /\ pubsub_unsubscribe(fd, name) =>
                  \A f \in SubscriberFd, a \in Topic : Subscribed(f, a)' => Subscribed(f, a)
  BY <1>1, <1>2, SubscribeRecords, UnsubscribeRemoves
<1>4. ASSUME NEW fd \in SubscriberFd, pubsub_unsubscribe_all(fd)
      PROVE  \A f \in SubscriberFd, a \in Topic : Subscribed(f, a)' => Subscribed(f, a) /\ f # fd
  BY <1>1, <1>2, <1>4, UnsubscribeAllRemoves
<1>5. ASSUME NEW t \in Thread, AtSubscriber(t)
      PROVE  Current(t) \in SubscriberFd /\ \E a \in Topic : Subscribed(Current(t), a)
  <2>1. cursor[t] # NoCursor /\ cursor[t][1] \in Nat
    BY <1>1, <1>5, SMT DEF AtSubscriber, NoCursor
  <2>2. /\ cursor[t][1] \in 1 .. Len(topics)
        /\ cursor[t][2] \in 1 .. Len(topics[cursor[t][1]].subscribers)
    BY <1>1, <1>5, <2>1, SMT DEF AtSubscriber, CursorInside, WellFormed, TopicEntry
  <2>3. topics[cursor[t][1]] \in TopicEntry
    BY <1>1, <2>2, SMT DEF WellFormed
  <2>4. Current(t) \in SubscriberFd /\ topics[cursor[t][1]].name \in Topic
    BY <2>2, <2>3, SMT DEF TopicEntry, Current
  <2>. QED  BY <2>2, <2>4 DEF Subscribed, Current
<1>. QED  BY <1>3, <1>4, <1>5 DEF TableLaws

LEMMA SubscriberNext ==
  IInv /\ BInv /\ AInv /\ OwnInv /\ NameInv /\ BusInv /\ psInv /\ SubscriberInv /\ [Next]_vars
    => SubscriberInv'
<1>. SUFFICES ASSUME IInv, BInv, AInv, OwnInv, NameInv, BusInv, psInv, SubscriberInv, [Next]_vars,
                     Undisturbed'
              PROVE  SubscribersOwned'
  BY DEF SubscriberInv
<1>1. [cmNext]_cmVars /\ IInv' /\ TableLaws
  BY RegistryStep, NextIInv, TableKeepsItsLaws
<1>2. ~load.heartbeat /\ ~OperatorSubscribes
  BY LoadSteps DEF Undisturbed, OperatorSubscribes
<1>3. Asleep /\ OwnedAll /\ NamesOwned /\ SubscribersOwned
  BY <1>2 DEF OwnInv, OwnedAll, NameInv, SubscriberInv, Undisturbed
<1>4. CASE \E w \in Worker : WorkerStep(w)
  <2>1. PICK w \in Worker : WorkerStep(w)
    BY <1>4
  <2>. QED  BY <1>1, <1>3, <2>1, WorkerTurns, WorkerKeepsSubscribers
<1>5. CASE CliStep
  BY <1>1, <1>2, <1>3, <1>5, CliTurns, CliKeepsSubscribers DEF SameKeys
<1>6. CASE MainStep \/ MainAccept \/ PeerStep \/ UNCHANGED vars
  BY <1>1, <1>3, <1>6, MainMoves, MainKeepsKeys, MainKeepsSubscribers
<1>. QED  BY <1>3, <1>4, <1>5, <1>6, AsleepStays DEF Next

LEMMA SubscriberAlways == Spec => []SubscriberInv
<1>1. Init => SubscriberInv
  BY SubscribersInit
<1>2. IInv /\ BInv /\ AInv /\ OwnInv /\ NameInv /\ BusInv /\ psInv /\ SubscriberInv /\ [Next]_vars
        => SubscriberInv'
  BY SubscriberNext
<1>3. Spec => psSpec
  BY TableAlways
<1>. QED  BY <1>1, <1>2, <1>3, psAlways, NameAlways, BusAlways, PTL DEF Spec

\* No two connections use one name, now or before.
LEMMA FoundNext == IInv /\ BInv /\ AInv /\ FoundInv /\ [Next]_vars => FoundInv'
<1>. SUFFICES ASSUME IInv, BInv, AInv, FoundInv, [Next]_vars, NamesAreUnique'
              PROVE  NamesGiven' /\ KeysThere'
  BY DEF FoundInv
<1>1. [cmNext]_cmVars /\ BInv'
  BY RegistryStep, BrokerNext
<1>2. ASSUME SamePeople
      PROVE  NamesAreUnique /\ NamesGiven /\ KeysThere
  BY <1>2, UniquenessWasThere DEF FoundInv
<1>3. CASE \E w \in Worker : WorkerStep(w)
  <2>1. PICK w \in Worker : WorkerStep(w)
    BY <1>3
  <2>. QED  BY <1>1, <1>2, <2>1, WorkerTurns, WorkerPeople, WorkerKeepsFound
<1>4. CASE CliStep
  <2>1. SamePeople /\ PcAlone(Cli)
    BY <1>1, <1>4, CliTurns, ThreadPeople DEF Moved
  <2>. QED  BY <1>2, <1>4, <2>1, CliCalls, RestKeepsFound
<1>5. CASE HeartbeatStep
  <2>1. PcAlone(Heartbeat) /\ Call(Heartbeat) /\ session' = session /\ peer' = peer
    BY <1>5, HeartbeatTurns, HeartbeatCalls DEF Moved
  <2>2. SamePeople
    BY <1>1, <2>1, SamePeopleStay DEF SameIdentities
  <2>. QED  BY <1>2, <2>1, <2>2, RestKeepsFound
<1>6. CASE MainStep \/ MainAccept \/ PeerStep \/ UNCHANGED vars
  <2>1. SamePeople /\ Moved(Main) /\ pc' = pc /\ local' = local
    BY <1>1, <1>6, MainMoves, ThreadPeople
  <2>. QED  BY <1>1, <1>2, <1>6, <2>1, MainKeepsFound
<1>. QED  BY <1>3, <1>4, <1>5, <1>6 DEF Next

LEMMA FoundAlways == Spec => [](IInv /\ BInv /\ AInv /\ FoundInv)
<1>1. Init => FoundInv
  BY FoundInit
<1>2. IInv /\ BInv /\ AInv /\ FoundInv /\ [Next]_vars => FoundInv'
  BY FoundNext
<1>. QED  BY <1>1, <1>2, ServiceAlways, PTL DEF Spec

----------------------------------------------------------------------------
(* Theorems *)

\* The threads of the broker call the registry only in the ways that its own theorems
\* allow.  In particular worker.c's close(task->client_fd) hits a lobby socket that no
\* other thread has, never a client's, although descriptors are reused and the workers
\* go by their numbers.
THEOREM BrokerUsesRegistry == Spec => ImplementsRegistry
<1>1. Init => client_manager_init
  BY DEF Init
<1>. QED  BY <1>1, BrokerAlways, RegistryStep, PTL DEF Spec, ImplementsRegistry, cmSpec

\* Hence, with any number of workers beside the heartbeat and the operator: a client that
\* client_get_and_lock_by_fd looks up is not freed while it is waited for or held, nor is
\* one that a walk over the map will visit; a registered descriptor is its client's; and
\* no two threads destroy the same client in client_remove.
THEOREM BrokerClientsAreSafe ==
  Spec => [](HeldIsLive /\ RegisteredIsOpen /\ OneDestroyer /\ WalkedIsLive)
BY BrokerUsesRegistry, SafeByDescriptor, KeysAreFresh, FreedOnce, WalksAreSafe, PTL
   DEF ImplementsRegistry

\* The threads of the broker touch the topic table only through its functions and never
\* iterate over it without pubsub_lock.
THEOREM BrokerUsesTopicTable == Spec => ImplementsTopicTable
BY TableAlways DEF ImplementsTopicTable

\* "Named using the socket FD to avoid collisions": of any number of enrolments that
\* workers handle at the same time each peer is sent the certificate made from its own
\* request, under the name it was verified for.
THEOREM CertificatesReachTheirOwner == Spec => []OwnCertificate
<1>1. BInv => OwnCertificate
  BY DEF BInv, IssuedToOwner, Verified, OwnCertificate
<1>. QED  BY <1>1, BrokerAlways, PTL

\* No client is forgotten: whatever the workers, the heartbeat, the operator and the peers
\* do, every registered client is armed, queued, or in the hands of a worker.
THEOREM NoClientForgotten == Spec => []ClientHasWakeup
<1>1. WInv => ClientHasWakeup
  BY DEF WInv, Woken, ClientHasWakeup
<1>. QED  BY <1>1, ServiceAlways, PTL

\* Without the heartbeat a worker executes a client's command lines with that client in
\* its hands, also after a PUBLISH for which it let go of it.
THEOREM WorkersServeTheirOwn == Spec => []ServesItsOwn
<1>1. IInv /\ BInv /\ AInv /\ OwnInv => ServesItsOwn
  BY OwnsItsClient DEF ServesItsOwn, At
<1>. QED  BY <1>1, OwnAlways, PTL

\* Without the heartbeat a worker destroys the client whose event it handled, and no
\* later one with the same descriptor.
THEOREM WorkersRemoveTheirOwn == Spec => []RemovesItsOwn
<1>1. IInv /\ BInv /\ AInv /\ OwnInv => RemovesItsOwn
  BY OwnsItsClient DEF RemovesItsOwn, At
<1>. QED  BY <1>1, OwnAlways, PTL

\* Without the heartbeat every row that a client's command writes carries the name in that
\* client's certificate, which was verified against the address it came from.
THEOREM RowsCarryTheirSender == Spec => []RowsNameTheirSender
<1>1. NameInv => RowsNameTheirSender
  BY RowsAreNamed
<1>. QED  BY <1>1, NameAlways, PTL

\* Any two messages, of any publishers, reach any two subscribers in the same order.
THEOREM MessagesKeepOneOrder == Spec => []SameOrder
<1>1. BusInv => SameOrder
  BY OneOrder
<1>. QED  BY <1>1, BusAlways, PTL

\* Without the heartbeat and the operator's SUBSCRIBE, the descriptor of whoever is gone is
\* in no topic, and published messages are written only to those who have authenticated.
THEOREM SubscribersAreConnected == Spec => [](NoGhostSubscriptions /\ ReceiversAuthenticated)
<1>1. SubscriberInv => NoGhostSubscriptions /\ ReceiversAuthenticated
  BY SubscribersAreClients
<1>. QED  BY <1>1, SubscriberAlways, PTL

\* As long as no two connections use one name, the operator's SUBSCRIBE and UNSUBSCRIBE
\* find whoever is registered under the name they give: the key that client_set_hostname
\* puts into the map outlives c->hostname, also when the sweep removes the client while a
\* worker is still naming it and the struct is freed and used again in between.
THEOREM OperatorFindsConnected == Spec => []CliFindsConnected
<1>1. IInv /\ BInv /\ FoundInv => CliFindsConnected
  BY ConnectedAreFound
<1>. QED  BY <1>1, FoundAlways, PTL
=============================================================================
