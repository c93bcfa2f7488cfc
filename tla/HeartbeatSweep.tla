--------------------------- MODULE HeartbeatSweep ---------------------------
(***************************************************************************)
(* src/heartbeat.c and client_manager_sweep_inactive: collect the          *)
(* descriptors of idle clients under clients_rwlock, release it, then      *)
(* remove them one by one, by number.                                      *)
(***************************************************************************)
EXTENDS BrokerState

sweep_begin ==
  /\ At(Heartbeat, "idle")
  /\ load.sweeps # 0
  /\ load' = [load EXCEPT !.sweeps = IF @ > 0 THEN @ - 1 ELSE @]
  /\ walk_begin(Heartbeat)
  /\ Goto(Heartbeat, "scan")
  /\ UNCHANGED <<psVars, session, netVars, dataVars>>

sweep_scan(p) ==
  /\ At(Heartbeat, "scan")
  /\ walk_visit(Heartbeat, p, TRUE)
  /\ UNCHANGED <<psVars, brokerVars>>

sweep_scanned ==
  /\ At(Heartbeat, "scan")
  /\ walk_end(Heartbeat)
  /\ Goto(Heartbeat, "sweep")
  /\ UNCHANGED <<psVars, session, netVars, dataVars, load>>

\* The next descriptor: unsubscribe it, then client_remove.
sweep_unsubscribe(e) ==
  /\ At(Heartbeat, "sweep")
  /\ sweep_next(e)
  /\ pubsub_unsubscribe_all(e[1])
  /\ GotoWith(Heartbeat, "remove", [NoLocal EXCEPT !.fd = e[1], !.conn = e[2]])
  /\ UNCHANGED <<session, netVars, dataVars, load>>

sweep_done ==
  /\ At(Heartbeat, "sweep")
  /\ fds_to_remove = {}
  /\ Goto(Heartbeat, "idle")
  /\ UNCHANGED <<cmVars, psVars, session, netVars, dataVars, load>>

HeartbeatStep ==
  \/ sweep_begin \/ sweep_scanned \/ sweep_done
  \/ \E p \in Client : sweep_scan(p)
  \/ \E e \in fds_to_remove : sweep_unsubscribe(e)
  \/ remove_unmap(Heartbeat, "sweep") \/ remove_destroy(Heartbeat, "sweep")
=============================================================================
