------------------------------ MODULE AdminCli ------------------------------
(***************************************************************************)
(* src/cli.c, admin_cli_thread: the operator's commands.  A command is     *)
(*   [op, host, topic]                                                     *)
(* with op the position of its branch: "publish", "find_subscribe",        *)
(* "find_unsubscribe", "set" or "status".  GET only reads.                 *)
(***************************************************************************)
EXTENDS BrokerState

\* Reads the next command line; the position says which branch is taken.
cli_input(c) ==
  /\ At(Cli, "idle")
  /\ load.commands > 0
  /\ load' = [load EXCEPT !.commands = @ - 1]
  /\ GotoWith(Cli, c.op, [NoLocal EXCEPT !.topic = c.topic, !.cn = c.host])
  /\ UNCHANGED <<cmVars, psVars, session, netVars, dataVars>>

\* client_get_and_lock_by_hostname, int fd = c->fd, client_unlock; or "No active
\* connection found".
cli_find(from, to) ==
  /\ At(Cli, from)
  /\ \/ /\ at[Cli] = "out" /\ host_key[local[Cli].cn] = NULL
        /\ Goto(Cli, "idle")
        /\ UNCHANGED cmVars
     \/ /\ get_wait(Cli, host_key[local[Cli].cn], "asking")
        /\ UNCHANGED <<pc, local>>
     \/ /\ get_visit(Cli, host_key[local[Cli].cn])
        /\ GotoWith(Cli, to, [local[Cli] EXCEPT !.fd = heap[Found(Cli, host_key[local[Cli].cn])].fd])
  /\ UNCHANGED <<psVars, session, netVars, dataVars, load>>

\* With the number read before the client was unlocked.
cli_subscribe ==
  /\ At(Cli, "subscribe")
  /\ pubsub_subscribe(local[Cli].fd, local[Cli].topic)
  /\ Goto(Cli, "idle")
  /\ UNCHANGED <<cmVars, session, netVars, dataVars, load>>

cli_unsubscribe ==
  /\ At(Cli, "unsubscribe")
  /\ pubsub_unsubscribe(local[Cli].fd, local[Cli].topic)
  /\ Goto(Cli, "idle")
  /\ UNCHANGED <<cmVars, session, netVars, dataVars, load>>

cli_set ==
  /\ At(Cli, "set")
  /\ db' = db \cup {[table |-> "device_state", host |-> local[Cli].cn,
                     topic |-> local[Cli].topic, op |-> "SET", conn |-> 0]}
  /\ Goto(Cli, "idle")
  /\ UNCHANGED <<cmVars, psVars, session, netVars, busVars, enrollVars, load>>

----------------------------------------------------------------------------
(* STATUS: client_manager_print_status, then pubsub_print_status. *)

status_clients ==
  \/ /\ At(Cli, "status")
     /\ walk_begin(Cli)
     /\ Goto(Cli, "clients")
     /\ UNCHANGED <<psVars, session, netVars, dataVars, load>>
  \/ /\ At(Cli, "clients")
     /\ \E p \in Client : walk_visit(Cli, p, FALSE)
     /\ UNCHANGED <<psVars, brokerVars>>
  \/ /\ At(Cli, "clients")
     /\ walk_end(Cli)
     /\ Goto(Cli, "topics")
     /\ UNCHANGED <<psVars, session, netVars, dataVars, load>>

\* Fault: iterates without pubsub_lock.
status_lock_Unlocked ==
  /\ At(Cli, "topics")
  /\ cursor' = [cursor EXCEPT ![Cli] = <<1, 1, 1>>]
  /\ topics # <<>>
  /\ UNCHANGED <<topics, pubsub_lock>>
  /\ Goto(Cli, "list")
  /\ UNCHANGED <<cmVars, session, netVars, dataVars, load>>

status_lock ==
  /\ At(Cli, "topics")
  /\ status_begin(Cli)
  /\ Goto(Cli, "list")
  /\ UNCHANGED <<cmVars, session, netVars, dataVars, load>>

\* The subscriber's hostname is read under its lock.
status_visit ==
  /\ At(Cli, "list")
  /\ AtSubscriber(Cli)
  /\ get_visit(Cli, Lookup(Current(Cli)))
  /\ publish_next(Cli)
  /\ UNCHANGED brokerVars

status_turn ==
  /\ At(Cli, "list")
  /\ status_next_topic(Cli)
  /\ UNCHANGED <<cmVars, brokerVars>>

status_unlock ==
  /\ At(Cli, "list")
  /\ publish_end(Cli)
  /\ Goto(Cli, "idle")
  /\ UNCHANGED <<cmVars, session, netVars, dataVars, load>>

\* What the thread does with a command once it has it.
CliWork ==
  \/ cli_find("find_subscribe", "subscribe") \/ cli_find("find_unsubscribe", "unsubscribe")
  \/ cli_subscribe \/ cli_unsubscribe \/ cli_set
  \/ publish_lock(Cli) \/ publish_skip(Cli) \/ publish_wait(Cli) \/ publish_write(Cli)
  \/ publish_unlock(Cli, "idle")
  \/ status_clients \/ status_lock \/ status_visit \/ status_turn \/ status_unlock

CliStep == CliWork \/ \E c \in load.typed : cli_input(c)
=============================================================================
