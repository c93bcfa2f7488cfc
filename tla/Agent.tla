------------------------------- MODULE Agent -------------------------------
(***************************************************************************)
(* src/agent.c: main and agent_ping_thread, talking to a broker (Server).  *)
(* A message written is one TLS record and is read as one.                 *)
(***************************************************************************)
EXTENDS Server, ActionFile

CONSTANTS command_group,  \* the topic of agent.ini
          action_files    \* the files of action_dir, by command

VARIABLES
  agent,          \* [at, mode, keep_running, ack]
  ping,           \* agent_ping_thread: "off", "sleeping" or "awake"
  slept,          \* tens of seconds it has slept
  sent,           \* history: messages of the group put on this connection
  done            \* history: what the agent did with each: [text, argv, report]

agentVars == <<agent, ping, slept, sent, done>>

\* Not running.
Off == [at |-> "off", mode |-> "none", keep_running |-> TRUE, ack |-> "none"]

agentInit == agent = Off /\ ping = "off" /\ slept = 0 /\ sent = <<>> /\ done = <<>>

serverVars == <<procVars, serveVars, dbVars>>

Line(op, topic, text) == [op |-> op, topic |-> topic, text |-> text, value |-> 0]

\* SSL_write to the broker.  On a connection the broker has closed it is lost; SIGPIPE
\* may end the agent (gives_up).
SSL_write(l) == to_broker' = IF conn = "up" THEN Append(to_broker, l) ELSE to_broker

At(from, to) == agent.at = from /\ agent' = [agent EXCEPT !.at = to]

\* main, up to the handler of SIGINT and the configuration
launch ==
  /\ agent = Off /\ Spend("launches")
  /\ \E m \in load.modes : agent' = [Off EXCEPT !.at = "connect", !.mode = m]
  /\ UNCHANGED <<serverVars, netVars, ping, slept, sent, done>>

\* connect and SSL_connect, and the broker's side of both; or exit(1).
connect ==
  /\ agent.at = "connect"
  /\ \/ /\ Serving
        /\ conn' = "up" /\ sess' = sess + 1 /\ armed' = TRUE
        /\ to_broker' = <<>> /\ to_agent' = <<>> /\ subs' = {} /\ idle' = 0 /\ audit' = <<>>
        /\ agent' = [agent EXCEPT !.at = IF agent.mode = "daemon" THEN "subscribe" ELSE "ask"]
        /\ sent' = <<>> /\ done' = <<>>
     \/ ~Serving /\ agent' = Off /\ UNCHANGED <<netVars, sent, done>>
  /\ UNCHANGED <<serverVars, load, ping, slept>>

\* One-shot mode: the request
ask ==
  /\ At("ask", "await")
  /\ SSL_write(Line(IF agent.mode = "set" THEN "SET" ELSE "GET", <<"key">>, <<>>))
  /\ UNCHANGED <<serverVars, conn, sess, armed, to_agent, subs, idle, audit, load, ping, slept, sent, done>>

\* and whatever comes first: an answer, or the end of the connection.
await ==
  /\ agent.at = "await"
  /\ \/ /\ to_agent # <<>>
        /\ agent' = [agent EXCEPT !.at = "bye", !.ack = IF Head(to_agent).topic = <<>> THEN "answer" ELSE "message"]
        /\ to_agent' = Tail(to_agent)
     \/ /\ to_agent = <<>> /\ conn # "up"
        /\ agent' = [agent EXCEPT !.at = "bye"]
        /\ UNCHANGED to_agent
  /\ UNCHANGED <<serverVars, conn, sess, armed, to_broker, subs, idle, audit, load, ping, slept, sent, done>>

\* Both subscriptions; then the ping thread.
subscribe ==
  /\ \/ /\ At("subscribe", "broadcast")
        /\ SSL_write(Line("SUBSCRIBE", command_group, <<>>))
        /\ UNCHANGED <<ping, slept>>
     \/ /\ At("broadcast", "loop")
        /\ SSL_write(Line("SUBSCRIBE", <<"BROADCAST">>, <<>>))
        /\ ping' = "sleeping" /\ slept' = 0
  /\ UNCHANGED <<serverVars, conn, sess, armed, to_agent, subs, idle, audit, load, sent, done>>

\* Fault: while (1).
goes_on_Always == TRUE

goes_on == agent.keep_running

loop ==
  /\ agent.at = "loop"
  /\ agent' = [agent EXCEPT !.at = IF goes_on THEN "read" ELSE "bye"]
  /\ UNCHANGED <<serverVars, netVars, load, ping, slept, sent, done>>

\* snprintf "%s %s %s"
exec_cmd(a) == a.val["cmd"] \o <<" ">> \o a.val["target"] \o <<" ">> \o a.val["arguments"]

\* What is done with a message: the argument vector it starts, and the report it writes.
\* Only the group's messages are commands.
Outcome(m) ==
  LET p == parse_message(m.text)
      a == parse_ini_action(action_files, p.command, p.argument)
      argv == tokenize_command(exec_cmd(a))
  IN  IF m.topic # command_group \/ p.command = <<>> THEN [argv |-> <<>>, report |-> <<>>]
      ELSE IF ~a.found_config THEN [argv |-> <<>>, report |-> <<"ERROR">> \o p.command \o <<" ">> \o p.argument]
      ELSE IF argv = <<>> THEN [argv |-> <<>>, report |-> <<>>]
      ELSE [argv |-> argv, report |-> <<"SUCCESS">> \o p.command]

agent_status == <<"agent-status">>

\* SSL_read and the whole handling of the message: fork, which may fail, and the report.
handle ==
  LET m == Head(to_agent) IN
  /\ agent.at = "read" /\ to_agent # <<>>
  /\ agent' = [agent EXCEPT !.at = "loop"]
  /\ to_agent' = Tail(to_agent)
  /\ \/ /\ done' = IF m.topic = command_group THEN Append(done, Outcome(m)) ELSE done
        /\ IF Outcome(m).report # <<>> THEN SSL_write(Line("PUBLISH", agent_status, Outcome(m).report))
                                       ELSE UNCHANGED to_broker
        /\ UNCHANGED load
     \/ /\ Outcome(m).argv # <<>> /\ Spend("faults")
        /\ done' = Append(done, [argv |-> <<>>, report |-> <<>>])
        /\ UNCHANGED to_broker
  /\ UNCHANGED <<serverVars, conn, sess, armed, subs, idle, audit, ping, slept, sent>>

\* SSL_read <= 0: the broker is gone.
disconnected ==
  /\ At("read", "bye")
  /\ to_agent = <<>> /\ conn # "up"
  /\ UNCHANGED <<serverVars, netVars, load, ping, slept, sent, done>>

\* SSL_shutdown, close, return; the broker's worker drops the client.
Leaves ==
  /\ agent' = Off /\ ping' = "off"
  /\ conn' = "none" /\ subs' = {} /\ to_broker' = <<>> /\ to_agent' = <<>>
  /\ UNCHANGED <<serverVars, sess, armed, idle, audit, load, slept, sent, done>>

bye == agent.at = "bye" /\ Leaves

\* A write to a closed connection raises SIGPIPE, which nothing ignores.
gives_up == /\ agent.at \in {"ask", "subscribe", "broadcast", "loop", "read"} /\ conn \in {"closed", "swept"}
            /\ agent.at \in {"loop", "read"} => ping = "awake"
            /\ Leaves

AgentStep == connect \/ ask \/ await \/ subscribe \/ loop \/ disconnected \/ bye \/ gives_up
=============================================================================
