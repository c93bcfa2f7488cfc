----------------------------- MODULE Deployment -----------------------------
(***************************************************************************)
(* A broker with its operator, its disk and one agent, through crashes and *)
(* restarts of the one and launches of the other.                          *)
(***************************************************************************)
EXTENDS Agent

CONSTANTS Loads,          \* what a behaviour may contain
          Chunk           \* what may be pasted at the prompt

Keys == {"up", "down", "left", "right", "backspace", "enter", "other", "eof", "esc_eof"}

\* Whether there is a terminal and the clock matters, the keys and pasted texts and how
\* many of them, the modes of the agent; and how many launches, signals, kills, failures
\* and restarts are still to come.
ASSUME Behaviours ==
  Loads \subseteq
    [tty : BOOLEAN, clock : BOOLEAN, keys : SUBSET Keys, chunks : SUBSET Chunk, strokes : Nat,
     modes : SUBSET {"set", "get", "daemon"}, launches : Nat, sigints : Nat,
     agent_sigints : Nat, kills : Nat, faults : Nat, restarts : Nat]

\* Text that can be typed.
ASSUME Pasteable == \A s \in Chunk : s \in Seq({s[i] : i \in DOMAIN s} \ {NUL})

vars == <<procVars, serveVars, netVars, dbVars, agentVars, load>>

Init == procInit /\ netInit /\ dbInit /\ agentInit /\ load \in Loads

----------------------------------------------------------------------------
(* Time, in steps of ten seconds: it passes while both sides are waiting    *)

\* Fault: longer than the broker waits.
PING_INTERVAL_Long == 7

\* sleep(30) of agent_ping_thread.
PING_INTERVAL == 3

\* client_manager_sweep_inactive(60), every ten seconds.
INACTIVE == 6

Quiet ==
  /\ agent.at = "read" /\ ping = "sleeping" /\ conn = "up"
  /\ to_broker = <<>> /\ to_agent = <<>> /\ queue = <<>> /\ work = Idle
  /\ main \in {"loop", "wait"}

tick ==
  /\ Quiet /\ load.clock
  /\ slept' = slept + 1
  /\ ping' = IF slept' >= PING_INTERVAL THEN "awake" ELSE ping
  /\ idle' = idle + 1
  /\ conn' = IF idle' > INACTIVE THEN "swept" ELSE conn
  /\ subs' = IF idle' > INACTIVE THEN {} ELSE subs
  /\ UNCHANGED <<serverVars, sess, armed, to_broker, to_agent, audit, agent, sent, done, load>>

----------------------------------------------------------------------------
(* The rest of agent.c *)

agent_ping_thread ==
  /\ ping = "awake" /\ ping' = "sleeping" /\ slept' = 0
  /\ SSL_write(Line("PING", <<>>, <<>>))
  /\ UNCHANGED <<serverVars, conn, sess, armed, to_agent, subs, idle, audit, agent, sent, done, load>>

\* SIGINT ends the sleep of the ping thread.
wakes == ping = "sleeping" /\ ping' = "awake"

\* SIGINT, to either thread of the agent.  In main it ends a read, unless it comes just
\* before it, and a connect.
agent_sigint ==
  /\ agent # Off /\ Spend("agent_sigints")
  /\ \/ /\ \E at \in IF agent.at \in {"read", "await"} THEN {agent.at, "bye"} ELSE {agent.at} :
             agent' = [agent EXCEPT !.keep_running = FALSE, !.at = at]
        /\ UNCHANGED ping
     \/ agent.at = "connect" /\ agent' = Off /\ UNCHANGED ping
     \/ agent' = [agent EXCEPT !.keep_running = FALSE] /\ wakes
  /\ UNCHANGED <<serverVars, netVars, slept, sent, done>>

----------------------------------------------------------------------------

\* The group's messages a step of the broker writes to the agent.
NewCommands ==
  SelectSeq(SubSeq(to_agent', Len(to_agent) + 1, Len(to_agent')), LAMBDA m : m.topic = command_group)
Follow == sent' = sent \o NewCommands /\ UNCHANGED <<agent, ping, slept, done>>

Threads_step == MainStep \/ CliStep \/ dispatch \/ WorkerStep \/ \E t \in Caller : DbStep(t)
Environment ==
  \/ read_char \/ main_fails \/ handle_sigint \/ killed \/ misuse \/ start_again
  \/ \E t \in Caller : DbFails(t)

Next ==
  \/ (Threads_step \/ Environment) /\ Follow
  \/ AgentStep \/ handle \/ launch \/ agent_ping_thread \/ agent_sigint \/ tick

\* Threads run, the operator's keys, signals and failures come if they like.  A thread
\* that waits for db_lock gets it: the lock is held for one statement, and the prompt
\* makes finitely many calls.  The two middle lines are weak fairness of dispatch and
\* handle, with their guards written out.
Fairness ==
  /\ WF_vars(MainStep /\ Follow) /\ WF_vars(CliStep /\ Follow) /\ WF_vars(WorkerStep /\ Follow)
  /\ \A t \in Caller : WF_vars(DbStep(t) /\ Follow)
  /\ []<>~(cli = "got" /\ ~Ended) \/ []<><<dispatch /\ Follow>>_vars
  /\ []<>~(agent.at = "read" /\ to_agent # <<>>) \/ []<><<handle>>_vars
  /\ WF_vars(AgentStep) /\ WF_vars(agent_ping_thread) /\ WF_vars(tick)

Spec == Init /\ [][Next]_vars /\ Fairness

----------------------------------------------------------------------------
(* The prompt *)

\* The line being edited.
Text == [i \in 1 .. ed.length |-> ed.buffer[i - 1]]

Editor == INSTANCE LineEditing WITH
  text <- Text, cursor <- ed.cursor_idx, past <- ed.history, view <- ed.history_view_idx,
  line <- input, shrunk <- ed.shrunk

\* get_input, add_history and replace_line, with an array whose bytes behind the line
\* are never cleared, implement the editor of LineEditing: what is pasted goes in at the
\* cursor, a backspace takes out one character, the arrows move the cursor or choose
\* among the last MAX_HISTORY lines, and Enter hands over exactly the text.
ImplementsEditor == Editor!edSpec

\* get_input prints its edits with backspaces and overprinting: at every moment of the
\* editing the row on the terminal is the line, but for blanks behind it, and the
\* cursor stands where the next key will act.  Lines with a line break in them, and
\* lines behind which a longer one has left bytes, are not printed like that.
ScreenShowsLine ==
  cli = "reading" /\ ~ed.shrunk /\ (\A i \in DOMAIN Text : Text[i] # "\n") =>
    /\ ed.col = ed.cursor_idx
    /\ Len(ed.row) >= ed.length
    /\ \A i \in 1 .. Len(ed.row) : ed.row[i] = IF i <= ed.length THEN Text[i] ELSE " "

----------------------------------------------------------------------------
(* The process *)

\* The terminal is as the operator's shell left it whenever the broker has ended by
\* itself, by SIGINT (cli_cleanup) or EXIT, wherever the prompt's thread was.  Three
\* windows are exempt, because there the code does not restore it: SIGINT before the
\* first prompt ("early": orig_termios is still zero), a prompt printed after
\* cli_cleanup ("late"), and the end of input inside an escape sequence ("cut").
TerminalRestored ==
  main \in {"returned", "exited"} /\ term.spoilt = {} => term.tty = "cooked"

\* SIGINT ends the broker: handle_sigint only clears keep_running, and the loop, the
\* worker and the prompt go on until main has come round to look at it.
SigintEnds == ~keep_running ~> Ended

----------------------------------------------------------------------------
(* The agent *)

Commands(s) == SelectSeq(s, LAMBDA m : m.topic = command_group)
Reports(s) == SelectSeq(s, LAMBDA o : o.report # <<>>)

\* Every command the broker writes to its agent is handled, and the agent's report of it
\* comes to the broker's db_log_message, in the order of the commands, unless the
\* connection ends first.
ReportsAudited ==
  (Commands(to_agent) # <<>>)
    ~> (\/ conn # "up"
        \/ Len(done) = Len(sent) /\ [i \in DOMAIN audit |-> audit[i]] = [i \in DOMAIN Reports(done) |-> Reports(done)[i].report])

\* SIGINT ends the agent, whichever of its threads it is delivered to and however it
\* falls between the test of keep_running and the read: the next PING brings a PONG, the
\* read returns and the loop looks at keep_running.
AgentStops == ~agent.keep_running ~> agent = Off

\* An agent that is connected is never swept for silence: its ping thread is faster than
\* the heartbeat's limit even when nothing is published for ever.
NeverSwept == conn # "swept"
=============================================================================
