------------------------------- MODULE Server -------------------------------
(***************************************************************************)
(* The broker process from start to end, as the operator and one agent see *)
(* it: main of src/main.c, admin_cli_thread and get_input of src/cli.c     *)
(* with the terminal, one worker of src/worker.c, and src/db.c under them. *)
(* The registry, the topic table and their races are in Broker; here there *)
(* is one connection, so the subscriber list is a set of topics.           *)
(***************************************************************************)
EXTENDS Database, LineEditor, Tokenizer

CONSTANTS Cli, Worker,    \* the threads that call the database
          HOST            \* the connected agent's hostname

ASSUME Threads == Caller = {Cli, Worker} /\ Cli # Worker

VARIABLES
  main,           \* where main is, or how the process ended
  keep_running,
  cli,            \* where admin_cli_thread is
  ed, input,      \* the line editor (LineEditor); the line it returned
  term,           \* the terminal: see Cooked
  work,           \* the worker: [at, line, sess]
  queue,          \* task_queue: connections with an event
  conn,           \* the agent's connection: "none", "up", "closed" or "swept"
  sess,           \* its number
  armed,          \* its one-shot epoll registration
  to_broker, to_agent,
  subs,           \* topics it is subscribed to
  idle,           \* tens of seconds since the worker read from it
  audit,          \* history: its PUBLISHes that db_log_message was given, in order
  load            \* what this behaviour may still contain

procVars == <<main, keep_running, cli, ed, input, term>>
serveVars == <<work, queue>>
netVars == <<conn, sess, armed, to_broker, to_agent, subs, idle, audit>>

\* tty: its mode; orig: orig_termios, all zero until enableRawMode has run; spoilt:
\* history, why the mode may not be restored.
Cooked == [tty |-> "cooked", orig |-> "zero", spoilt |-> {}]
Idle == [at |-> "idle", line |-> NULL, sess |-> 0]

procInit ==
  /\ main = "boot" /\ keep_running = TRUE
  /\ cli = "none" /\ ed = NoHistory /\ input = <<>>
  /\ term = Cooked
  /\ work = Idle /\ queue = <<>>

netInit ==
  /\ conn = "none" /\ sess = 0 /\ armed = FALSE
  /\ to_broker = <<>> /\ to_agent = <<>>
  /\ subs = {} /\ idle = 0 /\ audit = <<>>

Ended == main \in {"returned", "exited", "failed", "killed"}
Serving == main \in {"loop", "wait", "write"}

\* The process is gone: its threads, its memory and its end of the connection.
Dies(how) ==
  /\ ~Ended
  /\ main' = how
  /\ db_gone
  /\ work' = Idle /\ queue' = <<>>
  /\ conn' = IF conn = "up" THEN "closed" ELSE conn
  /\ to_broker' = <<>> /\ subs' = {}
  /\ UNCHANGED <<keep_running, cli, ed, input, term, sess, armed, to_agent, idle, audit>>

Spend(what) == load[what] > 0 /\ load' = [load EXCEPT ![what] = @ - 1]

----------------------------------------------------------------------------
(* main.c *)

Main(from, to) == main = from /\ main' = to

\* config_load; signal(SIGINT, handle_sigint)
main_boot ==
  /\ Main("boot", "cli")
  /\ UNCHANGED <<keep_running, cli, ed, input, term, serveVars, netVars, dbVars, load>>

\* cli_init, if there is a terminal: before everything the thread will use.
cli_init ==
  /\ Main("cli", "open")
  /\ cli' = IF load.tty THEN "asleep" ELSE "none"
  /\ UNCHANGED <<keep_running, ed, input, term, serveVars, netVars, dbVars, load>>

\* tls_init; sqlite3_open of db_init
main_open ==
  /\ Main("open", "create")
  /\ sqlite3_open
  /\ UNCHANGED <<keep_running, cli, ed, input, term, serveVars, netVars, load>>

main_create ==
  /\ Main("create", "start")
  /\ db_create
  /\ UNCHANGED <<keep_running, cli, ed, input, term, serveVars, netVars, load>>

\* rbac_init to heartbeat_init, the thread pool, the listening sockets, epoll
main_start ==
  /\ Main("start", "loop")
  /\ UNCHANGED <<keep_running, cli, ed, input, term, serveVars, netVars, dbVars, load>>

\* The exit(1) of tls_init, db_init and create_listening_socket.
main_fails ==
  /\ main \in {"open", "create", "start"}
  /\ Spend("faults")
  /\ Dies("failed")

\* Fault: tests a copy made before the handler ran.
loop_test_Stale == TRUE

loop_test == keep_running

main_loop ==
  /\ main = "loop"
  /\ main' = IF loop_test THEN "wait" ELSE "close"
  /\ UNCHANGED <<keep_running, cli, ed, input, term, serveVars, netVars, dbVars, load>>

Ready == armed /\ conn = "up" /\ to_broker # <<>>

\* epoll_wait: an event, which disarms the connection; EINTR; or a timeout.
main_wait ==
  /\ \/ Main("wait", "write") /\ Ready /\ armed' = FALSE
     \/ Main("wait", "loop") /\ (Ready => ~keep_running) /\ UNCHANGED armed
  /\ UNCHANGED <<keep_running, cli, ed, input, term, serveVars, conn, sess, to_broker, to_agent,
                 subs, idle, audit, dbVars, load>>

queue_write ==
  /\ Main("write", "loop")
  /\ queue' = Append(queue, sess)
  /\ UNCHANGED <<keep_running, cli, ed, input, term, work, netVars, dbVars, load>>

main_close ==
  /\ Main("close", "cleanup")
  /\ db_close
  /\ UNCHANGED <<keep_running, cli, ed, input, term, serveVars, netVars, load>>

\* Fault: forgotten.
cli_cleanup_Never == UNCHANGED term

\* disableRawMode, with whatever orig_termios holds; without a terminal it fails.
cli_cleanup ==
  term' = IF ~load.tty THEN term
          ELSE [term EXCEPT !.tty = term.orig,
                            !.spoilt = IF term.orig = "zero" THEN @ \cup {"early"} ELSE @]

main_cleanup ==
  /\ Main("cleanup", "return")
  /\ cli_cleanup
  /\ UNCHANGED <<keep_running, cli, ed, input, serveVars, netVars, dbVars, load>>

main_return == main = "return" /\ Dies("returned") /\ UNCHANGED load

MainStep ==
  \/ main_boot \/ cli_init \/ main_open \/ main_create \/ main_start \/ main_loop \/ main_wait
  \/ queue_write \/ main_close \/ main_cleanup \/ main_return

\* SIGINT: before the handler is there it ends the process.
handle_sigint ==
  /\ Spend("sigints")
  /\ \/ main = "boot" /\ Dies("killed")
     \/ /\ main # "boot" /\ ~Ended
        /\ keep_running' = FALSE
        /\ UNCHANGED <<main, cli, ed, input, term, serveVars, netVars, dbVars>>

\* SIGKILL, or a power failure.
killed == Spend("kills") /\ Dies("killed")

\* A handle used after sqlite3_close: an error, as in sqlite3_prepare, or a crash.
misuse == /\ db = "closed" /\ \E t \in Caller : call[t].at = "locked"
          /\ Dies("killed") /\ UNCHANGED load

\* The broker is started again; the shell has put its terminal in order.
start_again ==
  /\ Ended
  /\ Spend("restarts")
  /\ main' = "boot" /\ keep_running' = TRUE
  /\ cli' = "none" /\ ed' = NoHistory /\ input' = <<>>
  /\ term' = Cooked
  /\ UNCHANGED <<serveVars, netVars, dbVars>>

----------------------------------------------------------------------------
(* cli.c: admin_cli_thread *)

cli_wake ==
  /\ cli = "asleep" /\ cli' = "prompt"
  /\ UNCHANGED <<main, keep_running, ed, input, term, serveVars, netVars, dbVars, load>>

\* enableRawMode saves the mode it finds.
get_input ==
  /\ cli = "prompt" /\ cli' = "reading"
  /\ ed' = new_line(ed)
  /\ term' = [tty |-> "raw", orig |-> term.tty,
              spoilt |-> IF main = "return" THEN term.spoilt \cup {"late"} ELSE term.spoilt]
  /\ UNCHANGED <<main, keep_running, input, serveVars, netVars, dbVars, load>>

\* A key that edits the line; text is typed or pasted, "other" an unknown escape sequence.
Edited(k) ==
  CASE k = "up" -> up(ed)
    [] k = "down" -> down(ed)
    [] k = "left" -> left(ed)
    [] k = "right" -> right(ed)
    [] k = "backspace" -> backspace(ed)
    [] k = "enter" -> type_char(ed, "\n")
    [] k = "other" -> ed

Typed(s) ==
  LET after[i \in 0 .. Len(s)] == IF i = 0 THEN ed ELSE type_char(after[i - 1], s[i])
  IN  after[Len(s)]

edit(e) ==
  /\ ed' = e
  /\ UNCHANGED <<cli, input, term>>

\* disableRawMode; add_history
returns(l) ==
  /\ cli' = "got" /\ input' = l
  /\ ed' = add_history(ed, l)
  /\ term' = [term EXCEPT !.tty = term.orig]

\* The end of input behind an escape: get_input returns at once.
returns_early ==
  /\ cli' = "got" /\ input' = cut_off(ed)
  /\ term' = [term EXCEPT !.spoilt = @ \cup {"cut"}]
  /\ UNCHANGED ed

\* One read_char of get_input, with the rest of an escape sequence.  Pasted text is one
\* step: only this thread sees the buffer.  Behind the end of input there is nothing.
read_char ==
  /\ cli = "reading" /\ ~Ended /\ load.strokes > 0
  /\ \/ /\ \/ \E s \in load.chunks : Fits(ed, Len(s)) /\ edit(Typed(s))
           \/ \E k \in load.keys \ {"eof", "esc_eof", "enter"} : edit(Edited(k))
           \/ "enter" \in load.keys /\ EnterIsText(ed) /\ Fits(ed, 1) /\ edit(Edited("enter"))
           \/ "enter" \in load.keys /\ ~EnterIsText(ed) /\ returns(entered(ed))
        /\ load' = [load EXCEPT !.strokes = @ - 1]
     \/ /\ \/ "eof" \in load.keys /\ returns(cut_off(ed))
           \/ "esc_eof" \in load.keys /\ returns_early
        /\ load' = [load EXCEPT !.strokes = @ - 1, !.chunks = {}, !.keys = {"eof"}]
  /\ UNCHANGED <<main, keep_running, serveVars, netVars, dbVars>>

\* strcat of the arguments from the n-th on, with a blank between two.
Joined(argv, n) ==
  LET upto[i \in n - 1 .. Len(argv)] ==
        IF i < n THEN <<>> ELSE upto[i - 1] \o (IF i > n THEN <<" ">> ELSE <<>>) \o argv[i]
  IN  upto[Len(argv)]

\* pubsub_publish, to the one client there is: "[topic] payload".
Published(topic, payload) ==
  IF conn = "up" /\ topic \in subs THEN <<[topic |-> topic, text |-> payload, value |-> 0]>> ELSE <<>>

Usage == <<"usage">>

\* What a line asks for: its first word, if the number of arguments is right.
command(argv) ==
  LET n == Len(argv)
      word == argv[1]
  IN  IF n = 0 THEN <<"none">>
      ELSE IF \/ word \in {<<"STATUS">>, <<"EXIT">>}
              \/ word = <<"PUBLISH">> /\ n >= 3
              \/ word = <<"SET">> /\ n >= 4
              \/ word \in {<<"GET">>, <<"SUBSCRIBE">>, <<"UNSUBSCRIBE">>} /\ n = 3
      THEN word
      ELSE Usage

\* client_get_and_lock_by_hostname finds the agent.
Known(host) == conn = "up" /\ host = HOST

\* One turn of the loop behind get_input.  STATUS and the usage text only print.
dispatch ==
  LET argv == tokenize_command(input)
      c == command(argv)
  IN  /\ cli = "got" /\ ~Ended
      /\ \/ /\ c \in {<<"none">>, Usage, <<"STATUS">>, <<"PUBLISH">>, <<"SUBSCRIBE">>, <<"UNSUBSCRIBE">>}
            /\ cli' = "prompt"
            /\ to_agent' = to_agent \o IF c = <<"PUBLISH">> THEN Published(argv[2], Joined(argv, 3)) ELSE <<>>
            /\ subs' = IF c = <<"SUBSCRIBE">> /\ Known(argv[2]) THEN subs \cup {argv[3]}
                       ELSE IF c = <<"UNSUBSCRIBE">> /\ Known(argv[2]) THEN subs \ {argv[3]}
                       ELSE subs
            /\ UNCHANGED <<main, keep_running, ed, input, term, serveVars, conn, sess, armed, to_broker,
                           idle, audit, dbVars>>
         \/ /\ c \in {<<"SET">>, <<"GET">>}
            /\ cli' = "call"
            /\ db_call(Cli, c[1])
            /\ UNCHANGED <<main, keep_running, ed, input, term, serveVars, netVars>>
         \/ c = <<"EXIT">> /\ Dies("exited")
      /\ UNCHANGED load

\* Back from db_set_device_state or db_get_device_state: the answer is printed.
cli_called ==
  /\ cli = "call" /\ cli' = "prompt"
  /\ db_return(Cli)
  /\ UNCHANGED <<main, keep_running, ed, input, term, serveVars, netVars, load>>

CliStep == ~Ended /\ (cli_wake \/ get_input \/ cli_called)

----------------------------------------------------------------------------
(* worker.c, for the one connection; its roles grant all it asks for *)

Reply(value) == [topic |-> <<>>, text |-> <<"reply">>, value |-> value]

\* queue_read, SSL_read and the dispatch up to the first database call.  A task for a
\* connection that is gone is dropped.
worker_read ==
  LET l == Head(to_broker) IN
  /\ work = Idle /\ queue # <<>>
  /\ queue' = Tail(queue)
  /\ \/ /\ Head(queue) # sess \/ conn # "up"
        /\ UNCHANGED <<work, netVars, dbVars>>
     \/ /\ Head(queue) = sess /\ conn = "up" /\ to_broker # <<>>
        /\ to_broker' = Tail(to_broker) /\ idle' = 0
        /\ \/ /\ l.op = "PING"
              /\ to_agent' = Append(to_agent, Reply(0))
              /\ armed' = TRUE
              /\ UNCHANGED <<work, dbVars>>
           \/ /\ l.op # "PING"
              /\ db_call(Worker, IF l.op \in {"SET", "GET"} THEN l.op ELSE "LOG")
              /\ work' = [at |-> "call", line |-> l, sess |-> sess]
              /\ UNCHANGED <<to_agent, armed>>
        /\ UNCHANGED <<conn, sess, subs, audit>>
  /\ UNCHANGED <<procVars, load>>

\* GET is answered only after its row is in the log.
worker_log ==
  /\ work.at = "log"
  /\ db_call(Worker, "LOG")
  /\ work' = [work EXCEPT !.at = "logging"]
  /\ UNCHANGED <<procVars, queue, netVars, load>>

\* Fault: the worker's event is not armed again.
rearm_Never(alive) == UNCHANGED armed

\* EPOLL_CTL_MOD
rearm(alive) == armed' = (armed \/ alive)

\* db_* has returned: GET goes on to the log, everything else to its effect, the answer
\* and the re-arming.
worker_called ==
  LET l == work.line
      alive == conn = "up" /\ sess = work.sess
  IN  /\ work.at \in {"call", "logging"}
      /\ db_return(Worker)
      /\ IF l.op = "GET" /\ work.at = "call"
           THEN /\ work' = [work EXCEPT !.at = "log", !.line.value = call[Worker].answer]
                /\ UNCHANGED netVars
           ELSE /\ work' = Idle
                /\ subs' = IF alive /\ l.op = "SUBSCRIBE" THEN subs \cup {l.topic} ELSE subs
                /\ to_agent' = IF alive
                                 THEN to_agent \o (IF l.op = "PUBLISH" THEN Published(l.topic, l.text) ELSE <<>>)
                                               \o <<Reply(l.value)>>
                                 ELSE to_agent
                /\ rearm(alive)
                /\ audit' = IF alive /\ l.op = "PUBLISH" THEN Append(audit, l.text) ELSE audit
                /\ UNCHANGED <<conn, sess, to_broker, idle>>
      /\ UNCHANGED <<procVars, queue, load>>

WorkerStep == worker_read \/ worker_log \/ worker_called

\* A step of a database call; SQLite may fail.
DbStep(t) == db_step(t) /\ UNCHANGED <<procVars, serveVars, netVars, load>>
DbFails(t) == sqlite3_error(t) /\ Spend("faults") /\ UNCHANGED <<procVars, serveVars, netVars>>
=============================================================================
