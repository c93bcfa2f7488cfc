------------------------------ MODULE Database ------------------------------
(***************************************************************************)
(* src/db.c: one SQLite handle, one mutex, and calls from several threads. *)
(* Of device_state the model follows one row, (hostname, key); a value is  *)
(* the number of the call that wrote it, 0 where there is no row.  Of      *)
(* audit_log it keeps the numbers of the calls that inserted a row.        *)
(*                                                                         *)
(* SQLite (external): a step of a prepared statement is a transaction of   *)
(* its own and is on the disk when it returns; a handle with a statement   *)
(* that is not finalized is not closed; a closed handle is misuse.         *)
(***************************************************************************)
EXTENDS Integers, FiniteSets

CONSTANTS Caller,         \* the threads that call
          NULL

ASSUME NullIsNoCaller == NULL \notin Caller

VARIABLES
  db,             \* the handle: "null", "open" or "closed"
  db_lock,        \* its owner, or NULL
  disk,           \* the file: [tables, value, log]
  call,           \* per thread, see NoCall
  calls,          \* number of calls so far
  legal,          \* history: the values the row may have after the calls so far
  acked,          \* history: the values of SETs that have returned
  logged          \* history: the rows callers were told of

dbVars == <<db, db_lock, disk, call, calls, legal, acked, logged>>

\* at: where in db_* the thread is; sure: nothing has gone wrong that is not reported
\* to the caller; before: SETs that had returned when this call began; may: the values
\* a SELECT of this call may see.
NoCall == [at |-> "none", op |-> "none", n |-> 0, sure |-> FALSE, before |-> {}, may |-> {},
           answer |-> 0]

Blank_disk == [tables |-> FALSE, value |-> 0, log |-> {}]

dbInit ==
  /\ db = "null" /\ db_lock = NULL
  /\ disk = Blank_disk
  /\ call = [t \in Caller |-> NoCall]
  /\ calls = 0
  /\ legal = {0} /\ acked = {0} /\ logged = {}

----------------------------------------------------------------------------
(* db_init and db_close, by main *)

sqlite3_open ==
  /\ db' = "open"
  /\ UNCHANGED <<db_lock, disk, call, calls, legal, acked, logged>>

\* Fault: the tables are made anew.
create_tables_Anew == disk' = [Blank_disk EXCEPT !.tables = TRUE]

\* CREATE TABLE IF NOT EXISTS.
create_tables == disk' = [disk EXCEPT !.tables = TRUE]

db_create ==
  /\ db = "open"
  /\ create_tables
  /\ UNCHANGED <<db, db_lock, call, calls, legal, acked, logged>>

\* Without db_lock; db keeps its value.
db_close ==
  /\ db' = IF db = "open" /\ \A t \in Caller : call[t].at # "prepared" THEN "closed" ELSE db
  /\ UNCHANGED <<db_lock, disk, call, calls, legal, acked, logged>>

----------------------------------------------------------------------------
(* db_set_device_state, db_get_device_state and db_log_message *)

Move(t, c) == call' = [call EXCEPT ![t] = c]

\* A thread is about to make a call.
db_call(t, op) ==
  LET n == calls + 1
      c == [NoCall EXCEPT !.at = "called", !.op = op, !.n = n, !.sure = TRUE,
                          !.before = acked, !.may = legal]
  IN  /\ call[t].at = "none"
      /\ calls' = n
      /\ IF op = "SET"
           THEN /\ legal' = legal \cup {n}
                /\ call' = [u \in Caller |->
                              IF u = t THEN c ELSE [call[u] EXCEPT !.may = @ \cup {n}]]
           ELSE Move(t, c) /\ UNCHANGED legal
      /\ UNCHANGED <<db, db_lock, disk, acked, logged>>

\* if (!db) return; pthread_mutex_lock
db_enter(t) ==
  /\ call[t].at = "called"
  /\ IF db = "null"
       THEN /\ Move(t, [call[t] EXCEPT !.at = "returned", !.sure = FALSE])
            /\ UNCHANGED db_lock
       ELSE /\ db_lock = NULL
            /\ db_lock' = t
            /\ Move(t, [call[t] EXCEPT !.at = "locked"])
  /\ UNCHANGED <<db, disk, calls, legal, acked, logged>>

\* Printed at most; the caller is told nothing.
Fails(t) ==
  /\ Move(t, [call[t] EXCEPT !.at = "returned", !.sure = FALSE])
  /\ db_lock' = NULL
  /\ UNCHANGED <<db, disk, calls, legal, acked, logged>>

sqlite3_prepare(t) ==
  /\ call[t].at = "locked"
  /\ IF db = "open" /\ disk.tables
       THEN /\ Move(t, [call[t] EXCEPT !.at = "prepared"])
            /\ UNCHANGED <<db, db_lock, disk, calls, legal, acked, logged>>
       ELSE Fails(t)

\* sqlite3_step (INSERT OR REPLACE, INSERT, SELECT), sqlite3_finalize, pthread_mutex_unlock
sqlite3_step(t) ==
  LET c == call[t] IN
  /\ c.at = "prepared"
  /\ disk' = CASE c.op = "SET" -> [disk EXCEPT !.value = c.n]
               [] c.op = "LOG" -> [disk EXCEPT !.log = @ \cup {c.n}]
               [] c.op = "GET" -> disk
  /\ Move(t, [c EXCEPT !.at = "returned", !.answer = disk.value])
  /\ db_lock' = NULL
  /\ UNCHANGED <<db, calls, legal, acked, logged>>

\* Disk full, database busy: the statement fails.
sqlite3_error(t) ==
  /\ call[t].at \in {"locked", "prepared"}
  /\ Fails(t)

\* The caller goes on: SUCCESS, VALUE, or just the next line.  No earlier SET may show
\* up any more once a SET has returned.
db_return(t) ==
  LET c == call[t] IN
  /\ c.at = "returned"
  /\ acked' = IF c.op = "SET" THEN acked \cup {c.n} ELSE acked
  /\ legal' = IF c.op = "SET" /\ c.sure THEN legal \ c.before ELSE legal
  /\ logged' = IF c.op = "LOG" /\ c.sure THEN logged \cup {c.n} ELSE logged
  /\ Move(t, NoCall)
  /\ UNCHANGED <<db, db_lock, disk, calls>>

\* The process ends, in whatever way: the disk stays, and no call that was under way
\* can take effect any more.
db_gone ==
  /\ db' = "null" /\ db_lock' = NULL
  /\ call' = [t \in Caller |-> NoCall]
  /\ acked' = acked \cup legal
  /\ UNCHANGED <<disk, calls, legal, logged>>

db_step(t) == db_enter(t) \/ sqlite3_prepare(t) \/ sqlite3_step(t)

\* Any threads, calling anything.
dbNext ==
  \/ sqlite3_open \/ db_create \/ db_close \/ db_gone
  \/ \E t \in Caller :
       \/ \E op \in {"SET", "GET", "LOG"} : db_call(t, op)
       \/ db_step(t) \/ sqlite3_error(t) \/ db_return(t)

dbSpec == dbInit /\ [][dbNext]_dbVars

----------------------------------------------------------------------------

\* device_state is an atomic register that outlives the process, and audit_log loses
\* nothing: whatever calls overlap, fail, meet a closed handle or are cut off by the
\* end of the process, and however often it starts again, the row holds the value of a
\* SET that no later one had replaced, a GET answers with a value the row had while it
\* ran, and every row a caller was told of is in the log.  A call that found no
\* database or was refused by SQLite is exempt; its caller is not told.
Durable ==
  /\ disk.value \in legal
  /\ logged \subseteq disk.log
  /\ \A t \in Caller :
       call[t].at = "returned" /\ call[t].op = "GET" /\ call[t].sure => call[t].answer \in call[t].may
=============================================================================
