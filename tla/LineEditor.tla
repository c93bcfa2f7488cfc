----------------------------- MODULE LineEditor -----------------------------
(***************************************************************************)
(* src/cli.c: get_input, add_history and replace_line, one function per    *)
(* key.  An editor is the record                                           *)
(*   buffer, length, cursor_idx   the locals of get_input; the buffer is a *)
(*                                C array, so what a shorter line leaves   *)
(*                                behind stays in it                       *)
(*   history, history_view_idx    of the whole run; history_count is       *)
(*                                Len(history)                             *)
(*   row, col                     what printf has put on the terminal      *)
(*                                behind the prompt, and its cursor        *)
(*   shrunk                       history: in this call a recalled line    *)
(*                                has replaced a longer one                *)
(***************************************************************************)
EXTENDS Integers, Sequences, FiniteSetsExt

CONSTANTS LINE_SIZE,      \* bufsize, 1024
          MAX_HISTORY,    \* 50
          NUL             \* the zero byte

ASSUME LineSizes == LINE_SIZE \in Nat \ {0} /\ MAX_HISTORY \in Nat \ {0}
ASSUME ZeroByte == NUL \notin {" ", "\n", "\\"}

Index == 0 .. LINE_SIZE - 1

\* The string at place `from` of the array.
CString(b, from) ==
  [i \in 1 .. Min({j \in Index : j >= from /\ b[j] = NUL}) - from |-> b[from + i - 1]]
strcpy(b, s) ==
  [i \in Index |-> IF i < Len(s) THEN s[i + 1] ELSE IF i = Len(s) THEN NUL ELSE b[i]]
memmove(b, to, from, n) ==
  [i \in Index |-> IF i \in to .. to + n - 1 THEN b[from + i - to] ELSE b[i]]

\* Prints at the cursor, over what is there.
printf(e, s) ==
  [e EXCEPT !.row = SubSeq(@, 1, e.col) \o s \o SubSeq(@, e.col + Len(s) + 1, Len(@)),
            !.col = @ + Len(s)]
steps_back(e, n) == [e EXCEPT !.col = @ - n]

\* calloc.
new_line(e) ==
  [e EXCEPT !.buffer = [i \in Index |-> NUL], !.length = 0, !.cursor_idx = 0,
            !.row = <<>>, !.col = 0, !.shrunk = FALSE]

\* A process that has not prompted yet.
NoHistory ==
  [buffer |-> [i \in Index |-> NUL], length |-> 0, cursor_idx |-> 0, history |-> <<>>,
   history_view_idx |-> 0, row |-> <<>>, col |-> 0, shrunk |-> FALSE]

replace_line(e, new_text) ==
  [e EXCEPT !.buffer = strcpy(@, new_text), !.length = Len(new_text),
            !.cursor_idx = Len(new_text), !.row = new_text, !.col = Len(new_text),
            !.shrunk = @ \/ Len(new_text) < e.length]

up(e) ==
  IF e.history_view_idx = 0 THEN e
  ELSE replace_line([e EXCEPT !.history_view_idx = @ - 1], e.history[e.history_view_idx])

down(e) ==
  LET next == [e EXCEPT !.history_view_idx = @ + 1]
  IN  IF e.history_view_idx = Len(e.history) THEN e
      ELSE IF next.history_view_idx = Len(e.history) THEN replace_line(next, <<>>)
      ELSE replace_line(next, e.history[next.history_view_idx + 1])

left(e) ==
  IF e.cursor_idx = 0 THEN e ELSE [e EXCEPT !.cursor_idx = @ - 1, !.col = @ - 1]

right(e) ==
  IF e.cursor_idx = e.length THEN e ELSE [e EXCEPT !.cursor_idx = @ + 1, !.col = @ + 1]

\* Fault: the byte behind the shortened line stays.
terminate_Never(b, n) == b

terminate(b, n) == [b EXCEPT ![n] = NUL]

backspace(e) ==
  LET tail == e.length - e.cursor_idx
      b == terminate(memmove(e.buffer, e.cursor_idx - 1, e.cursor_idx, tail), e.length - 1)
      shown == printf(steps_back(e, 1), CString(b, e.cursor_idx - 1) \o <<" ">>)
  IN  IF e.cursor_idx = 0 THEN e
      ELSE [steps_back(shown, tail + 1) EXCEPT !.buffer = b, !.length = @ - 1, !.cursor_idx = @ - 1]

\* Fault: the rest of the line is not moved.
make_room_Never(b, at, n) == b

make_room(b, at, n) == memmove(b, at + 1, at, n)

\* In the middle, what follows the cursor moves and is printed again, up to the next
\* zero byte; at the end the tail is empty and nothing is.
type_char(e, c) ==
  LET tail == e.length - e.cursor_idx
      b == [make_room(e.buffer, e.cursor_idx, tail) EXCEPT ![e.cursor_idx] = c]
      shown == printf(e, <<c>> \o IF tail > 0 THEN CString(b, e.cursor_idx + 1) ELSE <<>>)
  IN  [steps_back(shown, tail) EXCEPT !.buffer = b, !.length = @ + 1, !.cursor_idx = @ + 1]

\* Enter is taken as a character where a backslash stands behind the line.
EnterIsText(e) == e.buffer[e.length] = "\\"

add_history(e, cmd) ==
  LET kept == IF Len(e.history) = MAX_HISTORY THEN Tail(e.history) ELSE e.history
  IN  IF cmd = <<>> THEN e
      ELSE [e EXCEPT !.history = Append(kept, cmd), !.history_view_idx = Len(kept) + 1]

\* The line as Enter returns it, and as the end of input does.
entered(e) == CString(terminate(e.buffer, e.length), 0)
cut_off(e) == CString(e.buffer, 0)

\* No key makes the line longer than its array: get_input itself sets no bound.
Fits(e, n) == e.length + n < LINE_SIZE - 1
=============================================================================
