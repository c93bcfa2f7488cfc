----------------------------- MODULE Tokenizer -----------------------------
(***************************************************************************)
(* src/tokenizer.c: a command line into an argument vector.  A character   *)
(* is a string of its own; where only its identity matters a whole keyword *)
(* may stand as one character.                                             *)
(***************************************************************************)
EXTENDS Integers, Sequences

CONSTANT MAX_ARG_LEN      \* MAX_CMD_LEN of tokenizer.h

OperatorChar == {"|", "<", ">", "(", ")", "&"}
Blank == {" ", "\n"}

\* The locals of the loop; skip is its i++ behind a doubled operator, error its
\* return -1.
Scanner == [argv |-> <<>>, arg |-> <<>>, single_quote |-> FALSE, double_quote |-> FALSE,
            escaped |-> FALSE, depth |-> 0, skip |-> FALSE, error |-> FALSE]

keep(s, c) == [s EXCEPT !.arg = Append(@, c)]

\* Closes the current argument, unless it is empty.
add_arg(s) == IF s.arg = <<>> THEN s ELSE [s EXCEPT !.argv = Append(@, s.arg), !.arg = <<>>]

\* An operator outside quotes: part of a $( ) block, or an argument of its own.
scan_operator(s, input, i) ==
  LET c == input[i]
      doubled == c \in {"&", "|", ">"} /\ i < Len(input) /\ input[i + 1] = c
  IN  IF c = "(" /\ s.arg # <<>> /\ s.arg[Len(s.arg)] = "$" THEN [keep(s, c) EXCEPT !.depth = @ + 1]
      ELSE IF c = ")" /\ s.depth > 0 THEN [keep(s, c) EXCEPT !.depth = @ - 1]
      ELSE IF s.depth > 0 THEN keep(s, c)
      ELSE [add_arg(s) EXCEPT !.argv = Append(@, IF doubled THEN <<c, c>> ELSE <<c>>),
                              !.skip = doubled]

scan_char(s, input, i) ==
  LET c == input[i]
      quoted == s.single_quote \/ s.double_quote
  IN  IF s.escaped THEN [keep(s, c) EXCEPT !.escaped = FALSE]
      ELSE IF ~quoted /\ c \in OperatorChar THEN scan_operator(s, input, i)
      ELSE IF c \in Blank THEN IF quoted \/ s.depth > 0 THEN keep(s, c) ELSE add_arg(s)
      ELSE IF c = "'" /\ ~s.double_quote THEN [s EXCEPT !.single_quote = ~@]
      ELSE IF c = "\"" /\ ~s.single_quote THEN [s EXCEPT !.double_quote = ~@]
      ELSE IF c = "\\" /\ ~quoted THEN [s EXCEPT !.escaped = TRUE]
      ELSE keep(s, c)

\* Fault: a backslash is kept, and escapes nothing.
scan_NoEscape(s, input, i) ==
  IF s.error THEN s
  ELSE IF s.skip THEN [s EXCEPT !.skip = FALSE]
  ELSE IF Len(s.arg) >= MAX_ARG_LEN - 1 THEN [s EXCEPT !.error = TRUE]
  ELSE IF input[i] = "\\" THEN keep(s, "\\")
  ELSE scan_char(s, input, i)

scan(s, input, i) ==
  IF s.error THEN s
  ELSE IF s.skip THEN [s EXCEPT !.skip = FALSE]
  ELSE IF Len(s.arg) >= MAX_ARG_LEN - 1 THEN [s EXCEPT !.error = TRUE]
  ELSE scan_char(s, input, i)

\* The arguments; none on error, as no caller looks at argv then.
tokenize_command(input) ==
  LET after[i \in 0 .. Len(input)] == IF i = 0 THEN Scanner ELSE scan(after[i - 1], input, i)
      last == after[Len(input)]
  IN  IF last.error THEN <<>> ELSE add_arg(last).argv
=============================================================================
