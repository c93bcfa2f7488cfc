---------------------------- MODULE LineEditing ----------------------------
(***************************************************************************)
(* What the operator may expect of the prompt's line editor: a text, a     *)
(* place in it, and the last lines to choose from.  LineEditor does this   *)
(* with a C array and escape sequences.                                    *)
(***************************************************************************)
EXTENDS Integers, Sequences

CONSTANTS Chunk,      \* what may be typed or pasted at once
          MAX_HISTORY

VARIABLES text, cursor,   \* the line being edited; characters left of the cursor
          past, view,     \* earlier lines; how many of them are above the one shown
          line,           \* the line last handed over for execution
          shrunk          \* a recalled line has replaced a longer one

edVars == <<text, cursor, past, view, line, shrunk>>

Put(t, n) == text' = t /\ cursor' = n

Begin == Put(<<>>, 0) /\ shrunk' = FALSE /\ UNCHANGED <<past, view, line>>

Paste(s) == /\ Put(SubSeq(text, 1, cursor) \o s \o SubSeq(text, cursor + 1, Len(text)), cursor + Len(s))
            /\ UNCHANGED <<past, view, line, shrunk>>
Erase == /\ cursor > 0
         /\ Put(SubSeq(text, 1, cursor - 1) \o SubSeq(text, cursor + 1, Len(text)), cursor - 1)
         /\ UNCHANGED <<past, view, line, shrunk>>
Move == /\ cursor' \in {cursor - 1, cursor + 1} \cap 0 .. Len(text)
        /\ UNCHANGED <<text, past, view, line, shrunk>>

\* One line up or down; below the last one is an empty line.
Recall ==
  /\ view' \in {view - 1, view + 1} \cap 0 .. Len(past)
  /\ LET t == IF view' = Len(past) THEN <<>> ELSE past[view' + 1]
     IN  Put(t, Len(t)) /\ shrunk' = (shrunk \/ Len(t) < Len(text))
  /\ UNCHANGED <<past, line>>

\* The last MAX_HISTORY lines that are not empty; then the view is below them.
Remember(l) ==
  IF l = <<>> THEN UNCHANGED <<past, view>>
  ELSE /\ past' = LET all == Append(past, l)
                  IN  SubSeq(all, IF Len(all) > MAX_HISTORY THEN 2 ELSE 1, Len(all))
       /\ view' = Len(past')

Submit == line' = text /\ Remember(text) /\ UNCHANGED <<text, cursor, shrunk>>

\* Enter puts a line break into the text only if a recalled line was shorter than the
\* one it replaced.
Continue == shrunk /\ Paste(<<"\n">>)

\* At the end of input the line is handed over as it is, with what the longer one may
\* have left; it need not be remembered.
Cut == /\ Len(text) <= Len(line') /\ SubSeq(line', 1, Len(text)) = text
       /\ shrunk \/ line' = text
       /\ Remember(line') \/ UNCHANGED <<past, view>>
       /\ UNCHANGED <<text, cursor, shrunk>>

\* A new process remembers nothing.
Restart == /\ Put(<<>>, 0) /\ past' = <<>> /\ view' = 0 /\ line' = <<>> /\ shrunk' = FALSE

edInit == text = <<>> /\ cursor = 0 /\ past = <<>> /\ view = 0 /\ line = <<>> /\ shrunk = FALSE
edNext == \/ Begin \/ Erase \/ Move \/ Recall \/ Submit \/ Continue \/ Cut \/ Restart
          \/ \E s \in Chunk : Paste(s)
edSpec == edInit /\ [][edNext]_edVars
=============================================================================
