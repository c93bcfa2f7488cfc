----------------------------- MODULE ActionFile -----------------------------
(***************************************************************************)
(* src/agent.c: parse_ini_action, and the sscanf that takes a command      *)
(* apart.  A file is a sequence of lines, already trimmed; a line is       *)
(*   [kind |-> "skip"]                 empty or a comment                  *)
(*   [kind |-> "section", name |-> s]  [s]                                 *)
(*   [kind |-> "pair", key |-> k, val |-> s]  k = s, quotes still there    *)
(*   [kind |-> "other"]                any other line                      *)
(***************************************************************************)
EXTENDS Integers, Sequences, FiniteSetsExt

NoAction == [in_target_section |-> FALSE, found_config |-> FALSE, left |-> FALSE,
             val |-> [k \in {"cmd", "target", "arguments"} |-> <<>>]]

\* Surrounding double quotes go (no value here is one quote alone).
unquote(s) ==
  IF Len(s) >= 2 /\ s[1] = "\"" /\ s[Len(s)] = "\"" THEN SubSeq(s, 2, Len(s) - 1) ELSE s

\* Fault: the next section's lines are taken as well.
parse_line_Through(a, l, section) ==
  IF l.kind = "section" THEN [a EXCEPT !.in_target_section = @ \/ l.name = section]
  ELSE IF l.kind = "pair" /\ a.in_target_section
    THEN [a EXCEPT !.found_config = TRUE,
                   !.val = [k \in DOMAIN @ |-> IF k = l.key THEN unquote(l.val) ELSE @[k]]]
  ELSE a

\* One turn of the fgets loop; left is its break.
parse_line(a, l, section) ==
  IF a.left \/ l.kind \in {"skip", "other"} THEN a
  ELSE IF l.kind = "section"
    THEN [a EXCEPT !.in_target_section = @ \/ l.name = section,
                   !.left = a.in_target_section /\ l.name # section]
  ELSE IF a.in_target_section
    THEN [a EXCEPT !.found_config = TRUE,
                   !.val = [k \in DOMAIN @ |-> IF k = l.key THEN unquote(l.val) ELSE @[k]]]
  ELSE a

\* Blanks become underscores.
safe_arg(arg) == [i \in DOMAIN arg |-> IF arg[i] = " " THEN "_" ELSE arg[i]]

\* found_config says whether it succeeds; a missing file is one without lines.
parse_ini_action(files, cmd, arg) ==
  LET lines == IF cmd \in DOMAIN files THEN files[cmd] ELSE <<>>
      after[i \in 0 .. Len(lines)] ==
        IF i = 0 THEN NoAction ELSE parse_line(after[i - 1], lines[i], safe_arg(arg))
  IN  after[Len(lines)]

\* "%63s %127[^\n]" on a payload: blanks, a word, blanks, the rest of the line.
White == {" ", "\n"}
skip_white(s) == SubSeq(s, Min({i \in 1 .. Len(s) : s[i] \notin White} \cup {Len(s) + 1}), Len(s))
word_of(s) == SubSeq(s, 1, Min({i \in 1 .. Len(s) : s[i] \in White} \cup {Len(s) + 1}) - 1)
first_line(s) == SubSeq(s, 1, Min({i \in 1 .. Len(s) : s[i] = "\n"} \cup {Len(s) + 1}) - 1)

\* The message up to its line break, as command and argument.
parse_message(text) ==
  LET s == skip_white(first_line(text))
      w == word_of(s)
  IN  [command |-> w, argument |-> skip_white(SubSeq(s, Len(w) + 1, Len(s)))]
=============================================================================
