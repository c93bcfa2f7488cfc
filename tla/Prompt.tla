------------------------------- MODULE Prompt -------------------------------
(* What the operator gets from the deployed broker: how the words typed at   *)
(* its prompt are taken, and what the agent does with them.                  *)
EXTENDS Deployment, SequencesExt

Escape(s) == FlattenSeq([i \in 1 .. Len(s) |-> <<"\\", s[i]>>])
Special == OperatorChar \cup {"'", "\"", "\\"}

\* tokenize_command takes nothing away from what the operator means to send: any line
\* typed at the prompt is one argument, unchanged, if each character is escaped, or if
\* the line stands between single quotes (and has none in it), so PUBLISH joins it into
\* the payload as it is; and of a line without special characters only blanks are lost.
TokensKeepText ==
  cli = "got" /\ input # <<>> /\ Len(input) < MAX_ARG_LEN - 1 =>
    /\ tokenize_command(Escape(input)) = <<input>>
    /\ ~Contains(input, "'") =>
         Joined(tokenize_command(<<"PUBLISH", " ", "web", " ", "'">> \o input \o <<"'">>), 3) = input
    /\ (\A i \in DOMAIN input : input[i] \notin Special) =>
         FlattenSeq(tokenize_command(input)) = SelectSeq(input, LAMBDA c : c \notin Blank)

----------------------------------------------------------------------------
(* The agent *)

\* What the action file says, without its parser: the section begins at its first
\* header and ends at the next other header; in it the last line for a key counts.
Header(f, i, name) == f[i].kind = "section" /\ f[i].name = name
Section(f, name) ==
  LET from == Min({i \in DOMAIN f : Header(f, i, name)})
      ends == {i \in DOMAIN f : i > from /\ f[i].kind = "section" /\ f[i].name # name}
  IN  IF \A i \in DOMAIN f : ~Header(f, i, name) THEN {}
      ELSE {i \in from .. Min(ends \cup {Len(f) + 1}) - 1 : f[i].kind = "pair"}
Setting(f, pairs, key) ==
  LET own == {i \in pairs : f[i].key = key}
  IN  IF own = {} THEN <<>> ELSE SelectSeq(f[Max(own)].val, LAMBDA c : c # "\"")

\* What a command of the group must lead to: cmd, target and arguments of its section,
\* run once and reported, or a report that there is no such action.
Expected(text) ==
  LET p == parse_message(text)
      f == IF p.command \in DOMAIN action_files THEN action_files[p.command] ELSE <<>>
      pairs == Section(f, safe_arg(p.argument))
      all == Setting(f, pairs, "cmd") \o Setting(f, pairs, "target") \o Setting(f, pairs, "arguments")
  IN  [run |-> SelectSeq(all, LAMBDA c : c # " "),
       report |-> IF p.command = <<>> THEN <<>>
                  ELSE IF pairs = {} THEN <<"ERROR">>
                  ELSE IF all = <<>> THEN <<>> ELSE <<"SUCCESS">>]

\* The agent carries out the commands of its group and no others, each once, in the
\* order the broker wrote them, with the words its action file gives for them, whatever
\* replies, pongs and messages of other topics come between: what is done and what is
\* still on its way is what was sent.  A fork that fails leaves no trace but the gap.
AgentObeys ==
  agent.mode = "daemon" /\ agent.at \notin {"connect", "off"} =>
    /\ sent = SubSeq(sent, 1, Len(done)) \o Commands(to_agent)
    /\ Len(sent) = Len(done) + Len(Commands(to_agent))
    /\ \A i \in DOMAIN done :
         LET e == Expected(sent[i].text) IN
         \/ /\ FlattenSeq(done[i].argv) = e.run
            /\ (done[i].report = <<>>) = (e.report = <<>>)
            /\ done[i].report # <<>> => done[i].report[1] = e.report[1]
         \/ e.run # <<>> /\ done[i] = [argv |-> <<>>, report |-> <<>>]
=============================================================================
