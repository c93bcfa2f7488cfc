---------------------------- MODULE MCDeployment ----------------------------
(* Small deployments: each load asks for one kind of trouble. *)
EXTENDS Prompt

Key == {"up", "down", "left", "right", "backspace", "enter"}
NoLoad == [tty |-> TRUE, keys |-> {}, chunks |-> {}, strokes |-> 0, modes |-> {}, launches |-> 0,
           sigints |-> 0, agent_sigints |-> 0, kills |-> 0, faults |-> 0, restarts |-> 0, clock |-> FALSE]

Set == <<"SET", " ", "web1", " ", "key", " ", "v">>
Get == <<"GET", " ", "web1", " ", "key">>
Exit == <<"EXIT">>
Run == <<"PUBLISH", " ", "web", " ", "'", "restart", " ", " ", "my", " ", "app", "'">>
Odd == <<"PUBLISH", " ", "web", " ", "restart", " ", "db">>
All == <<"PUBLISH", " ", "BROADCAST", " ", "restart", " ", "my_app">>
Join == <<"SUBSCRIBE", " ", "web1", " ", "agent-status">>
Part == <<"UNSUBSCRIBE", " ", "web1", " ", "web">>

\* Editing: characters that mean something to the tokenizer, and every key.
Editing == [NoLoad EXCEPT !.keys = Key, !.chunks = {<<"a">>, <<"\\">>, <<"b", " ">>}, !.strokes = 5]
\* A line behind which a longer one has left a backslash.
Shrinking == [NoLoad EXCEPT !.keys = {"up", "enter"}, !.chunks = {<<"a">>, <<"b", " ", "\\">>},
                            !.strokes = 6]
Odd_keys == [NoLoad EXCEPT !.keys = {"up", "other", "enter", "eof", "esc_eof"}, !.strokes = 3,
                           !.chunks = {<<"'", "a", "|">>, <<"STATUS">>}, !.sigints = 1]
\* The prompt against a worker with a one-shot agent, kills, failures, restarts.
Storing == [NoLoad EXCEPT !.keys = {"enter"}, !.chunks = {Set, Get}, !.strokes = 2, !.modes = {"set", "get"},
                          !.launches = 1, !.kills = 1, !.faults = 1, !.restarts = 1]
Crashing == [NoLoad EXCEPT !.keys = {"enter"}, !.chunks = {Set}, !.strokes = 4, !.modes = {"set"},
                           !.launches = 1, !.kills = 1, !.restarts = 1]
Stopping == [NoLoad EXCEPT !.keys = {"enter"}, !.chunks = {Set, Exit}, !.strokes = 2, !.modes = {"set"},
                           !.launches = 1, !.sigints = 1, !.restarts = 1, !.agent_sigints = 1]
\* An agent and its group.
Commanding == [NoLoad EXCEPT !.keys = {"enter"}, !.chunks = {Run, Odd, Join}, !.strokes = 4,
                             !.modes = {"daemon"}, !.launches = 1]
Failing == [NoLoad EXCEPT !.keys = {"enter"}, !.chunks = {Run, All, Part}, !.strokes = 2, !.modes = {"daemon"},
                          !.launches = 1, !.faults = 1, !.kills = 1]

\* Signals to both, and the clock.
Waiting == [NoLoad EXCEPT !.tty = FALSE, !.modes = {"daemon"}, !.launches = 1, !.agent_sigints = 1,
                          !.sigints = 1, !.clock = TRUE]

MCLoads == {Editing, Shrinking, Odd_keys, Storing, Crashing, Stopping, Commanding, Failing, Waiting}
MCChunk == UNION {l.chunks : l \in MCLoads}

\* restart.ini
MCFiles ==
  <<"restart">> :>
    << [kind |-> "section", name |-> <<"db">>],
       [kind |-> "skip"],
       [kind |-> "section", name |-> <<"my", "_", "app">>],
       [kind |-> "pair", key |-> "cmd", val |-> <<"\"", "systemctl", " ", "restart", "\"">>],
       [kind |-> "pair", key |-> "target", val |-> <<"old">>],
       [kind |-> "other"],
       [kind |-> "pair", key |-> "target", val |-> <<"app.service">>],
       [kind |-> "section", name |-> <<"cache">>],
       [kind |-> "pair", key |-> "arguments", val |-> <<"flush">>] >>
MCGroup == <<"web">>
MCHost == <<"web1">>
=============================================================================
