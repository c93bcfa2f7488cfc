------------------------------ MODULE MCBroker ------------------------------
(* Small instances of Broker for TLC. *)
EXTENDS Broker, TLC

Symmetry == Permutations(Worker) \cup Permutations(Fd) \cup Permutations(Client)

\* Building blocks of the scripts.
Hello == [kind |-> "hello", lines |-> <<>>]
Finish == [kind |-> "finish", lines |-> <<>>]
Data(cmds) == [kind |-> "data", lines |-> cmds]
Cmd(op, topic) == [op |-> op, topic |-> topic]
Typed(op, host, topic) == [op |-> op, host |-> host, topic |-> topic]

\* Every host may do everything with "a" and subscribe to "b".
GrantMost == (Host \X {"SET", "SUBSCRIBE", "UNSUBSCRIBE", "PUBLISH"} \X {"a"})
               \cup (Host \X {"SUBSCRIBE"} \X {"b"})

\* n connections to the vault, from the right address, whose peers send one of `scripts`; up to c
\* commands of `typed`; up to k sweeps.
Load(n, scripts, c, typed, k) ==
  [connections |-> n, scripts |-> scripts, commands |-> c, typed |-> typed, sweeps |-> k, heartbeat |-> k # 0,
   ports |-> {"vault"}, addrs |-> {"home"}]
AnyPort(l) == [l EXCEPT !.ports = {"vault", "lobby"}]
AnyAddress(l) == [l EXCEPT !.addrs = {"home", "away"}]
Lobby(l) == [l EXCEPT !.ports = {"lobby"}]

HomeOnly == [h \in Hostname |-> {"home"}]

Silent == <<Finish>>
Setting == <<Finish, Data(<<Cmd("SET", "a")>>)>>
Early == <<Data(<<Cmd("SUBSCRIBE", "a"), Cmd("PUBLISH", "a")>>)>>
Session == <<Hello, Finish, Data(<<Cmd("SET", "a")>>)>>
Subscriber == <<Finish, Data(<<Cmd("SUBSCRIBE", "a")>>)>>
TwoTopics == <<Finish, Data(<<Cmd("SUBSCRIBE", "a"), Cmd("SUBSCRIBE", "b")>>)>>
Member == <<Finish, Data(<<Cmd("SUBSCRIBE", "a"), Cmd("PUBLISH", "a")>>)>>
Everything == <<Finish, Data(<<Cmd("SUBSCRIBE", "a"), Cmd("PING", "a")>>),
                Data(<<Cmd("GET", "a"), Cmd("SET", "b"), Cmd("PUBLISH", "a"),
                       Cmd("UNSUBSCRIBE", "a")>>)>>

Publish == Typed("publish", NULL, "a")
Status == Typed("status", NULL, NULL)
AnyTyped ==
  {Publish, Status} \cup {Typed("find_subscribe", h, "b") : h \in Hostname}
    \cup {Typed(op, h, "a") : op \in {"find_subscribe", "find_unsubscribe", "set"}, h \in Hostname}

\* Two clients subscribe and publish; a subscriber leaves, another peer takes its
\* descriptor and the operator publishes; peers from either address, also with commands
\* before the handshake; enrolments, on descriptors that are reused and from either
\* address; both ports share the descriptors; the sweep races workers on reused
\* descriptors; it races the prompt, with a client that uses every command; the operator
\* looks at two topics.
BrokerLoads ==
  {Load(2, {Member}, 0, {}, 0), Load(2, {Subscriber}, 1, {Publish}, 0),
   AnyAddress(Load(1, {Setting, Early}, 0, {}, 0)), Lobby(Load(3, {}, 0, {}, 0)),
   Lobby(AnyAddress(Load(2, {}, 0, {}, 0))), AnyPort(Load(2, {Silent}, 0, {}, 0)),
   Load(2, {Silent}, 0, {}, 1), Load(1, {Everything}, 1, AnyTyped, 1),
   Load(1, {TwoTopics}, 1, {Status}, 0)}

\* The heartbeat never stops; there is none, and the operator looks and publishes.
LiveLoads == {Load(2, {Silent}, 0, {}, -1), Load(2, {Session}, 1, {Publish, Status}, 0)}

\* PUBLISH of one client against SUBSCRIBE of another.
DeadlockLoads ==
  {Load(2, {<<Finish, Data(<<Cmd("SUBSCRIBE", "a"), Cmd("SUBSCRIBE", "a")>>)>>,
            <<Finish, Data(<<Cmd("PUBLISH", "a")>>)>>}, 0, {}, 0)}

\* A sweep against SUBSCRIBE; a sweep between the halves of client_set_hostname.
GhostLoads == {Load(2, {Subscriber, Silent}, 1, {Publish}, 1)}
FreeLoads == {Load(2, {Silent}, 0, {}, 1)}
=============================================================================
