------------------------------- MODULE MCRbac -------------------------------
(* Files of up to MaxLines lines over two roles, two topics, two hostnames   *)
(* that one pattern tells apart, with one table entry less than the longest  *)
(* files need.                                                               *)
EXTENDS Rbac

Pair(stem, star, val) == [kind |-> "pair", key |-> [stem |-> stem, star |-> star], val |-> val]
Role(name, closed) == [kind |-> "role", name |-> name, closed |-> closed]

Headers == {Role("DEFAULT", TRUE), Role("ADMIN", TRUE), [kind |-> "map"]}
Oddities == {Role("ADMIN", FALSE), [kind |-> "other"]}
Mapped == {Pair(<<"desk">>, TRUE, <<"ADMIN">>), Pair(<<>>, TRUE, <<"DEFAULT">>)}
Grants == {Pair(<<"SUBSCRIBE">>, FALSE, <<"t1", STAR>>),
           Pair(<<"SUBSCRIBE">>, FALSE, <<"t2">>),
           Pair(<<"SET">>, FALSE, <<"t1", "t2", STAR>>)}

MCLine == Headers \cup Oddities \cup Mapped \cup Grants
UnsubscribeLine == Headers \cup {Pair(<<"UNSUBSCRIBE">>, FALSE, <<"t1">>)}
MCHostname == {<<"desk", "1">>, <<"lap">>}
MCName == {"t1", "t2"}
=============================================================================
