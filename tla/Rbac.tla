-------------------------------- MODULE Rbac --------------------------------
(***************************************************************************)
(* src/rbac.c: rbac_init reads rbac.ini line by line into two tables; the  *)
(* rbac_can_* functions resolve a hostname through them.  A line is what   *)
(* its parse gives: a section header, or a key and a list of names.  A key *)
(* is a stem and a trailing star, because match_pattern tells hostnames    *)
(* apart by prefix; hostnames are sequences of parts.                      *)
(***************************************************************************)
EXTENDS Integers, Sequences, FiniteSets, FiniteSetsExt, SequencesExt

CONSTANTS
  Line,           \* what a file may hold:
                  \*   [kind |-> "role", name |-> a role, closed |-> has its ']']
                  \*   [kind |-> "map"]
                  \*   [kind |-> "other"]: blank, comment, or an unknown header
                  \*   [kind |-> "pair", key |-> [stem, star], val |-> list of names]
  Hostname,       \* sequences of parts
  Name,           \* the topics and keys clients name
  STAR,           \* "*" in a list
  NULL,
  MAX_ROLES, MAX_TOPICS, MAX_MAPPINGS,   \* 20, 20, 50
  MaxLines        \* bound: lines of the file

ASSUME Tables ==
  MAX_ROLES \in Nat /\ MAX_TOPICS \in Nat /\ MAX_MAPPINGS \in Nat /\ MaxLines \in Nat

Op == {"SUBSCRIBE", "UNSUBSCRIBE", "PUBLISH", "SET"}

VARIABLES
  roles,          \* sequence of roles, see NewRole
  mappings,       \* sequence of [pattern, role_name]
  parsing_map,
  current_role,   \* index into roles; 0 for NULL
  file            \* history: the lines read

vars == <<roles, mappings, parsing_map, current_role, file>>

Init ==
  /\ roles = <<>> /\ mappings = <<>>
  /\ parsing_map = FALSE
  /\ current_role = 0
  /\ file = <<>>

Read(l) == Len(file) < MaxLines /\ file' = Append(file, l)

\* memset to zero: the cells hold no name.
NewRole(name) ==
  [name |-> name, count |-> [o \in Op |-> 0], wildcard |-> [o \in Op |-> FALSE],
   cells |-> [o \in Op |-> [i \in 1 .. MAX_TOPICS |-> NULL]]]

\* Fault: off by one.
RoomForRole_OneMore == Len(roles) <= MAX_ROLES

RoomForRole == Len(roles) < MAX_ROLES

\* [role:name].  An unclosed header, or a full table, leaves current_role alone.
role_header(l) ==
  /\ l.kind = "role"
  /\ Read(l)
  /\ parsing_map' = FALSE
  /\ IF l.closed /\ RoomForRole
       THEN /\ roles' = Append(roles, NewRole(l.name))
            /\ current_role' = Len(roles) + 1
       ELSE UNCHANGED <<roles, current_role>>
  /\ UNCHANGED mappings

map_header(l) ==
  /\ l.kind = "map"
  /\ Read(l)
  /\ parsing_map' = TRUE
  /\ current_role' = 0
  /\ UNCHANGED <<roles, mappings>>

skipped(l) ==
  /\ l.kind = "other"
  /\ Read(l)
  /\ UNCHANGED <<roles, mappings, parsing_map, current_role>>

\* The names of a list, without the stars.
Names(val) == SelectSeq(val, LAMBDA n : n # STAR)

\* Fault: *wildcard is not reset.
Wildcard_Sticky(old, val) == old \/ Contains(val, STAR)

\* *wildcard after a list: a star the loop reaches.
Wildcard(old, val) ==
  \E k \in 1 .. Len(val) : val[k] = STAR /\ Len(Names(SubSeq(val, 1, k - 1))) < MAX_TOPICS

\* The loop stops once MAX_TOPICS names are stored; cells behind count keep what
\* an earlier list of the same key left in them.
parse_list(r, o, val) ==
  LET names == Names(val)
      n == IF Len(names) < MAX_TOPICS THEN Len(names) ELSE MAX_TOPICS
  IN  [r EXCEPT !.count[o] = n,
                !.cells[o] = [i \in 1 .. MAX_TOPICS |-> IF i <= n THEN names[i] ELSE @[i]],
                !.wildcard[o] = Wildcard(@, val)]

\* The text of a value as the name of a role: a list of several names is none.
RoleNamed(val) == IF Len(val) = 1 THEN val[1] ELSE NULL

OpKey(o) == [stem |-> <<o>>, star |-> FALSE]

key_value(l) ==
  /\ l.kind = "pair"
  /\ Read(l)
  /\ \/ /\ parsing_map /\ Len(mappings) < MAX_MAPPINGS
        /\ mappings' = Append(mappings, [pattern |-> l.key, role_name |-> RoleNamed(l.val)])
        /\ UNCHANGED roles
     \/ /\ ~(parsing_map /\ Len(mappings) < MAX_MAPPINGS)
        /\ roles' = IF current_role # 0 /\ \E o \in Op : l.key = OpKey(o)
                      THEN [roles EXCEPT ![current_role] =
                              parse_list(@, CHOOSE o \in Op : l.key = OpKey(o), l.val)]
                      ELSE roles
        /\ UNCHANGED mappings
  /\ UNCHANGED <<parsing_map, current_role>>

Next == \E l \in Line : role_header(l) \/ map_header(l) \/ skipped(l) \/ key_value(l)

Spec == Init /\ [][Next]_vars

----------------------------------------------------------------------------
(* The queries.  The tables do not change once rbac_init returns, so they  *)
(* are evaluated on the tables as each file leaves them.                   *)

match_pattern(pattern, h) ==
  IF pattern.star THEN IsPrefix(pattern.stem, h)
                  ELSE pattern.stem # <<>> /\ pattern.stem = h

\* Index of the role of a hostname, 0 for none.
get_role(h) ==
  LET m == {i \in 1 .. Len(mappings) : match_pattern(mappings[i].pattern, h)}
      target == IF m = {} THEN "DEFAULT" ELSE mappings[Min(m)].role_name
      r == {i \in 1 .. Len(roles) : roles[i].name = target}
  IN  IF r = {} THEN 0 ELSE Min(r)

\* rbac_can_subscribe, rbac_can_publish and rbac_can_set.
rbac_can(o, h, name) ==
  LET r == roles[get_role(h)]
  IN  get_role(h) # 0 /\ (r.wildcard[o] \/ \E i \in 1 .. r.count[o] : r.cells[o][i] = name)

\* rbac_can_unsubscribe compares with set_keys, and for inequality.
rbac_can_unsubscribe(h, name) ==
  LET r == roles[get_role(h)]
  IN  get_role(h) # 0 /\ (r.wildcard["UNSUBSCRIBE"]
                          \/ \E i \in 1 .. r.count["UNSUBSCRIBE"] : r.cells["SET"][i] # name)

----------------------------------------------------------------------------
(* What a file says, read off its lines. *)

Lines == 1 .. Len(file)

\* The header of the section a line stands in, 0 for none.
Section(i) ==
  LET s == {j \in 1 .. i - 1 : file[j].kind \in {"role", "map"}} IN IF s = {} THEN 0 ELSE Max(s)

RoleHeaders == {j \in Lines : file[j].kind = "role"}
MapLines == {i \in Lines : file[i].kind = "pair" /\ Section(i) # 0 /\ file[Section(i)].kind = "map"}

\* A pattern covers a hostname that it equals or, with a star, begins.
Covers(pattern, h) ==
  \E k \in 0 .. Len(h) : /\ SubSeq(h, 1, k) = pattern.stem
                         /\ pattern.star \/ (k = Len(h) /\ k # 0)

\* The role a hostname is mapped to: the first line of a [map] that matches it.
MappedTo(h) ==
  LET m == {i \in MapLines : Covers(file[i].key, h)}
  IN  IF m = {} THEN "DEFAULT" ELSE RoleNamed(file[Min(m)].val)

\* The first section of that role has a line for o, the last of which lists the
\* name or a star.
Declared(o, h, name) ==
  LET s == {j \in RoleHeaders : file[j].name = MappedTo(h)}
      e == {i \in Lines : s # {} /\ file[i].kind = "pair" /\ file[i].key = OpKey(o)
                          /\ Section(i) = Min(s)}
  IN  e # {} /\ (Contains(file[Max(e)].val, name) \/ Contains(file[Max(e)].val, STAR))

WellFormed == \A j \in RoleHeaders : file[j].closed
WithinTables ==
  /\ Cardinality(RoleHeaders) <= MAX_ROLES
  /\ Cardinality(MapLines) <= MAX_MAPPINGS
  /\ \A i \in Lines : file[i].kind = "pair" => Len(file[i].val) <= MAX_TOPICS

----------------------------------------------------------------------------

\* The tables stay within their arrays (roles[MAX_ROLES], sub_topics[MAX_TOPICS],
\* mappings[MAX_MAPPINGS]) whatever the file, and current_role points into roles.
TypeOK ==
  /\ Len(roles) <= MAX_ROLES
  /\ Len(mappings) <= MAX_MAPPINGS
  /\ \A r \in 1 .. Len(roles) : \A o \in Op : roles[r].count[o] \in 0 .. MAX_TOPICS
  /\ parsing_map \in BOOLEAN
  /\ current_role \in 0 .. Len(roles)

\* A client may subscribe, publish or set exactly what the file grants the role
\* its name is mapped to, whatever the order of sections and lines, as long as
\* headers are closed and the file fits the tables (rbac_init, rbac_can_*).
GrantsFollowFile ==
  WellFormed /\ WithinTables =>
    \A o \in Op \ {"UNSUBSCRIBE"}, h \in Hostname, name \in Name :
      rbac_can(o, h, name) = Declared(o, h, name)

\* rbac.ini lines 12 and 18 list what a role may unsubscribe from, in the same
\* form as the other commands: the same for rbac_can_unsubscribe.
UnsubscribeFollowsFile ==
  WellFormed /\ WithinTables =>
    \A h \in Hostname, name \in Name :
      rbac_can_unsubscribe(h, name) = Declared("UNSUBSCRIBE", h, name)
=============================================================================
