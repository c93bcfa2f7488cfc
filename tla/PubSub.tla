------------------------------- MODULE PubSub -------------------------------
(***************************************************************************)
(* src/pubsub.c: the topic table and its fixed-size subscriber lists.      *)
(* Subscribing and unsubscribing take no other lock inside pubsub_lock, so *)
(* each is one step, enabled while pubsub_lock is free.  pubsub_publish    *)
(* and pubsub_print_status keep pubsub_lock while they look up one client  *)
(* after the other, so they are a lock step, one step per subscriber and   *)
(* an unlock step; cursor[t] is thread t's position <<i, j, n>> in them:   *)
(* topic i, subscriber j, and the last topic n it will visit.              *)
(***************************************************************************)
EXTENDS Integers, Sequences, BrokerProcess

CONSTANTS MAX_TOPICS, MAX_SUBSCRIBERS_PER_TOPIC, Topic

ASSUME TableSizes == MAX_TOPICS \in Nat /\ MAX_SUBSCRIBERS_PER_TOPIC \in Nat

SubscriberFd == Fd \cup {NULL}     \* NULL: the -1 of a removed client

VARIABLES topics,          \* topics[1 .. topic_count]
          pubsub_lock,     \* its owner
          cursor           \* per thread

psVars == <<topics, pubsub_lock, cursor>>

NoCursor == <<0, 0, 0>>

pubsub_init ==
  /\ topics = <<>>
  /\ pubsub_lock = NULL
  /\ cursor = [t \in Thread |-> NoCursor]

\* The index of the first topic with that name; 0 when there is none.
Slots(ts, name) == {i \in 1 .. Len(ts) : ts[i].name = name}
First(S) == IF S = {} THEN 0 ELSE CHOOSE i \in S : \A k \in S : i <= k

\* Fault: the gap closes one entry too late.
Shift_TooFar(s, j) == [k \in 1 .. Len(s) - 1 |-> IF k <= j THEN s[k] ELSE s[k + 1]]

\* The loop that closes the gap at position j.
Shift(s, j) == [k \in 1 .. Len(s) - 1 |-> IF k < j THEN s[k] ELSE s[k + 1]]

\* Fault: the search starts at the second entry.
Without_FromSecond(s, fd) ==
  LET j == First({k \in 2 .. Len(s) : s[k] = fd})
  IN  IF j = 0 THEN s ELSE Shift(s, j)

\* Removes the first occurrence of fd, if any.
Without(s, fd) ==
  LET j == First({k \in 1 .. Len(s) : s[k] = fd})
  IN  IF j = 0 THEN s ELSE Shift(s, j)

----------------------------------------------------------------------------

\* Fault: the lock is not waited for.
Unlocked_Always == TRUE

Unlocked == pubsub_lock = NULL

\* A new topic takes the next free slot; a full table drops the request.
WithTopic(name) ==
  IF First(Slots(topics, name)) = 0 /\ Len(topics) < MAX_TOPICS
    THEN Append(topics, [name |-> name, subscribers |-> <<>>])
    ELSE topics

\* Fault: no check for an earlier entry.
AddSubscriber_Again(s, fd) ==
  IF Len(s) < MAX_SUBSCRIBERS_PER_TOPIC
    THEN Append(s, fd)
    ELSE s

\* So does a full subscriber list.  The callers are not told.
AddSubscriber(s, fd) ==
  IF Len(s) < MAX_SUBSCRIBERS_PER_TOPIC /\ \A k \in 1 .. Len(s) : s[k] # fd
    THEN Append(s, fd)
    ELSE s

pubsub_subscribe(fd, name) ==
  LET ts == WithTopic(name)
      i  == First(Slots(ts, name))
  IN  /\ Unlocked
      /\ topics' = IF i = 0 THEN ts
                   ELSE [ts EXCEPT ![i].subscribers = AddSubscriber(@, fd)]
      /\ UNCHANGED <<pubsub_lock, cursor>>

pubsub_unsubscribe(fd, name) ==
  LET i == First(Slots(topics, name))
  IN  /\ Unlocked
      /\ topics' = IF i = 0 THEN topics
                   ELSE [topics EXCEPT ![i].subscribers = Without(@, fd)]
      /\ UNCHANGED <<pubsub_lock, cursor>>

pubsub_unsubscribe_all(fd) ==
  /\ Unlocked
  /\ topics' = [i \in 1 .. Len(topics) |->
                  [topics[i] EXCEPT !.subscribers = Without(@, fd)]]
  /\ UNCHANGED <<pubsub_lock, cursor>>

----------------------------------------------------------------------------
(* pubsub_publish(name): the subscribers of one topic.                     *)
(* pubsub_print_status:  the subscribers of every topic.                   *)

publish_begin(t, name) ==
  /\ Unlocked
  /\ pubsub_lock' = t
  /\ LET i == First(Slots(topics, name)) IN cursor' = [cursor EXCEPT ![t] = <<i, 1, i>>]
  /\ UNCHANGED topics

status_begin(t) ==
  /\ Unlocked
  /\ pubsub_lock' = t
  /\ cursor' = [cursor EXCEPT ![t] = IF topics = <<>> THEN <<0, 1, 0>>
                                     ELSE <<1, 1, Len(topics)>>]
  /\ UNCHANGED topics

\* Thread t's loop is at a subscriber, and which one.
AtSubscriber(t) ==
  /\ cursor[t][1] # 0
  /\ cursor[t][2] <= Len(topics[cursor[t][1]].subscribers)
Current(t) == topics[cursor[t][1]].subscribers[cursor[t][2]]

publish_next(t) ==
  /\ AtSubscriber(t)
  /\ cursor' = [cursor EXCEPT ![t][2] = @ + 1]
  /\ UNCHANGED <<topics, pubsub_lock>>

\* Past the last subscriber of a topic: print_status turns to the next topic.
status_next_topic(t) ==
  /\ ~AtSubscriber(t)
  /\ cursor[t][1] < cursor[t][3]
  /\ cursor' = [cursor EXCEPT ![t] = <<@[1] + 1, 1, @[3]>>]
  /\ UNCHANGED <<topics, pubsub_lock>>

publish_end(t) ==
  /\ cursor[t] # NoCursor
  /\ ~AtSubscriber(t)
  /\ cursor[t][1] = cursor[t][3]
  /\ pubsub_lock' = NULL
  /\ cursor' = [cursor EXCEPT ![t] = NoCursor]
  /\ UNCHANGED topics

psNext ==
  \/ \E fd \in SubscriberFd : pubsub_unsubscribe_all(fd)
  \/ \E fd \in SubscriberFd, name \in Topic :
       pubsub_subscribe(fd, name) \/ pubsub_unsubscribe(fd, name)
  \/ \E t \in Thread :
       \/ \E name \in Topic : publish_begin(t, name)
       \/ status_begin(t)
       \/ publish_next(t)
       \/ status_next_topic(t)
       \/ publish_end(t)

psSpec == pubsub_init /\ [][psNext]_psVars

----------------------------------------------------------------------------
(* Properties *)

\* The table and its lists fit their arrays; a topic name has one entry, so the first
\* match that each function stops at is the only one (names are compared after the same
\* truncation to 63 bytes); and a descriptor is at most once in a topic, so one PUBLISH
\* reaches a subscriber once and the unsubscribe functions, which stop at the first
\* match, remove all of it.
TableWellFormed ==
  /\ Len(topics) <= MAX_TOPICS
  /\ \A i, k \in 1 .. Len(topics) : topics[i].name = topics[k].name => i = k
  /\ \A i \in 1 .. Len(topics) :
       LET s == topics[i].subscribers
       IN  /\ Len(s) <= MAX_SUBSCRIBERS_PER_TOPIC
           /\ \A j, k \in 1 .. Len(s) : s[j] = s[k] => j = k

\* While pubsub_publish or pubsub_print_status iterates, it is the only one to do so
\* and the list under its feet does not change: its position stays inside the array
\* or one past its end.
CursorInside ==
  \A t \in Thread : cursor[t] # NoCursor =>
    /\ pubsub_lock = t
    /\ cursor[t][1] # 0 => /\ cursor[t][1] <= cursor[t][3]
                           /\ cursor[t][3] <= Len(topics)
                           /\ cursor[t][2] \in 1 .. Len(topics[cursor[t][1]].subscribers) + 1

\* What the table means: which descriptor is subscribed to which topic.
Subscribed(fd, name) ==
  \E i \in 1 .. Len(topics) :
    /\ topics[i].name = name
    /\ \E k \in 1 .. Len(topics[i].subscribers) : topics[i].subscribers[k] = fd
=============================================================================
