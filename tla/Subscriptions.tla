--------------------------- MODULE Subscriptions ---------------------------
(***************************************************************************)
(* What the topic table of pubsub.c means: a relation between descriptors  *)
(* and topic names, bounded in the number of names it has ever seen (a     *)
(* topic is never given back) and in the number of descriptors per name.   *)
(***************************************************************************)
EXTENDS Integers, FiniteSets

CONSTANTS SubscriberFd, Topic, MaxNames, MaxSubscribers

VARIABLES subscriptions,   \* {<<fd, name>>}
          names            \* topics that own a slot of the table

SubscribersOf(name) == {fd \in SubscriberFd : <<fd, name>> \in subscriptions}

SubscriptionInit ==
  /\ subscriptions = {}
  /\ names = {}

HasRoom(name) ==
  /\ name \in names'
  /\ Cardinality(SubscribersOf(name)) < MaxSubscribers

Subscribe(fd, name) ==
  /\ names' = IF Cardinality(names) < MaxNames THEN names \cup {name} ELSE names
  /\ subscriptions' = IF HasRoom(name) THEN subscriptions \cup {<<fd, name>>}
                                       ELSE subscriptions

Unsubscribe(fd, name) ==
  /\ subscriptions' = subscriptions \ {<<fd, name>>}
  /\ UNCHANGED names

UnsubscribeAll(fd) ==
  /\ subscriptions' = subscriptions \ ({fd} \X Topic)
  /\ UNCHANGED names

SubscriptionNext ==
  \E fd \in SubscriberFd :
    \/ UnsubscribeAll(fd)
    \/ \E name \in Topic : Subscribe(fd, name) \/ Unsubscribe(fd, name)

SubscriptionSpec == SubscriptionInit /\ [][SubscriptionNext]_<<subscriptions, names>>
=============================================================================
