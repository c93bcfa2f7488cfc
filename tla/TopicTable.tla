----------------------------- MODULE TopicTable -----------------------------
(* The topic table of PubSub as the relation that it represents. *)
EXTENDS PubSub

Relation == {s \in SubscriberFd \X Topic : Subscribed(s[1], s[2])}
Names == {name \in Topic : Slots(topics, name) # {}}

Table == INSTANCE Subscriptions
           WITH subscriptions <- Relation, names <- Names,
                MaxNames <- MAX_TOPICS, MaxSubscribers <- MAX_SUBSCRIBERS_PER_TOPIC

\* The arrays with their first-match loops and shifted entries are a bounded
\* relation between descriptors and topic names: a subscription that fits is
\* recorded, one that does not fit is dropped without a trace, and unsubscribing
\* removes exactly what it names.
ImplementsSubscriptions == Table!SubscriptionSpec
=============================================================================
