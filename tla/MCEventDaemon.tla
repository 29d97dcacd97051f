--------------------------- MODULE MCEventDaemon ---------------------------
(* Instances of EventDaemon for TLC.                                         *)
EXTENDS EventDaemon, TLC

CONSTANTS w1, w2

\* One queue, as in cim_daemon and event_publisher.
OneQueue == {"main"}
NoFanOut == <<>>
Cap2 == [q \in Queues |-> 2]
Cap1 == [q \in Queues |-> 1]
AllOnMain == [c \in Workers |-> "main"]
AllImplemented == [e \in Events |-> Queues]

\* Two queues, as in exchange_daemon with a deferred handler: the deferred
\* handler alone implements the events.
TwoQueues == {"main", "group"}
GroupFanOut == <<"group">>
W1OnMain == [c \in Workers |-> IF c = w1 THEN "main" ELSE "group"]
OnlyGroup == [e \in Events |-> {"group"}]

Symmetry == Permutations(Workers)
=============================================================================
