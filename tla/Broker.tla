------------------------------- MODULE Broker -------------------------------
(***************************************************************************)
(* One durable RabbitMQ queue and the consumers that BaseConsumer          *)
(* (shared/shared/queue/consumer.py) runs on it, fed by BasePublisher      *)
(* (shared/shared/queue/publisher.py).                                     *)
(*                                                                         *)
(* A message is named by its position in log, the sequence of the bodies   *)
(* ever published; RabbitMQ orders a queue by that position, and a         *)
(* requeued message goes back to it.                                       *)
(*                                                                         *)
(* What a handler does with a delivery belongs to the services: the        *)
(* modules of the services extend this one and call Ack, Requeue or        *)
(* DeadLetter where the code returns, raises a recoverable exception or    *)
(* raises any other exception.                                             *)
(***************************************************************************)
EXTENDS Naturals, Sequences, Functions

CONSTANTS
    Consumers,  \* the processes that consume the queue
    Prefetch    \* basic.qos prefetch_count of each of them

ASSUME BrokerAssumption == Prefetch \in Nat \ {0}

VARIABLES
    log,      \* log[i]: body of the i-th message published
    ready,    \* messages in the queue, not delivered to anybody
    buf,      \* buf[c]: deliveries waiting in c's local iterator
    hand,     \* hand[c]: the delivery c is handling, or None
    session,  \* session[c]: state of c's AMQP connection
    acked,    \* messages settled by an ack
    dead      \* messages routed to the dead-letter exchange

brokerVars == <<log, ready, buf, hand, session, acked, dead>>

None == 0

\* "open"  : the channel that made the deliveries is open;
\* "stale" : it was lost while a handler was running, the handler goes on;
\* "down"  : the consumer task or its process is gone.
Sessions == {"open", "stale", "down"}

Messages == DOMAIN log

\* What RabbitMQ holds as delivered to c and not acknowledged.
Unacked(c) ==
    Range(buf[c]) \cup (IF session[c] = "open" THEN {hand[c]} \ {None} ELSE {})

BrokerInit ==
    /\ log = << >>
    /\ ready = {}
    /\ buf = [c \in Consumers |-> << >>]
    /\ hand = [c \in Consumers |-> None]
    /\ session = [c \in Consumers |-> "open"]
    /\ acked = {}
    /\ dead = {}

-----------------------------------------------------------------------------
(* Publishing and delivery                                                 *)

\* Fault: announced, but not stored.
PublishUnstored(body) ==
    /\ ready' = ready \cup {Len(log) + 1}
    /\ UNCHANGED <<log, buf, hand, session, acked, dead>>

\* BasePublisher.publish: persistent message, stored before the call returns.
Publish(body) ==
    /\ log' = Append(log, body)
    /\ ready' = ready \cup {Len(log) + 1}
    /\ UNCHANGED <<buf, hand, session, acked, dead>>

\* RabbitMQ pushes the oldest ready message to a consumer below its prefetch.
Deliver(c) ==
    /\ session[c] = "open"
    /\ Len(buf[c]) + (IF hand[c] = None THEN 0 ELSE 1) < Prefetch
    /\ \E i \in ready :
          /\ \A j \in ready : i <= j
          /\ ready' = ready \ {i}
          /\ buf' = [buf EXCEPT ![c] = Append(@, i)]
    /\ UNCHANGED <<log, hand, session, acked, dead>>

\* Fault: the iterator gives the newest delivery first.
TakeNewest(c) ==
    /\ session[c] = "open"
    /\ hand[c] = None
    /\ buf[c] # << >>
    /\ hand' = [hand EXCEPT ![c] = buf[c][Len(buf[c])]]
    /\ buf' = [buf EXCEPT ![c] = SubSeq(@, 1, Len(@) - 1)]
    /\ UNCHANGED <<log, ready, session, acked, dead>>

\* `async for message in messages: await self._handle_one(message)`: one
\* delivery at a time, in the order they were received.
Take(c) ==
    /\ session[c] = "open"
    /\ hand[c] = None
    /\ buf[c] # << >>
    /\ hand' = [hand EXCEPT ![c] = Head(buf[c])]
    /\ buf' = [buf EXCEPT ![c] = Tail(@)]
    /\ UNCHANGED <<log, ready, session, acked, dead>>

-----------------------------------------------------------------------------
(* The end of _handle_one.  On a stale session the ack or nack raises out  *)
(* of the consuming loop: nothing is settled and the task is gone.         *)

\* Fault: the exception is swallowed and the loop waits on the closed channel.
AbandonSilently(c) ==
    /\ session[c] = "stale"
    /\ UNCHANGED <<session, ready, acked, dead>>

Abandon(c) ==
    /\ session[c] = "stale"
    /\ session' = [session EXCEPT ![c] = "down"]
    /\ UNCHANGED <<ready, acked, dead>>

Release(c) ==
    /\ hand[c] # None
    /\ hand' = [hand EXCEPT ![c] = None]
    /\ UNCHANGED <<log, buf>>

Ack(c) ==
    /\ Release(c)
    /\ \/ Abandon(c)
       \/ /\ session[c] = "open"
          /\ acked' = acked \cup {hand[c]}
          /\ UNCHANGED <<ready, session, dead>>

\* nack(requeue=True): back to its place in the queue; nothing counts retries.
Requeue(c) ==
    /\ Release(c)
    /\ \/ Abandon(c)
       \/ /\ session[c] = "open"
          /\ ready' = ready \cup {hand[c]}
          /\ UNCHANGED <<session, acked, dead>>

\* nack(requeue=False): to the dead-letter exchange.
DeadLetter(c) ==
    /\ Release(c)
    /\ \/ Abandon(c)
       \/ /\ session[c] = "open"
          /\ dead' = dead \cup {hand[c]}
          /\ UNCHANGED <<ready, session, acked>>

-----------------------------------------------------------------------------
(* Faults                                                                  *)

\* Fault: a handler that settles its old delivery on the new channel.
ConnectionResumed(c) ==
    /\ session[c] = "open"
    /\ Unacked(c) # {}
    /\ ready' = ready \cup Unacked(c)
    /\ buf' = [buf EXCEPT ![c] = << >>]
    /\ UNCHANGED <<log, hand, session, acked, dead>>

\* The connection drops (network, broker restart, consumer_timeout):
\* everything unacknowledged is queued again.  connect_robust reconnects; a
\* handler that was running does not notice.
ConnectionLost(c) ==
    /\ session[c] = "open"
    /\ Unacked(c) # {}
    /\ ready' = ready \cup Unacked(c)
    /\ buf' = [buf EXCEPT ![c] = << >>]
    /\ session' = [session EXCEPT ![c] =
                       IF hand[c] = None THEN "open" ELSE "stale"]
    /\ UNCHANGED <<log, hand, acked, dead>>

\* Fault: deliveries acknowledged when they enter the iterator, not when they
\* were handled.
CrashAutoAcked(c) ==
    /\ session[c] # "down"
    /\ ready' = ready \cup (Unacked(c) \cap {hand[c]})
    /\ buf' = [buf EXCEPT ![c] = << >>]
    /\ hand' = [hand EXCEPT ![c] = None]
    /\ session' = [session EXCEPT ![c] = "down"]
    /\ UNCHANGED <<log, acked, dead>>

\* The process dies, or stop() closes the connection and the task is
\* cancelled: no exception reaches the ack/nack code of _handle_one.
Crash(c) ==
    /\ session[c] # "down"
    /\ ready' = ready \cup Unacked(c)
    /\ buf' = [buf EXCEPT ![c] = << >>]
    /\ hand' = [hand EXCEPT ![c] = None]
    /\ session' = [session EXCEPT ![c] = "down"]
    /\ UNCHANGED <<log, acked, dead>>

Restart(c) ==
    /\ session[c] = "down"
    /\ session' = [session EXCEPT ![c] = "open"]
    /\ UNCHANGED <<log, ready, buf, hand, acked, dead>>

-----------------------------------------------------------------------------
QueueTypeOK ==
    /\ ready \subseteq Messages
    /\ acked \subseteq Messages
    /\ dead \subseteq Messages
    /\ buf \in [Consumers -> Seq(Messages)]
    /\ hand \in [Consumers -> Messages \cup {None}]
    /\ session \in [Consumers -> Sessions]

\* Every published message is in exactly one place: queued, held for one
\* consumer, acknowledged, or dead-lettered - whatever sequence of nacks,
\* crashes and lost connections it went through (consumer.py, "at least once").
ExactlyOneHome ==
    /\ Messages = ready \cup acked \cup dead
                    \cup UNION {Unacked(c) : c \in Consumers}
    /\ acked \cap dead = {}
    /\ ready \cap (acked \cup dead) = {}
    /\ \A c \in Consumers :
          /\ Unacked(c) \cap (ready \cup acked \cup dead) = {}
          /\ hand[c] \notin Range(buf[c])
          /\ IsInjective(buf[c])
          /\ \A d \in Consumers \ {c} : Unacked(c) \cap Unacked(d) = {}

\* Two consumers run the handler of one message at the same time only after
\* one of them lost its connection in the middle of it.
HandledTwiceOnlyAfterLoss ==
    \A c, d \in Consumers :
        /\ c # d
        /\ hand[c] # None
        /\ hand[c] = hand[d]
        => "stale" \in {session[c], session[d]}
=============================================================================
