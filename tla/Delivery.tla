------------------------------ MODULE Delivery ------------------------------
(***************************************************************************)
(* The queue of module Broker on its own: any producer, and handlers that  *)
(* end in every way _handle_one knows.  Here live the delivery guarantees  *)
(* the services build on: nothing published is lost or settled twice, and  *)
(* when two consumers can have the same message in hand.                   *)
(***************************************************************************)
EXTENDS Broker

CONSTANTS
    Bodies,       \* the message bodies that may be published
    MaxMessages   \* bound: how many messages are ever published

ASSUME DeliveryAssumption == MaxMessages \in Nat

PublishSome ==
    /\ Len(log) < MaxMessages
    /\ \E body \in Bodies : Publish(body)

DeliveryNext ==
    \/ PublishSome
    \/ \E c \in Consumers :
          \/ Deliver(c)
          \/ Take(c)
          \/ Ack(c)
          \/ Requeue(c)
          \/ DeadLetter(c)
          \/ ConnectionLost(c)
          \/ Crash(c)
          \/ Restart(c)

DeliverySpec == BrokerInit /\ [][DeliveryNext]_brokerVars

\* RabbitMQ delivers, the iterator hands on what it received, a handler ends
\* in one of the three ways, a consumer that is down is started again.
DeliveryFairness ==
    \A c \in Consumers :
        /\ WF_brokerVars(Deliver(c))
        /\ WF_brokerVars(Take(c))
        /\ WF_brokerVars(Ack(c) \/ Requeue(c) \/ DeadLetter(c))
        /\ WF_brokerVars(Restart(c))

FairDeliverySpec == DeliverySpec /\ DeliveryFairness

\* What the program does for itself, as long as no process crashes: nothing
\* in it starts a consumer again.
UnattendedNext ==
    \/ PublishSome
    \/ \E c \in Consumers :
          \/ Deliver(c)
          \/ Take(c)
          \/ Ack(c)
          \/ Requeue(c)
          \/ DeadLetter(c)
          \/ ConnectionLost(c)

UnattendedFairness ==
    \A c \in Consumers :
        /\ WF_brokerVars(Deliver(c))
        /\ WF_brokerVars(Take(c))
        /\ WF_brokerVars(Ack(c) \/ Requeue(c) \/ DeadLetter(c))

UnattendedSpec ==
    BrokerInit /\ [][UnattendedNext]_brokerVars /\ UnattendedFairness

-----------------------------------------------------------------------------
DeliveryTypeOK == log \in Seq(Bodies) /\ QueueTypeOK

\* From some moment on, handlers end without a recoverable exception and
\* processes and connections stay up.
QueueFaultsCease ==
    <>[][~ \E c \in Consumers :
              Requeue(c) \/ ConnectionLost(c) \/ Crash(c)]_brokerVars

\* Whatever happened before, the queue is emptied once the faults are over:
\* every published message (MaxMessages bounds them) is settled, and none is
\* stuck behind a dead consumer, a full prefetch window or another message.
EventuallySettled ==
    QueueFaultsCease => (Messages # {} ~> Messages = acked \cup dead)

\* start_consuming says "consume forever. Runs until cancelled" on a robust
\* connection: while its process lives, lost connections stop nothing.
ConsumesForever == EventuallySettled
=============================================================================
