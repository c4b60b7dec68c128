---------------------------- MODULE BrokerProofs ----------------------------
(***************************************************************************)
(* What every action of module Broker preserves, for any number of         *)
(* consumers, any prefetch and any messages.  The modules that prove       *)
(* theorems about a service cite these lemmas action by action.            *)
(***************************************************************************)
EXTENDS Broker, SequenceTheorems, TLAPS

\* A consumer without an open session has received nothing that counts.
SessionsOK ==
    \A c \in Consumers :
        /\ session[c] = "stale" => hand[c] # None /\ buf[c] = << >>
        /\ session[c] = "down" => hand[c] = None /\ buf[c] = << >>

QueueInv == QueueTypeOK /\ ExactlyOneHome /\ SessionsOK

\* Messages keep their bodies.
LogGrows ==
    /\ Messages \subseteq Messages'
    /\ \A i \in Messages : log'[i] = log[i]

\* What a step of a service may do to its queue, the bodies being in S.
QueueMove(S) ==
    \/ UNCHANGED brokerVars
    \/ \E body \in S : Publish(body)
    \/ \E c \in Consumers :
          \/ Deliver(c) \/ Take(c)
          \/ Ack(c) \/ Requeue(c) \/ DeadLetter(c)
          \/ ConnectionLost(c) \/ Crash(c) \/ Restart(c)

-----------------------------------------------------------------------------
(* Sequences without repetition                                            *)

LEMMA AppendFacts ==
    ASSUME NEW S, NEW s \in Seq(S), NEW e \in S
    PROVE  /\ Append(s, e) \in Seq(S)
           /\ Range(Append(s, e)) = Range(s) \cup {e}
           /\ IsInjective(s) /\ e \notin Range(s) => IsInjective(Append(s, e))
<1> DEFINE t == Append(s, e)
<1>1. /\ t \in Seq(S)
      /\ DOMAIN s = 1 .. Len(s)
      /\ DOMAIN t = 1 .. Len(s) + 1
      /\ Len(s) \in Nat
      /\ \A i \in 1 .. Len(s) : t[i] = s[i]
      /\ t[Len(s) + 1] = e
    BY AppendProperties, LenProperties
<1> HIDE DEF t
<1>2. Range(t) = Range(s) \cup {e}
    <2>1. \A x \in Range(t) : x \in Range(s) \cup {e}
        BY <1>1 DEF Range
    <2>2. \A x \in Range(s) : x \in Range(t)
        BY <1>1 DEF Range
    <2>3. e \in Range(t)
        BY <1>1 DEF Range
    <2> QED
        BY <2>1, <2>2, <2>3
<1>3. IsInjective(s) /\ e \notin Range(s) => IsInjective(t)
    BY <1>1 DEF Range, IsInjective
<1> QED
    BY <1>1, <1>2, <1>3 DEF t

LEMMA HeadTailFacts ==
    ASSUME NEW S, NEW s \in Seq(S), s # << >>
    PROVE  /\ Tail(s) \in Seq(S)
           /\ Head(s) \in S
           /\ Range(s) = Range(Tail(s)) \cup {Head(s)}
           /\ IsInjective(s) => IsInjective(Tail(s))
           /\ IsInjective(s) => Head(s) \notin Range(Tail(s))
<1> DEFINE t == Tail(s)
<1>1. /\ t \in Seq(S)
      /\ Head(s) = s[1]
      /\ Head(s) \in S
      /\ DOMAIN s = 1 .. Len(s)
      /\ Len(s) \in Nat \ {0}
      /\ DOMAIN t = 1 .. Len(s) - 1
      /\ \A i \in 1 .. Len(s) - 1 : t[i] = s[i + 1]
    BY HeadTailProperties, LenProperties, EmptySeq
<1> HIDE DEF t
<1>2. Range(s) = Range(t) \cup {Head(s)}
    <2>1. ASSUME NEW i \in DOMAIN s, i # 1
          PROVE  s[i] \in Range(t)
        <3>1. i - 1 \in 1 .. Len(s) - 1 /\ (i - 1) + 1 = i
            BY <1>1, <2>1
        <3> QED
            BY <1>1, <3>1 DEF Range
    <2>2. \A x \in Range(s) : x \in Range(t) \cup {Head(s)}
        BY <1>1, <2>1 DEF Range
    <2>3. \A x \in Range(t) : x \in Range(s)
        BY <1>1 DEF Range
    <2>4. Head(s) \in Range(s)
        BY <1>1 DEF Range
    <2> QED
        BY <2>2, <2>3, <2>4
<1>3. IsInjective(s) => IsInjective(t)
    BY <1>1 DEF IsInjective
<1>4. IsInjective(s) => Head(s) \notin Range(t)
    BY <1>1 DEF IsInjective, Range
<1> QED
    BY <1>1, <1>2, <1>3, <1>4 DEF t

-----------------------------------------------------------------------------
(* The actions.  Each lemma first says how the action moves messages       *)
(* between the places, then reads the invariant off.                       *)

LEMMA MessagesFacts ==
    ASSUME NEW S, log \in Seq(S)
    PROVE  /\ Messages = 1 .. Len(log)
           /\ Len(log) \in Nat
           /\ None \notin Messages
           /\ Messages \subseteq Nat
BY LenProperties DEF Messages, None

\* Publishing adds one message to the queue: it is nowhere else.
LEMMA PublishQueue ==
    ASSUME NEW S, log \in Seq(S), NEW body \in S, QueueInv, Publish(body)
    PROVE  QueueInv'
<1> DEFINE m == Len(log) + 1
<1>1. /\ Messages = 1 .. Len(log)
      /\ Len(log) \in Nat
      /\ m \notin Messages
      /\ Messages' = Messages \cup {m}
      /\ ready' = ready \cup {m}
    BY MessagesFacts, AppendProperties, LenProperties DEF Publish, Messages
<1> HIDE DEF m
<1>2. UNCHANGED <<buf, hand, session, acked, dead>>
    BY DEF Publish
<1>3. \A d \in Consumers : Unacked(d)' = Unacked(d)
    BY <1>2 DEF Unacked
<1>4. \A d \in Consumers : Unacked(d) \subseteq Messages
    BY DEF QueueInv, ExactlyOneHome
<1>5. QueueTypeOK'
    <2>1. Seq(Messages) \subseteq Seq(Messages')
        BY <1>1, SeqMonotonic
    <2> QED
        BY <1>1, <1>2, <2>1 DEF QueueInv, QueueTypeOK
<1>6. ExactlyOneHome'
    <2> USE DEF QueueInv, QueueTypeOK, ExactlyOneHome
    <2>1. (Messages = ready \cup acked \cup dead
                         \cup UNION {Unacked(c) : c \in Consumers})'
        BY <1>1, <1>2, <1>3
    <2>2. (acked \cap dead = {} /\ ready \cap (acked \cup dead) = {})'
        BY <1>1, <1>2
    <2>3. ASSUME NEW c \in Consumers
          PROVE  /\ (Unacked(c) \cap (ready \cup acked \cup dead) = {})'
                 /\ (hand[c] \notin Range(buf[c]))'
                 /\ IsInjective(buf[c])'
                 /\ (\A d \in Consumers \ {c} : Unacked(c) \cap Unacked(d) = {})'
        BY <1>1, <1>2, <1>3, <1>4
    <2> QED
        BY <2>1, <2>2, <2>3
<1>7. SessionsOK'
    BY <1>2 DEF SessionsOK, QueueInv
<1> QED
    BY <1>5, <1>6, <1>7 DEF QueueInv

\* Every other action moves messages between the queue, one consumer and the
\* two places where a message is settled.  It keeps ExactlyOneHome if it
\* neither loses nor doubles one of the messages that were in these places.
LEMMA OneHomeStep ==
    ASSUME ExactlyOneHome,
           NEW c \in Consumers,
           log' = log,
           \A d \in Consumers \ {c} :
               buf'[d] = buf[d] /\ hand'[d] = hand[d] /\ session'[d] = session[d],
           (ready \cup acked \cup dead \cup Unacked(c))'
               = ready \cup acked \cup dead \cup Unacked(c),
           (acked \cap dead)' = {},
           (ready \cap (acked \cup dead))' = {},
           (Unacked(c) \cap (ready \cup acked \cup dead))' = {},
           (hand[c] \notin Range(buf[c]))',
           IsInjective(buf[c])'
    PROVE  ExactlyOneHome'
<1>1. \A d \in Consumers \ {c} : Unacked(d)' = Unacked(d)
    BY DEF Unacked
<1>2. Messages' = Messages
    BY DEF Messages
<1>3. /\ Messages = ready \cup acked \cup dead
                       \cup UNION {Unacked(d) : d \in Consumers}
      /\ \A d \in Consumers :
            /\ Unacked(d) \cap (ready \cup acked \cup dead) = {}
            /\ hand[d] \notin Range(buf[d])
            /\ IsInjective(buf[d])
            /\ \A e \in Consumers \ {d} : Unacked(d) \cap Unacked(e) = {}
    BY DEF ExactlyOneHome
<1> DEFINE Home == ready \cup acked \cup dead \cup Unacked(c)
<1>4. Home' = Home
    OBVIOUS
<1>5. \A d \in Consumers \ {c} : Unacked(d) \cap Home = {}
    BY <1>3
<1>6. \A d \in Consumers \ {c} : Unacked(d)' \cap Home' = {}
    BY <1>1, <1>4, <1>5
<1>7. (Messages = ready \cup acked \cup dead
                      \cup UNION {Unacked(d) : d \in Consumers})'
    <2>1. Messages = Home \cup UNION {Unacked(d) : d \in Consumers \ {c}}
        BY <1>3
    <2>2. UNION {Unacked(d)' : d \in Consumers \ {c}}
              = UNION {Unacked(d) : d \in Consumers \ {c}}
        BY <1>1
    <2>3. Messages' = Home' \cup UNION {Unacked(d)' : d \in Consumers \ {c}}
        BY <1>2, <1>4, <2>1, <2>2
    <2> QED
        BY <2>3
<1>8. ASSUME NEW d \in Consumers
      PROVE  /\ (Unacked(d) \cap (ready \cup acked \cup dead))' = {}
             /\ (hand[d] \notin Range(buf[d]))'
             /\ IsInjective(buf[d])'
             /\ \A e \in Consumers \ {d} : (Unacked(d) \cap Unacked(e))' = {}
    <2>1. CASE d = c
        BY <2>1, <1>6
    <2>2. CASE d # c
        <3>1. (Unacked(d) \cap (ready \cup acked \cup dead))' = {}
            BY <2>2, <1>6
        <3>2. (hand[d] \notin Range(buf[d]))' /\ IsInjective(buf[d])'
            BY <2>2, <1>3
        <3>3. ASSUME NEW e \in Consumers \ {d}
              PROVE  (Unacked(d) \cap Unacked(e))' = {}
            <4>1. CASE e = c
                BY <2>2, <4>1, <1>6
            <4>2. CASE e # c
                BY <2>2, <4>2, <1>1, <1>3
            <4> QED
                BY <4>1, <4>2
        <3> QED
            BY <3>1, <3>2, <3>3
    <2> QED
        BY <2>1, <2>2
<1> QED
    BY <1>7, <1>8 DEF ExactlyOneHome

\* What the lemmas about the actions use of the invariant.
LEMMA ConsumerFacts ==
    ASSUME NEW S, log \in Seq(S), QueueInv, NEW c \in Consumers
    PROVE  /\ buf[c] \in Seq(Messages)
           /\ hand[c] \in Messages \cup {None}
           /\ session[c] \in Sessions
           /\ Unacked(c) \cap (ready \cup acked \cup dead) = {}
           /\ acked \cap dead = {}
           /\ ready \cap (acked \cup dead) = {}
           /\ Unacked(c) \subseteq Messages
           /\ hand[c] \notin Range(buf[c])
           /\ IsInjective(buf[c])
           /\ None \notin Messages
           /\ session[c] = "stale" => hand[c] # None /\ buf[c] = << >>
           /\ session[c] = "down" => hand[c] = None /\ buf[c] = << >>
<1>1. /\ Messages = ready \cup acked \cup dead
                       \cup UNION {Unacked(d) : d \in Consumers}
      /\ None \notin Messages
    BY MessagesFacts DEF QueueInv, ExactlyOneHome
<1>2. Unacked(c) \subseteq Messages
    BY <1>1
<1> QED
    BY <1>1, <1>2 DEF QueueInv, QueueTypeOK, ExactlyOneHome, SessionsOK

LEMMA EmptyBuffer ==
    ASSUME NEW S
    PROVE  << >> \in Seq(S) /\ Range(<< >>) = {} /\ IsInjective(<< >>)
BY EmptySeq DEF Range, IsInjective

\* Delivering moves the oldest message from the queue to the buffer of c.
LEMMA DeliverQueue ==
    ASSUME NEW S, log \in Seq(S), QueueInv, NEW c \in Consumers, Deliver(c)
    PROVE  QueueInv'
<1>1. PICK i \in ready :
          /\ ready' = ready \ {i}
          /\ buf' = [buf EXCEPT ![c] = Append(@, i)]
    BY DEF Deliver
<1>2. session[c] = "open" /\ UNCHANGED <<log, hand, session, acked, dead>>
    BY DEF Deliver
<1>3. /\ ready \subseteq Messages
      /\ i \in Messages
      /\ buf \in [Consumers -> Seq(Messages)]
      /\ Messages' = Messages
    BY <1>2 DEF QueueInv, QueueTypeOK, Messages
<1>4. /\ buf'[c] = Append(buf[c], i)
      /\ \A d \in Consumers \ {c} : buf'[d] = buf[d]
    BY <1>1, <1>3
<1>5. i \notin Range(buf[c]) /\ i # hand[c] /\ i \notin acked \cup dead
    BY <1>2, <1>3, ConsumerFacts DEF Unacked
<1>6. /\ buf'[c] \in Seq(Messages)
      /\ Range(buf'[c]) = Range(buf[c]) \cup {i}
      /\ IsInjective(buf'[c])
    BY <1>3, <1>4, <1>5, AppendFacts, ConsumerFacts
<1>7. Unacked(c)' = Unacked(c) \cup {i}
    BY <1>2, <1>6 DEF Unacked
<1>8. QueueTypeOK'
    BY <1>1, <1>2, <1>3, <1>6 DEF QueueInv, QueueTypeOK
<1>9. ExactlyOneHome'
    <2>1. (hand[c] \notin Range(buf[c]))'
        BY <1>2, <1>5, <1>6, ConsumerFacts
    <2>2. (Unacked(c) \cap (ready \cup acked \cup dead))' = {}
        BY <1>1, <1>2, <1>5, <1>7, ConsumerFacts
    <2>3. (ready \cup acked \cup dead \cup Unacked(c))'
              = ready \cup acked \cup dead \cup Unacked(c)
        BY <1>1, <1>2, <1>7
    <2>4. (acked \cap dead = {} /\ ready \cap (acked \cup dead) = {})'
        BY <1>1, <1>2, ConsumerFacts
    <2> QED
        BY <1>2, <1>4, <1>6, <2>1, <2>2, <2>3, <2>4, OneHomeStep DEF QueueInv
<1>10. SessionsOK'
    BY <1>2, <1>4 DEF QueueInv, SessionsOK
<1> QED
    BY <1>8, <1>9, <1>10 DEF QueueInv

\* Taking a delivery out of the buffer leaves it with the same consumer.
LEMMA TakeQueue ==
    ASSUME NEW S, log \in Seq(S), QueueInv, NEW c \in Consumers, Take(c)
    PROVE  QueueInv'
<1>1. /\ session[c] = "open"
      /\ hand[c] = None
      /\ buf[c] # << >>
      /\ hand' = [hand EXCEPT ![c] = Head(buf[c])]
      /\ buf' = [buf EXCEPT ![c] = Tail(@)]
      /\ UNCHANGED <<log, ready, session, acked, dead>>
    BY DEF Take
<1>2. /\ buf \in [Consumers -> Seq(Messages)]
      /\ hand \in [Consumers -> Messages \cup {None}]
      /\ Messages' = Messages
    BY <1>1 DEF QueueInv, QueueTypeOK, Messages
<1>3. /\ buf'[c] = Tail(buf[c])
      /\ hand'[c] = Head(buf[c])
      /\ \A d \in Consumers \ {c} : buf'[d] = buf[d] /\ hand'[d] = hand[d]
    BY <1>1, <1>2
<1>4. /\ buf'[c] \in Seq(Messages)
      /\ hand'[c] \in Messages
      /\ Range(buf[c]) = Range(buf'[c]) \cup {hand'[c]}
      /\ IsInjective(buf'[c])
      /\ hand'[c] \notin Range(buf'[c])
    BY <1>1, <1>2, <1>3, HeadTailFacts, ConsumerFacts
<1>5. Unacked(c)' = Unacked(c)
    BY <1>1, <1>4, ConsumerFacts DEF Unacked
<1>6. QueueTypeOK'
    BY <1>1, <1>2, <1>3, <1>4 DEF QueueInv, QueueTypeOK
<1>7. ExactlyOneHome'
    <2>1. (acked \cap dead = {} /\ ready \cap (acked \cup dead) = {})'
        BY <1>1, ConsumerFacts
    <2>2. (Unacked(c) \cap (ready \cup acked \cup dead))' = {}
        BY <1>1, <1>5, ConsumerFacts
    <2> QED
        BY <1>1, <1>3, <1>4, <1>5, <2>1, <2>2, OneHomeStep DEF QueueInv
<1>8. SessionsOK'
    BY <1>1, <1>3 DEF QueueInv, SessionsOK
<1> QED
    BY <1>6, <1>7, <1>8 DEF QueueInv

\* The end of a handler: on an open session the message in hand goes to one
\* other place; on a stale one it was queued again when the connection broke.
LEMMA ReleaseQueue ==
    ASSUME NEW S, log \in Seq(S), QueueInv, NEW c \in Consumers, Release(c),
           \/ Abandon(c)
           \/ /\ session[c] = "open"
              /\ session' = session
              /\ \/ acked' = acked \cup {hand[c]} /\ UNCHANGED <<ready, dead>>
                 \/ dead' = dead \cup {hand[c]} /\ UNCHANGED <<ready, acked>>
                 \/ ready' = ready \cup {hand[c]} /\ UNCHANGED <<acked, dead>>
    PROVE  QueueInv'
<1>1. /\ hand[c] # None
      /\ hand' = [hand EXCEPT ![c] = None]
      /\ UNCHANGED <<log, buf>>
    BY DEF Release
<1>2. /\ hand \in [Consumers -> Messages \cup {None}]
      /\ session \in [Consumers -> Sessions]
      /\ Messages' = Messages
    BY <1>1 DEF QueueInv, QueueTypeOK, Messages
<1>3. /\ hand'[c] = None
      /\ hand[c] \in Messages
      /\ \A d \in Consumers \ {c} : hand'[d] = hand[d]
    BY <1>1, <1>2
<1>4. \A d \in Consumers \ {c} : session'[d] = session[d]
    BY <1>2 DEF Abandon
<1>5. /\ (hand[c] \notin Range(buf[c]))'
      /\ IsInjective(buf[c])'
    <2>1. \A x \in Range(buf[c]) : x \in Messages
        BY ConsumerFacts, RangeOfSeq
    <2> QED
        BY <1>1, <1>3, <2>1, ConsumerFacts
<1>6. CASE Abandon(c)
    <2>1. /\ session[c] = "stale"
          /\ session' = [session EXCEPT ![c] = "down"]
          /\ UNCHANGED <<ready, acked, dead>>
        BY <1>6 DEF Abandon
    <2>2. session'[c] = "down" /\ session' \in [Consumers -> Sessions]
        BY <1>2, <2>1 DEF Sessions
    <2>3. buf[c] = << >> /\ Unacked(c) = {} /\ Unacked(c)' = {}
        BY <1>1, <2>1, <2>2, ConsumerFacts, EmptyBuffer DEF Unacked
    <2>4. QueueTypeOK'
        BY <1>1, <1>2, <1>3, <2>1, <2>2 DEF QueueInv, QueueTypeOK
    <2>5. ExactlyOneHome'
        <3>1. (acked \cap dead = {} /\ ready \cap (acked \cup dead) = {})'
            BY <2>1, ConsumerFacts
        <3> QED
            BY <1>1, <1>3, <1>4, <1>5, <2>1, <2>3, <3>1, OneHomeStep DEF QueueInv
    <2>6. SessionsOK'
        BY <1>1, <1>3, <1>4, <2>2, <2>3 DEF QueueInv, SessionsOK
    <2> QED
        BY <2>4, <2>5, <2>6 DEF QueueInv
<1>7. CASE session[c] = "open" /\ session' = session
               /\ \/ acked' = acked \cup {hand[c]} /\ UNCHANGED <<ready, dead>>
                  \/ dead' = dead \cup {hand[c]} /\ UNCHANGED <<ready, acked>>
                  \/ ready' = ready \cup {hand[c]} /\ UNCHANGED <<acked, dead>>
    <2>1. /\ Unacked(c) = Range(buf[c]) \cup {hand[c]}
          /\ Unacked(c)' = Range(buf[c])
          /\ hand[c] \notin Range(buf[c])
        BY <1>1, <1>3, <1>7, ConsumerFacts DEF Unacked
    <2>2. QueueTypeOK'
        BY <1>1, <1>2, <1>3, <1>7 DEF QueueInv, QueueTypeOK
    <2>3. ExactlyOneHome'
        <3>1. (acked \cap dead = {} /\ ready \cap (acked \cup dead) = {})'
            BY <1>7, <2>1, ConsumerFacts
        <3>2. (Unacked(c) \cap (ready \cup acked \cup dead))' = {}
            BY <1>7, <2>1, ConsumerFacts
        <3>3. (ready \cup acked \cup dead \cup Unacked(c))'
                  = ready \cup acked \cup dead \cup Unacked(c)
            BY <1>7, <2>1
        <3> QED
            BY <1>1, <1>3, <1>4, <1>5, <3>1, <3>2, <3>3, OneHomeStep DEF QueueInv
    <2>4. SessionsOK'
        BY <1>1, <1>3, <1>7 DEF QueueInv, SessionsOK
    <2> QED
        BY <2>2, <2>3, <2>4 DEF QueueInv
<1> QED
    BY <1>6, <1>7

\* The three ends of _handle_one.
LEMMA SettleQueue ==
    ASSUME NEW S, log \in Seq(S), QueueInv, NEW c \in Consumers,
           Ack(c) \/ Requeue(c) \/ DeadLetter(c)
    PROVE  QueueInv'
<1>1. CASE Ack(c)
    BY <1>1, ReleaseQueue DEF Ack
<1>2. CASE Requeue(c)
    BY <1>2, ReleaseQueue DEF Requeue
<1>3. CASE DeadLetter(c)
    BY <1>3, ReleaseQueue DEF DeadLetter
<1> QED
    BY <1>1, <1>2, <1>3

\* A crash and a lost connection put everything unacknowledged back.
LEMMA FaultQueue ==
    ASSUME NEW S, log \in Seq(S), QueueInv, NEW c \in Consumers,
           Crash(c) \/ ConnectionLost(c)
    PROVE  QueueInv'
<1>1. /\ ready' = ready \cup Unacked(c)
      /\ buf' = [buf EXCEPT ![c] = << >>]
      /\ UNCHANGED <<log, acked, dead>>
    BY DEF Crash, ConnectionLost
<1>2. /\ buf \in [Consumers -> Seq(Messages)]
      /\ hand \in [Consumers -> Messages \cup {None}]
      /\ session \in [Consumers -> Sessions]
      /\ Messages' = Messages
    BY <1>1 DEF QueueInv, QueueTypeOK, Messages
<1>3. /\ buf'[c] = << >>
      /\ Range(buf'[c]) = {}
      /\ IsInjective(buf'[c])
      /\ buf' \in [Consumers -> Seq(Messages)]
    BY <1>1, <1>2, EmptyBuffer
<1>4. /\ hand' \in [Consumers -> Messages \cup {None}]
      /\ session' \in [Consumers -> Sessions]
      /\ session'[c] = "open" => hand'[c] = None
      /\ session'[c] = "stale" => hand'[c] # None
      /\ session'[c] = "down" => hand'[c] = None
      /\ \A d \in Consumers \ {c} :
            /\ buf'[d] = buf[d]
            /\ hand'[d] = hand[d]
            /\ session'[d] = session[d]
    <2>1. CASE Crash(c)
        BY <1>1, <1>2, <2>1 DEF Crash, Sessions
    <2>2. CASE ConnectionLost(c)
        BY <1>1, <1>2, <2>2 DEF ConnectionLost, Sessions
    <2> QED
        BY <2>1, <2>2
<1>5. Unacked(c)' = {}
    BY <1>3, <1>4 DEF Unacked
<1>6. QueueTypeOK'
    BY <1>1, <1>2, <1>3, <1>4, ConsumerFacts DEF QueueInv, QueueTypeOK
<1>7. ExactlyOneHome'
    <2>1. (acked \cap dead = {} /\ ready \cap (acked \cup dead) = {})'
        BY <1>1, ConsumerFacts
    <2>2. (ready \cup acked \cup dead \cup Unacked(c))'
              = ready \cup acked \cup dead \cup Unacked(c)
        BY <1>1, <1>5
    <2> QED
        BY <1>1, <1>3, <1>4, <1>5, <2>1, <2>2, OneHomeStep DEF QueueInv
<1>8. SessionsOK'
    BY <1>3, <1>4 DEF QueueInv, SessionsOK
<1> QED
    BY <1>6, <1>7, <1>8 DEF QueueInv

\* A consumer that comes back holds nothing.
LEMMA RestartQueue ==
    ASSUME NEW S, log \in Seq(S), QueueInv, NEW c \in Consumers, Restart(c)
    PROVE  QueueInv'
<1>1. /\ session[c] = "down"
      /\ session' = [session EXCEPT ![c] = "open"]
      /\ UNCHANGED <<log, ready, buf, hand, acked, dead>>
    BY DEF Restart
<1>2. session \in [Consumers -> Sessions] /\ Messages' = Messages
    BY <1>1 DEF QueueInv, QueueTypeOK, Messages
<1>3. /\ session' \in [Consumers -> Sessions]
      /\ session'[c] = "open"
      /\ \A d \in Consumers \ {c} : session'[d] = session[d]
    BY <1>1, <1>2 DEF Sessions
<1>4. hand[c] = None /\ buf[c] = << >>
    BY <1>1, ConsumerFacts
<1>5. Unacked(c)' = Unacked(c)
    BY <1>1, <1>3, <1>4 DEF Unacked
<1>6. QueueTypeOK'
    BY <1>1, <1>2, <1>3 DEF QueueInv, QueueTypeOK
<1>7. ExactlyOneHome'
    <2>1. (acked \cap dead = {} /\ ready \cap (acked \cup dead) = {})'
        BY <1>1, ConsumerFacts
    <2>2. (Unacked(c) \cap (ready \cup acked \cup dead))' = {}
        BY <1>1, <1>5, ConsumerFacts
    <2> QED
        BY <1>1, <1>3, <1>5, <2>1, <2>2, ConsumerFacts, OneHomeStep DEF QueueInv
<1>8. SessionsOK'
    BY <1>1, <1>3 DEF QueueInv, SessionsOK
<1> QED
    BY <1>6, <1>7, <1>8 DEF QueueInv

\* Steps of a service that do not touch its queue.
LEMMA SameQueue ==
    ASSUME QueueInv, UNCHANGED brokerVars
    PROVE  QueueInv'
BY DEF brokerVars, QueueInv, QueueTypeOK, ExactlyOneHome, SessionsOK,
       Messages, Unacked

LEMMA InitQueue ==
    ASSUME BrokerInit
    PROVE  QueueInv
<1>1. /\ log = << >>
      /\ ready = {} /\ acked = {} /\ dead = {}
      /\ buf = [c \in Consumers |-> << >>]
      /\ hand = [c \in Consumers |-> None]
      /\ session = [c \in Consumers |-> "open"]
    BY DEF BrokerInit
<1>2. Messages = {}
    BY <1>1 DEF Messages
<1>3. \A c \in Consumers :
          /\ buf[c] = << >>
          /\ Range(buf[c]) = {}
          /\ IsInjective(buf[c])
          /\ Unacked(c) = {}
    BY <1>1, EmptyBuffer DEF Unacked
<1>4. QueueTypeOK
    BY <1>1, <1>2, EmptyBuffer DEF QueueTypeOK, Sessions
<1>5. ExactlyOneHome
    BY <1>1, <1>2, <1>3 DEF ExactlyOneHome
<1>6. SessionsOK
    BY <1>1 DEF SessionsOK
<1> QED
    BY <1>4, <1>5, <1>6 DEF QueueInv

-----------------------------------------------------------------------------
(* The services                                                            *)

\* A service that moves its queue only as module Broker lets it keeps the
\* queue in order and its messages where they are.
LEMMA QueueMoves ==
    ASSUME NEW S, log \in Seq(S), QueueInv, QueueMove(S)
    PROVE  QueueInv' /\ LogGrows /\ log' \in Seq(S)
<1>1. ASSUME UNCHANGED brokerVars
      PROVE  QueueInv' /\ log' = log
    BY <1>1, SameQueue DEF brokerVars
<1>2. ASSUME NEW c \in Consumers,
             \/ Deliver(c) \/ Take(c) \/ Ack(c) \/ Requeue(c) \/ DeadLetter(c)
             \/ ConnectionLost(c) \/ Crash(c) \/ Restart(c)
      PROVE  QueueInv' /\ log' = log
    <2>1. QueueInv'
        BY <1>2, DeliverQueue, TakeQueue, SettleQueue, FaultQueue, RestartQueue
    <2>2. log' = log
        BY <1>2 DEF Deliver, Take, Ack, Requeue, DeadLetter, Release,
            ConnectionLost, Crash, Restart
    <2> QED
        BY <2>1, <2>2
<1>3. ASSUME NEW body \in S, Publish(body)
      PROVE  QueueInv' /\ LogGrows /\ log' \in Seq(S)
    <2>1. log' = Append(log, body)
        BY <1>3 DEF Publish
    <2>2. /\ log' \in Seq(S)
          /\ Messages = 1 .. Len(log)
          /\ Len(log) \in Nat
          /\ Messages' = 1 .. Len(log) + 1
          /\ \A i \in 1 .. Len(log) : log'[i] = log[i]
        BY <2>1, AppendProperties, LenProperties DEF Messages
    <2> QED
        BY <1>3, <2>2, PublishQueue DEF LogGrows
<1>4. log' = log => LogGrows /\ log' \in Seq(S)
    BY DEF LogGrows, Messages
<1> QED
    BY <1>1, <1>2, <1>3, <1>4 DEF QueueMove

\* What is settled stays settled.
LEMMA SettledGrows ==
    ASSUME NEW S, QueueMove(S)
    PROVE  acked \subseteq acked' /\ dead \subseteq dead'
BY DEF QueueMove, brokerVars, Publish, Deliver, Take, Ack, Requeue, DeadLetter,
    Abandon, ConnectionLost, Crash, Restart

\* The program counters of the workers of a service, before and after a step,
\* agree with what they have in hand: a handler starts with the delivery it
\* takes, keeps it while it runs, and ends without one.
LEMMA IdleMoves ==
    ASSUME NEW S, log \in Seq(S), QueueInv,
           NEW L, NEW p \in [Consumers -> L], NEW q, "idle" \in L,
           \A w \in Consumers : p[w] = "idle" <=> hand[w] = None,
           \/ q = p /\ hand' = hand
           \/ \E w \in Consumers, l \in L \ {"idle"} :
                 /\ q = [p EXCEPT ![w] = l]
                 /\ Take(w) \/ (p[w] # "idle" /\ hand' = hand)
           \/ \E w \in Consumers :
                 /\ q = [p EXCEPT ![w] = "idle"]
                 /\ hand' = [hand EXCEPT ![w] = None]
    PROVE  /\ q \in [Consumers -> L]
           /\ \A w \in Consumers : q[w] = "idle" <=> hand'[w] = None
<1>1. hand \in [Consumers -> Messages \cup {None}]
    BY DEF QueueInv, QueueTypeOK
<1>2. CASE q = p /\ hand' = hand
    BY <1>2
<1>3. ASSUME NEW w \in Consumers, NEW l \in L \ {"idle"},
             q = [p EXCEPT ![w] = l], p[w] # "idle", hand' = hand
      PROVE  /\ q \in [Consumers -> L]
             /\ \A v \in Consumers : q[v] = "idle" <=> hand'[v] = None
    BY <1>1, <1>3
<1>4. ASSUME NEW w \in Consumers, NEW l \in L \ {"idle"},
             q = [p EXCEPT ![w] = l], Take(w)
      PROVE  /\ q \in [Consumers -> L]
             /\ \A v \in Consumers : q[v] = "idle" <=> hand'[v] = None
    <2>1. buf[w] \in Seq(Messages) /\ buf[w] # << >> /\ None \notin Messages
        BY <1>4, MessagesFacts DEF Take, QueueInv, QueueTypeOK
    <2>2. Head(buf[w]) # None
        BY <2>1, HeadTailFacts
    <2>3. hand' = [hand EXCEPT ![w] = Head(buf[w])]
        BY <1>4 DEF Take
    <2> QED
        BY <1>1, <1>4, <2>2, <2>3
<1>5. ASSUME NEW w \in Consumers,
             q = [p EXCEPT ![w] = "idle"], hand' = [hand EXCEPT ![w] = None]
      PROVE  /\ q \in [Consumers -> L]
             /\ \A v \in Consumers : q[v] = "idle" <=> hand'[v] = None
    BY <1>1, <1>5
<1> QED
    BY <1>2, <1>3, <1>4, <1>5

\* A worker whose handler runs has a published message in hand, of which a
\* step of anybody leaves the body as it is.
LEMMA BodyInHand ==
    ASSUME NEW S, log \in Seq(S), QueueInv, NEW w \in Consumers, hand[w] # None
    PROVE  /\ hand[w] \in Messages
           /\ log[hand[w]] \in S
           /\ LogGrows => log'[hand[w]] = log[hand[w]]
<1>1. hand[w] \in Messages
    BY DEF QueueInv, QueueTypeOK
<1>2. log[hand[w]] \in S
    BY <1>1, LenProperties, ElementOfSeq DEF Messages
<1> QED
    BY <1>1, <1>2 DEF LogGrows

-----------------------------------------------------------------------------
(* Order                                                                   *)

\* The queue has one consumer.
Alone == \A c, d \in Consumers : c = d

\* A consumer with h in hand and b in its iterator handles nothing before
\* everything older is done: done already, or ahead of it in the iterator.
InOrder(h, b, older, done) ==
    /\ h # None => \A i \in older : i < h => i \in done
    /\ \A p \in DOMAIN b, i \in older :
          i < b[p] => i \in done \cup {h} \cup {b[q] : q \in 1 .. p - 1}

\* A consumer that is alone keeps to the order of the queue, whatever it
\* prefetches, loses or crashes with, up to what it requeues while it holds
\* newer deliveries.
LEMMA InOrderMoves ==
    ASSUME NEW S, log \in Seq(S), QueueInv, QueueMove(S), Alone,
           NEW done, acked \cup dead \subseteq done,
           NEW after, done \subseteq after, acked' \cup dead' \subseteq after,
           \A c \in Consumers :
               Requeue(c) /\ buf[c] # << >> => hand[c] \in after,
           \A c \in Consumers : InOrder(hand[c], buf[c], Messages, done)
    PROVE  \A c \in Consumers : InOrder(hand'[c], buf'[c], Messages', after)
<1>1. /\ buf \in [Consumers -> Seq(Messages)]
      /\ hand \in [Consumers -> Messages \cup {None}]
      /\ ready \subseteq Messages
      /\ Messages = 1 .. Len(log) /\ Len(log) \in Nat /\ None \notin Messages
    BY MessagesFacts DEF QueueInv, QueueTypeOK
<1> DEFINE Kept == \A c \in Consumers : InOrder(hand'[c], buf'[c], Messages', after)
<1>2. ASSUME NEW c \in Consumers, InOrder(hand'[c], buf'[c], Messages', after)
      PROVE  Kept
    <2>1. \A d \in Consumers : d = c
        BY DEF Alone
    <2> QED
        BY <1>2, <2>1, Zenon
<1>3. DOMAIN << >> = {}
    OBVIOUS
<1>4. \A c \in Consumers : InOrder(hand[c], buf[c], Messages, after)
    BY DEF InOrder
<1> HIDE DEF Kept
<1>5. ASSUME hand' = hand, buf' = buf, Messages' = Messages
      PROVE  Kept
    BY <1>4, <1>5, Zenon DEF Kept
<1>6. ASSUME NEW body \in S, Publish(body)
      PROVE  Kept
    <2>1. /\ log' = Append(log, body)
          /\ buf' = buf /\ hand' = hand
        BY <1>6 DEF Publish
    <2>2. Messages' = Messages \cup {Len(log) + 1}
        <3>1. Messages' = 1 .. Len(log) + 1
            BY <2>1, AppendProperties, LenProperties DEF Messages
        <3> QED
            BY <1>1, <3>1
    <2>3. ASSUME NEW j \in Messages, NEW i \in Messages', i < j
          PROVE  i \in Messages
        BY <1>1, <2>2, <2>3
    <2>4. ASSUME NEW c \in Consumers
          PROVE  /\ hand[c] # None => hand[c] \in Messages
                 /\ \A p \in DOMAIN buf[c] : buf[c][p] \in Messages
        <3>1. buf[c] \in Seq(Messages)
            BY <1>1
        <3> QED
            BY <1>1, <3>1, ElementOfSeq, LenProperties
    <2>5. ASSUME NEW c \in Consumers
          PROVE  InOrder(hand[c], buf[c], Messages', after)
        BY <1>4, <2>3, <2>4 DEF InOrder
    <2> QED
        BY <2>1, <2>5, Zenon DEF Kept
<1>7. ASSUME NEW c \in Consumers, Deliver(c)
      PROVE  Kept
    <2>1. PICK m \in ready :
              /\ \A j \in ready : m <= j
              /\ ready' = ready \ {m}
              /\ buf' = [buf EXCEPT ![c] = Append(@, m)]
        BY <1>7 DEF Deliver
    <2>2. hand' = hand /\ Messages' = Messages /\ session[c] = "open"
        BY <1>7 DEF Deliver, Messages
    <2> DEFINE b == Append(buf[c], m)
               n == Len(buf[c])
    <2>3. buf[c] \in Seq(Messages) /\ m \in Messages
        BY <1>1
    <2>4. /\ DOMAIN buf[c] = 1 .. n
          /\ n \in Nat
          /\ DOMAIN b = 1 .. n + 1
          /\ \A p \in 1 .. n : b[p] = buf[c][p]
          /\ b[n + 1] = m
        BY <2>3, AppendProperties, LenProperties
    <2>5. buf'[c] = b
        BY <1>1, <2>1
    <2>6. Range(buf[c]) = {buf[c][q] : q \in 1 .. n}
        BY <2>4 DEF Range
    <2> HIDE DEF b, n
    <2>7. ASSUME NEW i \in Messages, i < m
          PROVE  i \in after \cup {hand[c]} \cup {b[q] : q \in 1 .. n}
        <3>1. i \notin ready
            BY <1>1, <2>1, <2>3, <2>7
        <3>2. i \in acked \cup dead \cup UNION {Unacked(d) : d \in Consumers}
            BY <3>1 DEF QueueInv, ExactlyOneHome
        <3>3. UNION {Unacked(d) : d \in Consumers} \subseteq Unacked(c)
            BY DEF Alone
        <3>4. Unacked(c) \subseteq {buf[c][q] : q \in 1 .. n} \cup {hand[c]}
            BY <2>6 DEF Unacked
        <3>5. {buf[c][q] : q \in 1 .. n} = {b[q] : q \in 1 .. n}
            BY <2>4
        <3> QED
            BY <3>2, <3>3, <3>4, <3>5
    <2>8. ASSUME NEW p \in DOMAIN b, NEW i \in Messages, i < b[p]
          PROVE  i \in after \cup {hand[c]} \cup {b[q] : q \in 1 .. p - 1}
        <3>1. CASE p = n + 1
            <4>1. p - 1 = n
                BY <2>4, <3>1
            <4> QED
                BY <2>4, <2>7, <2>8, <3>1, <4>1
        <3>2. CASE p \in 1 .. n
            <4>1. i \in after \cup {hand[c]} \cup {buf[c][q] : q \in 1 .. p - 1}
                BY <1>4, <2>4, <2>8, <3>2 DEF InOrder
            <4>2. \A q \in 1 .. p - 1 : b[q] = buf[c][q]
                BY <2>4, <3>2
            <4> QED
                BY <4>1, <4>2
        <3> QED
            BY <2>4, <3>1, <3>2
    <2>9. InOrder(hand[c], b, Messages, after)
        BY <1>4, <2>8 DEF InOrder
    <2> QED
        BY <1>2, <2>2, <2>5, <2>9, Zenon
<1>8. ASSUME NEW c \in Consumers, Take(c)
      PROVE  Kept
    <2>1. /\ buf[c] # << >>
          /\ hand[c] = None
          /\ hand' = [hand EXCEPT ![c] = Head(buf[c])]
          /\ buf' = [buf EXCEPT ![c] = Tail(@)]
          /\ Messages' = Messages
        BY <1>8 DEF Take, Messages
    <2> DEFINE n == Len(buf[c])
               t == Tail(buf[c])
    <2>2. buf[c] \in Seq(Messages)
        BY <1>1
    <2>3. /\ DOMAIN buf[c] = 1 .. n
          /\ n \in Nat \ {0}
          /\ Head(buf[c]) = buf[c][1]
          /\ DOMAIN t = 1 .. n - 1
          /\ \A p \in 1 .. n - 1 : t[p] = buf[c][p + 1]
        BY <2>1, <2>2, HeadTailProperties, LenProperties, EmptySeq
    <2>4. hand'[c] = buf[c][1] /\ buf'[c] = t
        BY <1>1, <2>1, <2>3
    <2> HIDE DEF n, t
    <2>5. \A i \in Messages : i < buf[c][1] => i \in after
        <3>1. 1 \in DOMAIN buf[c] /\ 1 .. 1 - 1 = {}
            BY <2>3
        <3>2. \A i \in Messages : i < buf[c][1] =>
                  i \in after \cup {None} \cup {buf[c][q] : q \in 1 .. 1 - 1}
            BY <1>4, <2>1, <3>1 DEF InOrder
        <3> QED
            BY <1>1, <3>1, <3>2
    <2>6. ASSUME NEW p \in DOMAIN t, NEW i \in Messages, i < t[p]
          PROVE  i \in after \cup {buf[c][1]} \cup {t[q] : q \in 1 .. p - 1}
        <3>1. p + 1 \in DOMAIN buf[c] /\ t[p] = buf[c][p + 1] /\ p \in Nat
            BY <2>3
        <3>2. i \in after \cup {None} \cup {buf[c][q] : q \in 1 .. (p + 1) - 1}
            BY <1>4, <2>1, <2>6, <3>1 DEF InOrder
        <3>3. ASSUME NEW q \in 1 .. (p + 1) - 1
              PROVE  buf[c][q] \in {buf[c][1]} \cup {t[k] : k \in 1 .. p - 1}
            <4>1. CASE q = 1
                BY <4>1
            <4>2. CASE q # 1
                <5>1. q - 1 \in 1 .. p - 1 /\ q - 1 \in 1 .. n - 1
                      /\ (q - 1) + 1 = q
                    BY <2>3, <3>1, <4>2
                <5>2. t[q - 1] = buf[c][q]
                    BY <2>3, <5>1
                <5> QED
                    BY <5>1, <5>2
            <4> QED
                BY <4>1, <4>2
        <3> QED
            BY <1>1, <3>2, <3>3
    <2>7. InOrder(buf[c][1], t, Messages, after)
        BY <2>5, <2>6 DEF InOrder
    <2> QED
        BY <1>2, <2>1, <2>4, <2>7, Zenon
<1>9. ASSUME NEW c \in Consumers, Ack(c) \/ Requeue(c) \/ DeadLetter(c)
      PROVE  Kept
    <2>1. /\ hand[c] # None
          /\ hand'[c] = None
          /\ buf' = buf /\ Messages' = Messages
        BY <1>1, <1>9 DEF Ack, Requeue, DeadLetter, Release, Messages
    <2>2. buf[c] # << >> => hand[c] \in after
        <3>1. CASE Abandon(c)
            BY <3>1 DEF Abandon, QueueInv, SessionsOK
        <3>2. CASE ~ Abandon(c)
            BY <1>9, <3>2 DEF Ack, Requeue, DeadLetter
        <3> QED
            BY <3>1, <3>2
    <2>3. InOrder(None, buf[c], Messages, after)
        BY <1>3, <1>4, <2>2 DEF InOrder
    <2> QED
        BY <1>2, <2>1, <2>3, Zenon
<1>10. ASSUME NEW c \in Consumers, ConnectionLost(c) \/ Crash(c)
       PROVE  Kept
    <2>1. /\ buf'[c] = << >>
          /\ hand'[c] \in {hand[c], None}
          /\ Messages' = Messages
        BY <1>1, <1>10 DEF ConnectionLost, Crash, Messages
    <2>2. /\ InOrder(hand[c], << >>, Messages, after)
          /\ InOrder(None, << >>, Messages, after)
        BY <1>3, <1>4 DEF InOrder
    <2> QED
        BY <1>2, <2>1, <2>2, Zenon
<1>11. ASSUME UNCHANGED brokerVars
       PROVE  Kept
    BY <1>5, <1>11 DEF brokerVars, Messages
<1>12. ASSUME NEW c \in Consumers, Restart(c)
       PROVE  Kept
    BY <1>5, <1>12 DEF Restart, Messages
<1> QED
    BY <1>6, <1>7, <1>8, <1>9, <1>10, <1>11, <1>12 DEF QueueMove, Kept

LEMMA InOrderInit ==
    ASSUME BrokerInit, NEW done
    PROVE  \A c \in Consumers : InOrder(hand[c], buf[c], Messages, done)
BY DEF BrokerInit, InOrder
=============================================================================
