---------------------------- MODULE DurableQueue ----------------------------
(***************************************************************************)
(* What internal/outbox promises its callers.  An event that was accepted  *)
(* stays queued, behind the events accepted before it, until the bus has   *)
(* taken it; it may be delivered more than once.  An append may spoil its  *)
(* own event, and the queue may be cut off behind some event: what is cut  *)
(* off undelivered is lost, and nothing else is.  A caller is told that    *)
(* its event is safe once it was accepted, and also if it was spoiled.     *)
(* Nothing is said here of the order of deliveries.                        *)
(***************************************************************************)
EXTENDS Naturals, SequencesExt

CONSTANT Events

VARIABLES
  queue,      \* accepted events, oldest first
  delivered,  \* events the bus has taken at least once
  acked,      \* events whose caller was told that they are safe
  lost        \* events that were spoiled or cut off

dqVars == <<queue, delivered, acked, lost>>

DQInit ==
  /\ queue = <<>>
  /\ delivered = {}
  /\ acked = {}
  /\ lost = {}

Accept(e) ==
  /\ e \notin ToSet(queue)
  /\ queue' = Append(queue, e)
  /\ UNCHANGED <<delivered, acked, lost>>

Spoil(e) ==
  /\ lost' = lost \cup {e}
  /\ UNCHANGED <<queue, delivered, acked>>

Acknowledge(e) ==
  /\ e \in ToSet(queue) \cup delivered \cup lost
  /\ acked' = acked \cup {e}
  /\ UNCHANGED <<queue, delivered, lost>>

Deliver(e) ==
  /\ e \in ToSet(queue)
  /\ delivered' = delivered \cup {e}
  /\ UNCHANGED <<queue, acked, lost>>

\* The ways to keep part of the first n elements of a sequence: increasing
\* sequences of positions.
Selections(n) ==
  UNION {{f \in [1..k -> 1..n] : \A i, j \in 1..k : i < j => f[i] < f[j]} :
           k \in 0..n}

\* The first n events are gone through: those that are not kept were
\* delivered.  The events behind them are cut off.
Forget(n, kept) ==
  /\ queue' = [i \in DOMAIN kept |-> queue[kept[i]]]
  /\ ToSet(SubSeq(queue, 1, n)) \ ToSet(queue') \subseteq delivered
  /\ lost' = lost \cup ToSet(SubSeq(queue, n + 1, Len(queue)))
  /\ UNCHANGED <<delivered, acked>>

DQNext ==
  \/ \E e \in Events : Accept(e) \/ Spoil(e) \/ Acknowledge(e) \/ Deliver(e)
  \/ \E n \in 0..Len(queue) : \E kept \in Selections(n) : Forget(n, kept)

DQSpec == DQInit /\ [][DQNext]_dqVars
=============================================================================
