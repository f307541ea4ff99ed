---------------------------- MODULE AtLeastOnce ----------------------------
(***************************************************************************)
(* What the relay between the outbox and Kafka promises: only offered      *)
(* events are delivered, perhaps repeatedly, the log only grows, and an    *)
(* event is settled once and only after it has been delivered.             *)
(***************************************************************************)
EXTENDS Sequences, Integers

CONSTANT Events

VARIABLES
  offered,  \* events to deliver
  log,      \* deliveries made, in order
  settled   \* events known to be delivered

vars == <<offered, log, settled>>

Init == offered = {} /\ log = <<>> /\ settled = {}

Offer(e) ==
  /\ e \notin offered
  /\ offered' = offered \union {e}
  /\ UNCHANGED <<log, settled>>

\* A delivery may reach the log more than once.
Deliver(e) ==
  /\ e \in offered
  /\ \/ log' = Append(log, e)
     \/ log' = log \o <<e, e>>
  /\ UNCHANGED <<offered, settled>>

Settle(e) ==
  /\ e \notin settled
  /\ \E i \in DOMAIN log : log[i] = e
  /\ settled' = settled \union {e}
  /\ UNCHANGED <<offered, log>>

Next == \E e \in Events : Offer(e) \/ Deliver(e) \/ Settle(e)

Spec == Init /\ [][Next]_vars
=============================================================================
