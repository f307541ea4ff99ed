---------------------------- MODULE OrderLedger ----------------------------
(***************************************************************************)
(* What the order service promises about its tables, with every request a  *)
(* single atomic step: an order is opened at most once per idempotency key *)
(* and closed at most once, and each of these writes its announcement to   *)
(* the outbox in the same step (ROADMAP.md, Phase 1).                      *)
(***************************************************************************)
CONSTANTS
  Ids,     \* order ids
  Keys,    \* idempotency keys, NoKey among them
  NoKey,   \* the absent key, which any number of orders share
  Marks    \* identities of announcements

VARIABLES
  book,    \* order id -> [status, key]; status "" while not opened
  log      \* announcements: [id, order, status]

vars == <<book, log>>

Unopened == [status |-> "", key |-> NoKey]

Init ==
  /\ book = [o \in Ids |-> Unopened]
  /\ log = {}

\* An announcement of a status, under an identity not used before.
Announce(o, status) ==
  \E m \in Marks :
    /\ \A a \in log : a.id # m
    /\ log' = log \union {[id |-> m, order |-> o, status |-> status]}

Open(o, k) ==
  /\ book[o] = Unopened
  /\ k # NoKey => \A p \in Ids : book[p].key # k
  /\ book' = [book EXCEPT ![o] = [status |-> "PENDING", key |-> k]]
  /\ Announce(o, "PENDING")

Close(o, status) ==
  /\ book[o].status = "PENDING"
  /\ book' = [book EXCEPT ![o].status = status]
  /\ Announce(o, status)

Next == \E o \in Ids :
          \/ \E k \in Keys : Open(o, k)
          \/ \E status \in {"FILLED", "CANCELED"} : Close(o, status)

Spec == Init /\ [][Next]_vars
=============================================================================
