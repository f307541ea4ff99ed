------------------------- MODULE OrderFillsProofs -------------------------
(***************************************************************************)
(* What OrderStore stores and announces of the remaining quantity, as long *)
(* as no two executions read the same one: proofs for every set of         *)
(* requests.  The sum of what was executed is a fold over a finite set, so *)
(* they begin with lemmas about sums.                                      *)
(***************************************************************************)
EXTENDS OrderAnswersProofs, FiniteSetTheorems

-----------------------------------------------------------------------------
(* Sums over finite sets *)

\* g is the sum of t over the subsets of S.
IsTotal(g, t, S) ==
  /\ g \in [SUBSET S -> Int]
  /\ g[{}] = 0
  /\ \A U \in SUBSET S : \A x \in U : g[U] = t[x] + g[U \ {x}]

\* Subsets of a finite set have a least one among them: induction on finite sets.
LEMMA LeastSubset ==
  ASSUME NEW S, IsFiniteSet(S), NEW F, F \subseteq SUBSET S, F # {}
  PROVE  \E T \in F : \A U \in F : U \subseteq T => U = T
<1>1. IsWellFoundedOn(StrictSubsetOrdering(S), SUBSET S)
  BY FS_FiniteSubsetsOfFinite, FS_StrictSubsetOrderingWellFounded
<1>2. PICK T \in F : \A U \in F : <<U, T>> \notin StrictSubsetOrdering(S)
  BY <1>1, WFMin
<1>3. ASSUME NEW U \in F, U \subseteq T, U # T
      PROVE  FALSE
  <2>1. U \in SUBSET S /\ T \in SUBSET S
    OBVIOUS
  <2>2. <<U, T>> \in StrictSubsetOrdering(S)
    BY <1>3, <2>1 DEF StrictSubsetOrdering
  <2>3. QED
    BY <1>2, <2>2
<1>4. QED
  BY <1>3, Zenon

\* Integers over a finite set have a sum, one element at a time.
LEMMA TotalExists ==
  ASSUME NEW S, IsFiniteSet(S), NEW t, \A x \in S : t[x] \in Int
  PROVE  \E g : IsTotal(g, t, S)
<1>1. \E g : IsTotal(g, t, {})
  <2>1. IsTotal([U \in SUBSET {} |-> 0], t, {})
    BY DEF IsTotal
  <2>2. QED
    BY <2>1
<1>2. ASSUME NEW T \in SUBSET S, NEW g, IsTotal(g, t, T), NEW x \in S \ T
      PROVE  \E h : IsTotal(h, t, T \union {x})
  <2> DEFINE h == [U \in SUBSET (T \union {x}) |->
                     IF x \in U THEN t[x] + g[U \ {x}] ELSE g[U]]
  <2>1. h \in [SUBSET (T \union {x}) -> Int]
    <3>1. ASSUME NEW U \in SUBSET (T \union {x}) PROVE h[U] \in Int
      <4>1. CASE x \in U
        <5>1. U \ {x} \in SUBSET T
          OBVIOUS
        <5>2. g[U \ {x}] \in Int /\ t[x] \in Int
          BY <5>1, <1>2 DEF IsTotal
        <5>3. QED
          BY <4>1, <5>2
      <4>2. CASE x \notin U
        <5>1. U \in SUBSET T
          BY <4>2
        <5>2. QED
          BY <4>2, <5>1, <1>2 DEF IsTotal
      <4>3. QED
        BY <4>1, <4>2
    <3>2. QED
      BY <3>1
  <2>2. h[{}] = 0
    BY <1>2 DEF IsTotal
  <2>3. ASSUME NEW U \in SUBSET (T \union {x}), NEW y \in U
        PROVE  h[U] = t[y] + h[U \ {y}]
    <3>1. CASE y = x
      <4>1. U \ {x} \in SUBSET (T \union {x}) /\ x \notin U \ {x}
        OBVIOUS
      <4>2. h[U] = t[x] + g[U \ {x}]
        BY <3>1
      <4>3. h[U \ {x}] = g[U \ {x}]
        BY <4>1
      <4>4. QED
        BY <3>1, <4>2, <4>3
    <3>2. CASE y # x /\ x \in U
      <4>1. /\ U \ {x} \in SUBSET T /\ y \in U \ {x}
            /\ (U \ {x}) \ {y} = (U \ {y}) \ {x}
            /\ U \ {y} \in SUBSET (T \union {x}) /\ x \in U \ {y}
        BY <3>2
      <4>2. g[U \ {x}] = t[y] + g[(U \ {x}) \ {y}]
        BY <1>2, <4>1 DEF IsTotal
      <4>3. h[U] = t[x] + g[U \ {x}] /\ h[U \ {y}] = t[x] + g[(U \ {y}) \ {x}]
        BY <3>2, <4>1
      <4>4. g[(U \ {y}) \ {x}] \in Int /\ t[x] \in Int /\ t[y] \in Int
        <5>1. (U \ {y}) \ {x} \in SUBSET T /\ y \in S
          BY <4>1
        <5>2. QED
          BY <5>1, <1>2 DEF IsTotal
      <4>5. g[(U \ {x}) \ {y}] = g[(U \ {y}) \ {x}]
        BY <4>1, Zenon
      <4> HIDE DEF h
      <4>6. QED
        BY <4>2, <4>3, <4>4, <4>5
    <3>3. CASE x \notin U
      <4>1. /\ U \in SUBSET T /\ x \notin U \ {y}
            /\ U \ {y} \in SUBSET (T \union {x})
        BY <3>3
      <4>2. g[U] = t[y] + g[U \ {y}]
        BY <1>2, <4>1 DEF IsTotal
      <4>3. QED
        BY <3>3, <4>1, <4>2
    <3>4. QED
      BY <3>1, <3>2, <3>3
  <2>4. IsTotal(h, t, T \union {x})
    BY <2>1, <2>2, <2>3 DEF IsTotal
  <2>5. QED
    BY <2>4
<1> DEFINE Bad == {T \in SUBSET S : \A g : ~IsTotal(g, t, T)}
<1>3. SUFFICES ASSUME Bad # {} PROVE FALSE
  OBVIOUS
<1>4. PICK T \in Bad : \A U \in Bad : U \subseteq T => U = T
  <2>1. Bad \subseteq SUBSET S
    OBVIOUS
  <2> HIDE DEF Bad
  <2>2. QED
    BY <1>3, <2>1, LeastSubset
<1>5. PICK x \in T : TRUE
  BY <1>1
<1>6. T \ {x} \notin Bad /\ T \ {x} \in SUBSET S /\ x \in S \ (T \ {x})
  BY <1>4, <1>5
<1>7. PICK g : IsTotal(g, t, T \ {x})
  BY <1>6
<1>8. (T \ {x}) \union {x} = T
  BY <1>5
<1>9. QED
  BY <1>2, <1>6, <1>7, <1>8

\* It is what the fold computes, whatever element it takes next.
LEMMA TotalUnfolds ==
  ASSUME NEW S, IsFiniteSet(S), NEW t, NEW g, IsTotal(g, t, S)
  PROVE  Total(t, S) = g[S]
<1> DEFINE c(s) == CHOOSE x \in s : TRUE
           it == CHOOSE it : it = [s \in SUBSET S |-> IF s = {} THEN 0
                                                   ELSE t[c(s)] + it[s \ {c(s)}]]
<1>1. Total(t, S) = it[S]
  BY DEF Total, MapThenSumSet, MapThenFoldSet
<1>2. g = [s \in SUBSET S |-> IF s = {} THEN 0 ELSE t[c(s)] + g[s \ {c(s)}]]
  <2>1. ASSUME NEW U \in SUBSET S, U # {}
        PROVE  g[U] = t[c(U)] + g[U \ {c(U)}]
    <3>1. c(U) \in U /\ U \ {c(U)} \in SUBSET S
      BY <2>1
    <3> HIDE DEF c
    <3>2. QED
      BY <3>1 DEF IsTotal
  <2> HIDE DEF c
  <2>2. QED
    BY <2>1 DEF IsTotal
<1>3. it = [s \in SUBSET S |-> IF s = {} THEN 0 ELSE t[c(s)] + it[s \ {c(s)}]]
  BY <1>2
<1>4. \A U \in SUBSET S : U # {} => c(U) \in U
  OBVIOUS
<1> HIDE DEF c, it
<1> DEFINE Bad == {U \in SUBSET S : it[U] # g[U]}
<1>5. SUFFICES ASSUME Bad # {} PROVE FALSE
  BY <1>1
<1>6. PICK T \in Bad : \A U \in Bad : U \subseteq T => U = T
  <2>1. Bad \subseteq SUBSET S
    OBVIOUS
  <2> HIDE DEF Bad
  <2>2. QED
    BY <1>5, <2>1, LeastSubset
<1>7. T # {}
  BY <1>2, <1>3
<1>8. T \ {c(T)} \in SUBSET S /\ T \ {c(T)} \notin Bad
  BY <1>4, <1>6, <1>7
<1>9. it[T] = t[c(T)] + it[T \ {c(T)}] /\ g[T] = t[c(T)] + g[T \ {c(T)}]
  BY <1>2, <1>3, <1>7
<1>10. QED
  BY <1>6, <1>8, <1>9

LEMMA TotalEmpty == ASSUME NEW t PROVE Total(t, {}) = 0
<1>1. IsFiniteSet({})
  BY FS_EmptySet
<1>2. PICK g : IsTotal(g, t, {})
  BY <1>1, TotalExists
<1>3. QED
  BY <1>1, <1>2, TotalUnfolds DEF IsTotal

\* One more element adds its own integer.
LEMMA TotalAdd ==
  ASSUME NEW S, IsFiniteSet(S), NEW x, x \notin S, NEW t,
         \A y \in S \union {x} : t[y] \in Int
  PROVE  Total(t, S \union {x}) = t[x] + Total(t, S) /\ Total(t, S) \in Int
<1> DEFINE R == S \union {x}
<1>1. IsFiniteSet(R)
  BY FS_AddElement
<1>2. PICK g : IsTotal(g, t, R)
  BY <1>1, TotalExists
<1>3. Total(t, R) = g[R]
  BY <1>1, <1>2, TotalUnfolds
<1>4. R \ {x} = S /\ R \in SUBSET R /\ x \in R /\ S \in SUBSET R
  OBVIOUS
<1>5. g[R] = t[x] + g[S] /\ g[S] \in Int
  <2> HIDE DEF R
  <2>1. g[R] = t[x] + g[R \ {x}]
    BY <1>2, <1>4 DEF IsTotal
  <2>2. QED
    BY <1>2, <1>4, <2>1 DEF IsTotal
<1>6. IsTotal([U \in SUBSET S |-> g[U]], t, S)
  BY <1>2 DEF IsTotal
<1>7. Total(t, S) = g[S]
  BY <1>6, TotalUnfolds
<1>8. QED
  BY <1>3, <1>5, <1>7

\* A sum depends on nothing else.
LEMMA TotalSame ==
  ASSUME NEW S, IsFiniteSet(S), NEW t, NEW u, \A y \in S : t[y] \in Int /\ t[y] = u[y]
  PROVE  Total(t, S) = Total(u, S)
<1>1. PICK g : IsTotal(g, t, S)
  BY TotalExists
<1>2. IsTotal(g, u, S)
  BY <1>1 DEF IsTotal
<1>3. QED
  BY <1>1, <1>2, TotalUnfolds

-----------------------------------------------------------------------------
(* The invariant *)

\* The remaining quantity an execution read.
Read(f) == local[f].remaining + taken[f]

\* A remaining quantity the order has, or had when a later execution read it.
Known(o, x) == x = orders[o].remaining \/ \E g \in FillsOf(o) : x = Read(g)

\* The executions of an order went down from one remaining quantity to the next, and
\* whoever has the order in hand or announced it saw one of these.
Chained(o) ==
  /\ \A g \in FillsOf(o) : orders[o].remaining < Read(g)
  /\ \A f \in Fillers : InFlight(f) /\ local[f].id = o => Known(o, Read(f))
  /\ \A c \in Cancelers : InFlight(c) /\ local[c].id = o => Known(o, local[c].remaining)
  /\ \A e \in outbox : e.order = o => Known(o, e.remaining)

FillsInv ==
  /\ \A r \in committed : pc[r] = "done"
  /\ \A f \in Fillers : InFlight(f) => taken[f] > 0
  /\ \A e \in outbox : e.status = "FILLED" => e.remaining = 0
  /\ \A o \in Creators : FillsOf(o) # {} => Exists(o)
  /\ \A o \in Creators : Exists(o) /\ NoLostUpdate(o) => Chained(o)

-----------------------------------------------------------------------------
(* Steps that store nothing *)

\* A request that goes on, is answered or has just read the order.
LEMMA StoreNothing ==
  ASSUME IInv, FillsInv, NEW r \in Requests,
         UNCHANGED <<orders, outbox, committed>>, pc[r] # "done",
         \A q \in Requests \ {r} : pc'[q] = pc[q] /\ local'[q] = local[q],
         \A f \in Fillers \ {r} : taken'[f] = taken[f],
         r \in Fillers /\ InFlight(r)' =>
           /\ taken'[r] > 0
           /\ \/ InFlight(r) /\ local'[r] = local[r] /\ taken'[r] = taken[r]
              \/ local'[r].remaining + taken'[r] = orders[local'[r].id].remaining,
         r \in Cancelers /\ InFlight(r)' =>
              \/ InFlight(r) /\ local'[r] = local[r]
              \/ local'[r].remaining = orders[local'[r].id].remaining
  PROVE  FillsInv'
<1>1. \A q \in committed : q # r /\ pc'[q] = "done"
  BY DEF IInv, TxInv, TypeOK, FillsInv
<1>2. Fillers \subseteq Requests /\ Cancelers \subseteq Requests
  BY DEF Requests
<1>3. \A o : FillsOf(o)' = FillsOf(o)
  BY <1>1, <1>2 DEF FillsOf
<1>4. \A o : \A g \in FillsOf(o) : Read(g)' = Read(g)
  BY <1>1, <1>2 DEF FillsOf, Read
<1>5. \A o : NoLostUpdate(o)' => NoLostUpdate(o)
  BY <1>3, <1>4 DEF NoLostUpdate, Read
<1>6. \A f \in Fillers : InFlight(f)' => taken'[f] > 0
  BY <1>2 DEF FillsInv, InFlight
<1>7. ASSUME NEW o \in Creators, Exists(o)', NoLostUpdate(o)'
      PROVE  Chained(o)'
  <2>1. Chained(o)
    BY <1>5, <1>7 DEF FillsInv, Exists
  <2>2. \A x : Known(o, x) => (x = orders'[o].remaining \/ \E g \in FillsOf(o)' : x = Read(g)')
    BY <1>3, <1>4 DEF Known
  <2>3. \A g \in FillsOf(o)' : orders'[o].remaining < Read(g)'
    BY <1>3, <1>4, <2>1 DEF Chained
  <2>4. ASSUME NEW f \in Fillers, InFlight(f)', local'[f].id = o
        PROVE  Known(o, Read(f))'
    <3>1. CASE f # r
      <4>1. Known(o, Read(f)) /\ Read(f)' = Read(f)
        BY <1>2, <2>1, <2>4, <3>1 DEF Chained, InFlight, Read
      <4>2. QED
        BY <2>2, <4>1 DEF Known
    <3>2. CASE f = r /\ InFlight(r) /\ local'[r] = local[r] /\ taken'[r] = taken[r]
      <4>1. Known(o, Read(f)) /\ Read(f)' = Read(f)
        BY <2>1, <2>4, <3>2 DEF Chained, Read
      <4>2. QED
        BY <2>2, <4>1 DEF Known
    <3>3. CASE f = r /\ local'[r].remaining + taken'[r] = orders[local'[r].id].remaining
      BY <2>4, <3>3 DEF Known, Read
    <3>4. QED
      BY <2>4, <3>1, <3>2, <3>3
  <2>5. ASSUME NEW c \in Cancelers, InFlight(c)', local'[c].id = o
        PROVE  Known(o, local[c].remaining)'
    <3>1. CASE InFlight(c) /\ local'[c] = local[c]
      <4>1. Known(o, local[c].remaining)
        BY <2>1, <2>5, <3>1 DEF Chained
      <4>2. QED
        BY <2>2, <3>1, <4>1 DEF Known
    <3>2. CASE c = r /\ local'[r].remaining = orders[local'[r].id].remaining
      BY <2>5, <3>2 DEF Known
    <3>3. QED
      BY <1>2, <2>5, <3>1, <3>2 DEF InFlight
  <2>6. ASSUME NEW e \in outbox', e.order = o
        PROVE  Known(o, e.remaining)'
    <3>1. Known(o, e.remaining)
      BY <2>1, <2>6 DEF Chained
    <3>2. QED
      BY <2>2, <3>1 DEF Known
  <2>7. QED
    BY <2>3, <2>4, <2>5, <2>6 DEF Chained
<1>8. \A q \in committed' : pc'[q] = "done"
  BY <1>1
<1>9. \A e \in outbox' : e.status = "FILLED" => e.remaining = 0
  BY DEF FillsInv
<1>10. \A o \in Creators : FillsOf(o)' # {} => Exists(o)'
  BY <1>3 DEF FillsInv, Exists
<1>11. QED
  BY <1>6, <1>7, <1>8, <1>9, <1>10 DEF FillsInv

\* Going on or being answered changes nothing that was read.
LEMMA GoOnFills ==
  ASSUME IInv, FillsInv, NEW r \in Requests, InFlight(r),
         NEW label, Goto(r, label),
         UNCHANGED <<orders, outbox, local, taken, committed>>
  PROVE  FillsInv'
<1>1. \A q \in Requests \ {r} : pc'[q] = pc[q]
  BY DEF Goto, IInv, TxInv, TypeOK
<1>2. pc[r] # "done"
  BY DEF InFlight
<1>3. r \in Fillers => taken[r] > 0
  BY DEF FillsInv
<1>4. QED
  BY <1>1, <1>2, <1>3, StoreNothing

\* An execution has read the remaining quantity it subtracts from.
LEMMA StartFillFills ==
  ASSUME IInv, FillsInv, NEW r \in Fillers, StartFill(r)
  PROVE  FillsInv'
<1> DEFINE error(o, n) == IF Find(o) # OK THEN Find(o)
                          ELSE IF FillError(orders[o], n) # OK THEN FillError(orders[o], n)
                          ELSE ExecutionError(ApplyFill(orders[o], n))
<1>1. PICK o \in Creators, n \in FillSizes :
        /\ Enter(r, ApplyFill(orders[o], n), error(o, n))
        /\ taken' = [taken EXCEPT ![r] = IF error(o, n) = OK THEN n ELSE taken[r]]
  BY DEF StartFill
<1>2. r \in Requests /\ r \notin Cancelers
  BY RequestsAssumption DEF Requests
<1>3. orders[o] \in Row /\ orders[o].remaining \in Int /\ n \in Int
  BY ReadType, LimitsAssumption DEF IInv, TxInv, Row
<1>4. /\ pc[r] = "idle" /\ UNCHANGED <<orders, outbox, committed>>
      /\ \A q \in Requests \ {r} : pc'[q] = pc[q] /\ local'[q] = local[q]
      /\ \A f \in Fillers \ {r} : taken'[f] = taken[f]
  BY <1>1 DEF StartFill, Enter, Answer, Goto, IInv, TxInv, TypeOK
<1>5. CASE error(o, n) # OK
  <2>1. pc'[r] = "done"
    BY <1>1, <1>2, <1>5 DEF Enter, Answer, Goto, IInv, TxInv, TypeOK
  <2>2. ~InFlight(r)'
    BY <2>1 DEF InFlight
  <2>3. QED
    BY <1>2, <1>4, <2>2, StoreNothing
<1>6. CASE error(o, n) = OK
  <2>1. Find(o) = OK /\ FillError(orders[o], n) = OK
    BY <1>6
  <2>2. Exists(o) /\ orders[o].id = o
    BY <2>1 DEF Find, Exists, OK, IInv, TxInv, RowShape
  <2>3. ~(n <= 0)
    BY <2>1, Zenon DEF FillError, OK
  <2>4. local'[r] = ApplyFill(orders[o], n) /\ taken'[r] = n
    BY <1>1, <1>2, <1>6 DEF Enter, IInv, TxInv, TypeOK
  <2>5. /\ ApplyFill(orders[o], n).remaining = orders[o].remaining - n
        /\ ApplyFill(orders[o], n).id = o
    BY <1>3, <2>2 DEF ApplyFill, Row
  <2>6. taken'[r] > 0 /\ local'[r].remaining + taken'[r] = orders[local'[r].id].remaining
    BY <1>3, <2>3, <2>4, <2>5
  <2>7. QED
    BY <1>2, <1>4, <2>6, StoreNothing
<1>7. QED
  BY <1>5, <1>6

\* A cancel has read the remaining quantity it announces.
LEMMA StartCancelFills ==
  ASSUME IInv, FillsInv, NEW r \in Cancelers, StartCancel(r)
  PROVE  FillsInv'
<1> DEFINE error(o) == IF Find(o) # OK THEN Find(o)
                       ELSE IF CancelError(orders[o]) # OK THEN CancelError(orders[o])
                       ELSE CancelOrderError(Cancel(orders[o]))
<1>1. PICK o \in Creators : Enter(r, Cancel(orders[o]), error(o))
  BY DEF StartCancel
<1>2. r \in Requests /\ r \notin Fillers
  BY RequestsAssumption DEF Requests
<1>3. /\ pc[r] = "idle" /\ UNCHANGED <<orders, outbox, taken, committed>>
      /\ \A q \in Requests \ {r} : pc'[q] = pc[q] /\ local'[q] = local[q]
  BY <1>1 DEF StartCancel, Enter, Answer, Goto, IInv, TxInv, TypeOK
<1>4. CASE error(o) # OK
  <2>1. pc'[r] = "done"
    BY <1>1, <1>2, <1>4 DEF Enter, Answer, Goto, IInv, TxInv, TypeOK
  <2>2. ~InFlight(r)'
    BY <2>1 DEF InFlight
  <2>3. QED
    BY <1>2, <1>3, <2>2, StoreNothing
<1>5. CASE error(o) = OK
  <2>1. Find(o) = OK
    BY <1>5
  <2>2. Exists(o) /\ orders[o].id = o /\ orders[o] \in Row
    BY <2>1, ReadType DEF Find, Exists, OK, IInv, TxInv, RowShape
  <2>3. local'[r] = Cancel(orders[o])
    BY <1>1, <1>2, <1>5 DEF Enter, IInv, TxInv, TypeOK
  <2>4. Cancel(orders[o]).remaining = orders[o].remaining /\ Cancel(orders[o]).id = o
    BY <2>2 DEF Cancel, Row
  <2>5. QED
    BY <1>2, <1>3, <2>3, <2>4, StoreNothing
<1>6. QED
  BY <1>4, <1>5

\* A create has read nothing.
LEMMA StartCreateFills ==
  ASSUME IInv, FillsInv, NEW r \in Creators, StartCreate(r)
  PROVE  FillsInv'
<1>1. r \in Requests /\ r \notin Fillers /\ r \notin Cancelers
  BY RequestsAssumption DEF Requests
<1>2. /\ pc[r] = "idle" /\ UNCHANGED <<orders, outbox, taken, committed>>
      /\ \E o, error : Enter(r, o, error)
  BY DEF StartCreate
<1>3. \A q \in Requests \ {r} : pc'[q] = pc[q] /\ local'[q] = local[q]
  BY <1>2 DEF Enter, Answer, Goto, IInv, TxInv, TypeOK
<1>4. QED
  BY <1>1, <1>2, <1>3, StoreNothing

-----------------------------------------------------------------------------
(* Commits *)

\* What a commit changes that FillsInv speaks of.
LEMMA CommitReads ==
  ASSUME IInv, FillsInv, NEW r \in Requests, pc[r] = "commit", Apply(r),
         UNCHANGED <<local, taken>>
  PROVE  /\ r \notin committed
         /\ \A o : r \notin Fillers \/ local[r].id # o => FillsOf(o)' = FillsOf(o)
         /\ r \in Fillers => FillsOf(local[r].id)' = FillsOf(local[r].id) \union {r}
         /\ \A f \in Fillers : Read(f)' = Read(f)
<1>1. r \notin committed
  BY DEF FillsInv
<1>2. committed' = committed \union {r}
  BY DEF Apply
<1>3. \A o : r \notin Fillers \/ local[r].id # o => FillsOf(o)' = FillsOf(o)
  BY <1>2 DEF FillsOf
<1>4. r \in Fillers => FillsOf(local[r].id)' = FillsOf(local[r].id) \union {r}
  BY <1>2 DEF FillsOf
<1>5. \A f \in Fillers : Read(f)' = Read(f)
  BY DEF Read
<1>6. QED
  BY <1>1, <1>3, <1>4, <1>5

\* The event a commit adds, and the remaining quantity it reports.
LEMMA EventAdded ==
  ASSUME IInv, NEW r \in Requests, pc[r] = "commit", Apply(r), NEW e \in outbox'
  PROVE  \/ e \in outbox
         \/ /\ e.order = local[r].id /\ e.status = local[r].status
            /\ r \in Creators => e.remaining = RowToWrite(r).remaining
            /\ r \notin Creators => e.remaining = local[r].remaining
<1>1. CASE e \in outbox
  BY <1>1
<1>2. CASE e \notin outbox
  <2>1. e = OutboxEvent(r) /\ tx[r].row = RowToWrite(r)
    <3>1. /\ tx[r].row = RowToWrite(r)
          /\ tx[r].events = IF r \in Creators \/ local[r].status # "PENDING"
                            THEN {OutboxEvent(r)} ELSE {}
      BY CommitFacts DEF IInv
    <3>2. e \in tx[r].events
      BY <1>2 DEF Apply
    <3>3. QED
      BY <3>1, <3>2
  <2>2. e.order = local[r].id /\ e.status = local[r].status
    BY <2>1, EventFacts DEF IInv
  <2>3. r \in Creators => e.remaining = RowToWrite(r).remaining
    BY <2>1 DEF OutboxEvent, Announced, CreatedEvent
  <2>4. r \notin Creators => e.remaining = local[r].remaining
    BY <2>1 DEF OutboxEvent, Announced, UpdatedEvent
  <2>5. QED
    BY <2>2, <2>3, <2>4
<1>3. QED
  BY <1>1, <1>2

\* The order a create stores is nobody else's yet.
LEMMA CreateChains ==
  ASSUME IInv, FillsInv, NEW r \in Creators, pc[r] = "commit", Apply(r),
         pc' = [pc EXCEPT ![r] = "done"], UNCHANGED <<local, taken>>
  PROVE  Chained(r)'
<1>1. r \in Requests /\ r \notin Fillers
  BY RequestsAssumption DEF Requests
<1>2. local[r].id = r /\ ~Exists(r)
  BY <1>1, CommitFacts DEF IInv
<1>3. orders'[r] = RowToWrite(r)
  BY <1>1, <1>2, ApplyFacts
<1>4. FillsOf(r)' = {}
  BY <1>1, <1>2, CommitReads DEF FillsInv
<1>5. \A q \in Requests \ Creators : InFlight(q) => local[q].id # r
  BY <1>2 DEF IInv, TxInv, LocalShape
<1>6. \A q \in Requests \ Creators : InFlight(q)' => InFlight(q)
  BY DEF InFlight, IInv, TxInv, TypeOK
<1>7. /\ \A f \in Fillers : ~(InFlight(f)' /\ local'[f].id = r)
      /\ \A c \in Cancelers : ~(InFlight(c)' /\ local'[c].id = r)
  BY <1>5, <1>6, RequestsAssumption DEF Requests
<1>8. ASSUME NEW e \in outbox', e.order = r
      PROVE  Known(r, e.remaining)'
  <2>1. e \notin outbox
    BY <1>2, <1>8 DEF IInv, TxInv, OutboxMatchesOrders
  <2>2. e.remaining = orders'[r].remaining
    BY <1>1, <1>3, <2>1, EventAdded
  <2>3. QED
    BY <2>2 DEF Known
<1>9. QED
  BY <1>4, <1>7, <1>8 DEF Chained

\* A commit leaves who has read what of every other order, and a cancel's of its
\* own order too.
LEMMA OthersChain ==
  ASSUME IInv, FillsInv, NEW r \in Requests, pc[r] = "commit", Apply(r),
         pc' = [pc EXCEPT ![r] = "done"], UNCHANGED <<local, taken>>,
         NEW o \in Creators, local[r].id # o \/ r \in Cancelers,
         Exists(o)', NoLostUpdate(o)'
  PROVE  Chained(o)'
<1>1. r \in Cancelers => r \notin Fillers /\ r \notin Creators
  BY RequestsAssumption
<1>2. FillsOf(o)' = FillsOf(o) /\ \A f \in Fillers : Read(f)' = Read(f)
  BY <1>1, CommitReads
<1>3. orders'[o].remaining = orders[o].remaining
  <2>1. CASE local[r].id # o
    BY <2>1, ApplyFacts
  <2>2. CASE local[r].id = o /\ r \in Cancelers
    <3>1. orders'[o] = CancelRow(orders[o])
      BY <1>1, <2>2, ApplyFacts DEF RowToWrite
    <3>2. orders[o] \in Row
      BY ReadType DEF IInv, TxInv
    <3>3. QED
      BY <3>1, <3>2 DEF CancelRow, Row
  <2>3. QED
    BY <2>1, <2>2
<1>4. Exists(o)
  <2>1. CASE local[r].id # o
    BY <2>1, ApplyFacts DEF Exists
  <2>2. CASE local[r].id = o /\ r \in Cancelers
    BY <1>1, <2>2, CommitFacts DEF IInv
  <2>3. QED
    BY <2>1, <2>2
<1>5. NoLostUpdate(o)
  BY <1>2 DEF NoLostUpdate, Read, FillsOf
<1>6. Chained(o)
  BY <1>4, <1>5 DEF FillsInv
<1>7. FillsOf(o) \subseteq Fillers /\ Fillers \subseteq Requests /\ Cancelers \subseteq Requests
  BY DEF FillsOf, Requests
<1>8. \A x : Known(o, x) => (x = orders'[o].remaining \/ \E g \in FillsOf(o)' : x = Read(g)')
  BY <1>2, <1>3, <1>7 DEF Known
<1>9. \A q \in Requests : InFlight(q)' => InFlight(q)
  BY DEF InFlight, IInv, TxInv, TypeOK
<1>10. \A g \in FillsOf(o)' : orders'[o].remaining < Read(g)'
  BY <1>2, <1>3, <1>6, <1>7 DEF Chained
<1>11. ASSUME NEW f \in Fillers, InFlight(f)', local'[f].id = o
       PROVE  Known(o, Read(f))'
  <2>1. Known(o, Read(f)) /\ Read(f)' = Read(f)
    BY <1>2, <1>6, <1>7, <1>9, <1>11 DEF Chained
  <2>2. QED
    BY <1>8, <2>1 DEF Known
<1>12. ASSUME NEW c \in Cancelers, InFlight(c)', local'[c].id = o
       PROVE  Known(o, local[c].remaining)'
  <2>1. Known(o, local[c].remaining)
    BY <1>6, <1>7, <1>9, <1>12 DEF Chained
  <2>2. QED
    BY <1>8, <2>1 DEF Known
<1>13. ASSUME NEW e \in outbox', e.order = o
       PROVE  Known(o, e.remaining)'
  <2>1. Known(o, e.remaining)
    <3>1. CASE e \in outbox
      BY <1>6, <1>13, <3>1 DEF Chained
    <3>2. CASE e \notin outbox
      <4>1. local[r].id = o /\ r \notin Creators /\ e.remaining = local[r].remaining
        BY <1>1, <1>13, <3>2, EventAdded
      <4>2. r \in Cancelers /\ InFlight(r)
        BY <4>1 DEF InFlight
      <4>3. QED
        BY <1>6, <4>1, <4>2 DEF Chained
    <3>3. QED
      BY <3>1, <3>2
  <2>2. QED
    BY <1>8, <2>1 DEF Known
<1>14. QED
  BY <1>10, <1>11, <1>12, <1>13 DEF Chained

\* An execution that read what no other did has read what remains.
LEMMA ReadsWhatRemains ==
  ASSUME IInv, FillsInv, NEW r \in Fillers, pc[r] = "commit", Apply(r),
         UNCHANGED <<local, taken>>, NoLostUpdate(local[r].id)'
  PROVE  /\ local[r].id \in Creators /\ Exists(local[r].id) /\ NoLostUpdate(local[r].id)
         /\ Read(r) = orders[local[r].id].remaining
         /\ orders'[local[r].id].remaining = local[r].remaining
<1> DEFINE o == local[r].id
<1>1. r \in Requests /\ r \notin Creators /\ r \notin Cancelers
  BY RequestsAssumption DEF Requests
<1>2. o \in Creators /\ Exists(o) /\ InFlight(r)
  BY <1>1, CommitFacts DEF IInv, InFlight
<1>3. /\ r \notin committed
      /\ FillsOf(o)' = FillsOf(o) \union {r} /\ \A f \in Fillers : Read(f)' = Read(f)
  BY <1>1, CommitReads
<1>4. FillsOf(o) \subseteq Fillers /\ r \notin FillsOf(o)
  BY <1>3 DEF FillsOf
<1>5. \A f, g \in FillsOf(o)' : f # g => Read(f)' # Read(g)'
  BY DEF NoLostUpdate, Read
<1>6. \A f, g \in FillsOf(o) \union {r} : f # g => Read(f) # Read(g)
  BY <1>3, <1>4, <1>5
<1>7. NoLostUpdate(o)
  BY <1>6 DEF NoLostUpdate, Read
<1>8. Chained(o)
  BY <1>2, <1>7 DEF FillsInv
<1>9. Read(r) = orders[o].remaining
  <2>1. Known(o, Read(r))
    BY <1>2, <1>8 DEF Chained
  <2>2. QED
    BY <1>4, <1>6, <2>1 DEF Known
<1>10. orders'[o].remaining = local[r].remaining
  <2>1. orders'[o] = ExecutionRow(orders[o], local[r]) /\ orders[o] \in Row
    BY <1>1, <1>2, ApplyFacts, ReadType DEF RowToWrite, IInv, TxInv
  <2>2. QED
    BY <2>1 DEF ExecutionRow, Row
<1>11. QED
  BY <1>2, <1>7, <1>9, <1>10

\* An execution that read what no other did has read what remains, and leaves less.
LEMMA FillChains ==
  ASSUME IInv, FillsInv, NEW r \in Fillers, pc[r] = "commit", Apply(r),
         pc' = [pc EXCEPT ![r] = "done"], UNCHANGED <<local, taken>>,
         NoLostUpdate(local[r].id)'
  PROVE  Chained(local[r].id)'
<1> DEFINE o == local[r].id
<1>1. /\ r \in Requests /\ r \notin Creators /\ r \notin Cancelers
      /\ Fillers \subseteq Requests /\ Cancelers \subseteq Requests
  BY RequestsAssumption DEF Requests
<1>2. /\ o \in Creators /\ Exists(o) /\ InFlight(r) /\ Chained(o)
      /\ Read(r) = orders[o].remaining /\ orders'[o].remaining = local[r].remaining
  BY ReadsWhatRemains DEF InFlight, FillsInv
<1>3. FillsOf(o)' = FillsOf(o) \union {r} /\ \A f \in Fillers : Read(f)' = Read(f)
  BY <1>1, CommitReads
<1>4. FillsOf(o) \subseteq Fillers
  BY DEF FillsOf
<1>5. orders[o] \in Row /\ local[r] \in Row /\ taken[r] \in Int
  BY <1>1, <1>2, ReadType DEF IInv, TxInv, TypeOK
<1>6. taken[r] > 0 /\ local[r].remaining \in Int /\ orders[o].remaining \in Int
  BY <1>2, <1>5 DEF FillsInv, Row
<1>7. orders'[o].remaining < Read(r) /\ orders'[o].remaining < orders[o].remaining
  BY <1>2, <1>5, <1>6 DEF Read
<1>8. ASSUME NEW g \in FillsOf(o)'
       PROVE  orders'[o].remaining < Read(g)'
  <2>1. CASE g = r
    BY <1>3, <1>7, <2>1
  <2>2. CASE g # r
    <3>1. g \in FillsOf(o) /\ Read(g)' = Read(g)
      BY <1>3, <1>4, <1>8, <2>2
    <3>2. orders[o].remaining < Read(g)
      BY <1>2, <3>1 DEF Chained
    <3>3. Read(g) \in Int
      <4>1. local[g] \in Row /\ taken[g] \in Int
        BY <1>1, <1>4, <3>1, ReadType DEF IInv, TxInv, TypeOK
      <4>2. local[g].remaining \in Int
        BY <4>1 DEF Row
      <4>3. QED
        BY <4>1, <4>2 DEF Read
    <3>4. QED
      BY <1>2, <1>6, <1>7, <3>1, <3>2, <3>3
  <2>3. QED
    BY <2>1, <2>2
<1>9. \A x : Known(o, x) => \E g \in FillsOf(o)' : x = Read(g)'
  BY <1>2, <1>3, <1>4 DEF Known
<1>10. \A q \in Requests : InFlight(q)' => InFlight(q)
  BY DEF InFlight, IInv, TxInv, TypeOK
<1>11. ASSUME NEW f \in Fillers, InFlight(f)', local'[f].id = o
       PROVE  Known(o, Read(f))'
  <2>1. Known(o, Read(f)) /\ Read(f)' = Read(f)
    BY <1>1, <1>2, <1>3, <1>10, <1>11 DEF Chained
  <2>2. QED
    BY <1>9, <2>1 DEF Known
<1>12. ASSUME NEW c \in Cancelers, InFlight(c)', local'[c].id = o
       PROVE  Known(o, local[c].remaining)'
  <2>1. Known(o, local[c].remaining)
    BY <1>1, <1>2, <1>10, <1>12 DEF Chained
  <2>2. QED
    BY <1>9, <2>1 DEF Known
<1>13. ASSUME NEW e \in outbox', e.order = o
       PROVE  Known(o, e.remaining)'
  <2>1. CASE e \in outbox
    <3>1. Known(o, e.remaining)
      BY <1>2, <1>13, <2>1 DEF Chained
    <3>2. QED
      BY <1>9, <3>1 DEF Known
  <2>2. CASE e \notin outbox
    <3>1. e.remaining = orders'[o].remaining
      BY <1>1, <1>2, <2>2, EventAdded
    <3>2. QED
      BY <3>1 DEF Known
  <2>3. QED
    BY <2>1, <2>2
<1>14. QED
  BY <1>8, <1>11, <1>12, <1>13 DEF Chained

\* A commit keeps the invariant.
LEMMA CommitFills ==
  ASSUME IInv, FillsInv, NEW r \in Requests, pc[r] = "commit", Apply(r),
         pc' = [pc EXCEPT ![r] = "done"], UNCHANGED <<local, taken>>
  PROVE  FillsInv'
<1>1. /\ Fillers \subseteq Requests /\ InFlight(r)
      /\ \A q \in Requests : pc'[q] = IF q = r THEN "done" ELSE pc[q]
  BY DEF Requests, InFlight, IInv, TxInv, TypeOK
<1>2. \A q \in committed' : pc'[q] = "done"
  <2>1. committed' = committed \union {r} /\ committed \subseteq Requests
    BY DEF Apply, IInv, TxInv, TypeOK
  <2>2. QED
    BY <1>1, <2>1 DEF FillsInv
<1>3. \A f \in Fillers : InFlight(f)' => taken'[f] > 0
  BY <1>1 DEF InFlight, FillsInv
<1>4. ASSUME NEW e \in outbox', e.status = "FILLED"
      PROVE  e.remaining = 0
  <2>1. CASE e \in outbox
    BY <1>4, <2>1 DEF FillsInv
  <2>2. CASE e \notin outbox
    <3>1. local[r].status = "FILLED" /\ (r \notin Creators => e.remaining = local[r].remaining)
      BY <1>4, <2>2, EventAdded
    <3>2. r \in Fillers
      BY <1>1, <3>1 DEF IInv, TxInv, LocalShape, Requests
    <3>3. r \notin Creators
      BY <3>2, RequestsAssumption
    <3>4. local[r].remaining = 0
      BY <1>1, <3>1, <3>2 DEF IInv, LocalChecked
    <3>5. QED
      BY <3>1, <3>3, <3>4
  <2>3. QED
    BY <2>1, <2>2
<1>5. ASSUME NEW o \in Creators, FillsOf(o)' # {}
      PROVE  Exists(o)'
  <2>1. Exists(o)
    <3>1. CASE r \notin Fillers \/ local[r].id # o
      BY <1>5, <3>1, CommitReads DEF FillsInv
    <3>2. CASE r \in Fillers /\ local[r].id = o
      BY <3>2, RequestsAssumption, CommitFacts DEF IInv
    <3>3. QED
      BY <3>1, <3>2
  <2>2. QED
    BY <2>1, ApplyFacts
<1>6. ASSUME NEW o \in Creators, Exists(o)', NoLostUpdate(o)'
      PROVE  Chained(o)'
  <2>1. CASE local[r].id # o \/ r \in Cancelers
    BY <1>6, <2>1, OthersChain
  <2>2. CASE local[r].id = o /\ r \in Creators
    <3>1. o = r
      BY <2>2, CommitFacts DEF IInv
    <3>2. QED
      BY <2>2, <3>1, CreateChains
  <2>3. CASE local[r].id = o /\ r \in Fillers
    BY <1>6, <2>3, FillChains
  <2>4. QED
    BY <2>1, <2>2, <2>3 DEF Requests
<1>7. QED
  BY <1>2, <1>3, <1>4, <1>5, <1>6 DEF FillsInv

-----------------------------------------------------------------------------
(* The theorem *)

LEMMA FillsInit == Init => FillsInv
<1> SUFFICES ASSUME Init PROVE FillsInv
  OBVIOUS
<1>1. \A r \in Requests : ~InFlight(r)
  BY DEF Init, InFlight
<1>2. Fillers \subseteq Requests
  BY DEF Requests
<1>3. committed = {} /\ outbox = {} /\ \A o \in Creators : ~Exists(o)
  BY DEF Init, Exists
<1>4. \A o : FillsOf(o) = {}
  BY <1>3 DEF FillsOf
<1>5. QED
  BY <1>1, <1>2, <1>3, <1>4 DEF FillsInv

LEMMA FillsStep == IInv /\ FillsInv /\ [Next]_vars => FillsInv'
<1> SUFFICES ASSUME IInv, FillsInv, [Next]_vars PROVE FillsInv'
  OBVIOUS
<1>1. CASE UNCHANGED vars
  <2>1. \A o : FillsOf(o)' = FillsOf(o)
    BY <1>1 DEF vars, FillsOf
  <2>2. \A f : Read(f)' = Read(f) /\ (InFlight(f)' <=> InFlight(f))
    BY <1>1 DEF vars, Read, InFlight
  <2>3. \A o, x : Known(o, x)' <=> Known(o, x)
    BY <1>1, <2>1, <2>2 DEF vars, Known
  <2>4. \A o : (NoLostUpdate(o)' <=> NoLostUpdate(o)) /\ (Exists(o)' <=> Exists(o))
    BY <1>1, <2>1 DEF vars, NoLostUpdate, Exists
  <2>5. \A o : Chained(o) => Chained(o)'
    BY <1>1, <2>1, <2>2, <2>3 DEF vars, Chained
  <2>6. QED
    BY <1>1, <2>1, <2>2, <2>4, <2>5 DEF vars, FillsInv
<1>2. CASE Next
  <2>1. PICK r \in Requests : Step(r) \/ CommitUnacknowledged(r) \/ Fail(r)
    BY <1>2 DEF Next
  <2>2. CASE Commit(r) \/ CommitUnacknowledged(r)
    BY <2>2, CommitFills DEF Commit, CommitUnacknowledged, Answer, Goto
  <2>3. CASE (r \in Creators /\ StartCreate(r)) \/ (r \in Cancelers /\ StartCancel(r))
             \/ (r \in Fillers /\ StartFill(r))
    BY <2>3, StartCreateFills, StartCancelFills, StartFillFills
  <2>4. ASSUME /\ UNCHANGED <<orders, outbox, local, taken, committed>> /\ InFlight(r)
               /\ \E label \in Labels : Goto(r, label)
        PROVE  FillsInv'
    BY <2>4, GoOnFills
  <2>5. CASE InsertOrder(r) \/ DuplicateKey(r) \/ GetExisting(r)
    BY <2>4, <2>5 DEF InsertOrder, DuplicateKey, GetExisting, Answer, Labels, InFlight
  <2>6. CASE CancelUpdate(r) \/ FillUpdate(r)
    BY <2>4, <2>6 DEF CancelUpdate, FillUpdate, Update, Labels, InFlight
  <2>7. CASE BeginTx(r) \/ Diagnose(r) \/ InsertEvent(r) \/ RefuseEvent(r) \/ Fail(r)
    BY <2>4, <2>7 DEF BeginTx, Diagnose, InsertEvent, RefuseEvent, Fail, InFlight, Answer,
                      Labels
  <2>8. QED
    BY <2>1, <2>2, <2>3, <2>5, <2>6, <2>7 DEF Step
<1>3. QED
  BY <1>1, <1>2

\* Without lost updates an event of the outbox never reports less than what remains
\* of its order, and a FILLED one reports exactly zero, although CancelOrder announces
\* what it read before its transaction.
THEOREM RemainingAnnounced == Spec => []AnnouncedRemainingNotLow
<1>1. IInv /\ FillsInv => AnnouncedRemainingNotLow
  <2> SUFFICES ASSUME IInv, FillsInv, NEW e \in outbox, NoLostUpdate(e.order)
               PROVE  /\ orders[e.order].remaining <= e.remaining
                      /\ e.status = "FILLED" => e.remaining = 0
    BY DEF AnnouncedRemainingNotLow
  <2>1. e.order \in Creators /\ Exists(e.order)
    BY DEF IInv, TxInv, OutboxMatchesOrders
  <2>2. Chained(e.order)
    BY <2>1 DEF FillsInv
  <2>3. Known(e.order, e.remaining)
    BY <2>2 DEF Chained
  <2>4. orders[e.order].remaining \in Int /\ e.remaining \in Int
    BY <2>1, ReadType DEF IInv, TxInv, TypeOK, Row, Event
  <2>5. orders[e.order].remaining <= e.remaining
    BY <2>2, <2>3, <2>4 DEF Chained, Known
  <2>6. e.status = "FILLED" => e.remaining = 0
    BY DEF FillsInv
  <2>7. QED
    BY <2>5, <2>6
<1>2. QED
  BY <1>1, FillsInit, FillsStep, Invariance, PTL DEF Spec

-----------------------------------------------------------------------------
(* What remains is the quantity less what was executed *)

\* Only finitely many requests have committed, and their quantities add up.
SumInv == IsFiniteSet(committed) /\ FillsConserved

\* What the executions of an order took can be added up.
LEMMA FillsFinite ==
  ASSUME IInv, SumInv, NEW o
  PROVE  /\ IsFiniteSet(FillsOf(o)) /\ FillsOf(o) \subseteq Fillers
         /\ \A f \in Fillers : taken[f] \in Int
<1>1. FillsOf(o) \in SUBSET committed
  BY DEF FillsOf
<1>2. IsFiniteSet(FillsOf(o))
  BY <1>1, FS_Subset DEF SumInv
<1>3. QED
  BY <1>2 DEF FillsOf, IInv, TxInv, TypeOK

\* A step that commits nothing changes no sum.
LEMMA StoreNothingSums ==
  ASSUME IInv, FillsInv, SumInv, NEW r \in Requests,
         UNCHANGED <<orders, committed>>, r \notin committed,
         \A q \in Requests \ {r} : local'[q] = local[q],
         \A f \in Fillers \ {r} : taken'[f] = taken[f]
  PROVE  SumInv'
<1>1. Fillers \subseteq Requests
  BY DEF Requests
<1>2. \A o : FillsOf(o)' = FillsOf(o)
  BY <1>1 DEF FillsOf
<1>3. \A o : \A f \in FillsOf(o) : taken'[f] = taken[f] /\ local'[f] = local[f]
  BY <1>1 DEF FillsOf
<1>4. ASSUME NEW o \in Creators, Exists(o)', NoLostUpdate(o)'
      PROVE  orders'[o].remaining = orders'[o].terms.qty - Total(taken', FillsOf(o)')
  <2>1. Exists(o) /\ NoLostUpdate(o)
    BY <1>2, <1>3, <1>4 DEF Exists, NoLostUpdate
  <2>2. Total(taken, FillsOf(o)) = Total(taken', FillsOf(o))
    BY <1>3, FillsFinite, TotalSame
  <2>3. orders[o].remaining = orders[o].terms.qty - Total(taken, FillsOf(o))
    BY <2>1 DEF SumInv, FillsConserved
  <2>4. QED
    BY <1>2, <2>2, <2>3
<1>5. FillsConserved'
  BY <1>4 DEF FillsConserved
<1>6. QED
  BY <1>5 DEF SumInv

\* A commit adds what it took to the sum of its order, and takes it from what remains.
LEMMA CommitSums ==
  ASSUME IInv, FillsInv, SumInv, NEW r \in Requests, pc[r] = "commit", Apply(r),
         UNCHANGED <<local, taken>>
  PROVE  SumInv'
<1> DEFINE id == local[r].id
<1>1. /\ id \in Creators /\ orders'[id] = RowToWrite(r)
      /\ \A p \in Creators \ {id} : orders'[p] = orders[p]
      /\ orders[id] \in Row
  BY ApplyFacts, ReadType DEF IInv, TxInv
<1>2. IsFiniteSet(committed')
  BY FS_AddElement DEF SumInv, Apply
<1>3. ASSUME NEW o \in Creators, Exists(o)', NoLostUpdate(o)'
      PROVE  orders'[o].remaining = orders'[o].terms.qty - Total(taken, FillsOf(o)')
  <2>1. CASE o # id \/ r \in Cancelers
    <3>1. r \in Cancelers => r \notin Fillers /\ r \notin Creators
      BY RequestsAssumption
    <3>2. FillsOf(o)' = FillsOf(o)
      BY <2>1, <3>1, CommitReads
    <3>3. NoLostUpdate(o)
      BY <1>3, <3>2 DEF NoLostUpdate, FillsOf
    <3>4. /\ orders'[o].remaining = orders[o].remaining
          /\ orders'[o].terms = orders[o].terms /\ Exists(o)
      <4>1. CASE o # id
        BY <1>1, <1>3, <4>1 DEF Exists
      <4>2. CASE o = id /\ r \in Cancelers
        <5>1. orders'[o] = CancelRow(orders[o])
          BY <1>1, <3>1, <4>2 DEF RowToWrite
        <5>2. Exists(o)
          BY <3>1, <4>2, CommitFacts DEF IInv
        <5>3. QED
          BY <1>1, <4>2, <5>1, <5>2 DEF CancelRow, Row
      <4>3. QED
        BY <2>1, <4>1, <4>2
    <3>5. QED
      BY <3>2, <3>3, <3>4 DEF SumInv, FillsConserved
  <2>2. CASE o = id /\ r \in Creators
    <3>1. r \notin Fillers /\ ~Exists(o)
      BY <2>2, RequestsAssumption, CommitFacts DEF IInv
    <3>2. FillsOf(o)' = {}
      BY <3>1, CommitReads DEF FillsInv
    <3>3. local[r] \in Row /\ orders'[o] = InsertRow(local[r])
      BY <1>1, <2>2, ReadType DEF RowToWrite, IInv, TxInv
    <3>4. orders'[o].remaining = orders'[o].terms.qty
      BY <3>3 DEF InsertRow, Row
    <3>5. orders'[o].terms.qty \in Int
      BY <3>3, InsertType, QtyType DEF Row
    <3>6. Total(taken, FillsOf(o)') = 0
      BY <3>2, TotalEmpty
    <3>7. QED
      BY <3>4, <3>5, <3>6
  <2>3. CASE o = id /\ r \in Fillers
    <3>1. /\ Exists(o) /\ NoLostUpdate(o) /\ Read(r) = orders[o].remaining
          /\ orders'[o].remaining = local[r].remaining
      BY <1>3, <2>3, ReadsWhatRemains
    <3>2. r \notin committed /\ FillsOf(o)' = FillsOf(o) \union {r}
      BY <2>3, CommitReads
    <3>3. orders[o].remaining = orders[o].terms.qty - Total(taken, FillsOf(o))
      BY <3>1 DEF SumInv, FillsConserved
    <3>4. r \notin FillsOf(o) /\ FillsOf(o) \subseteq Fillers
      BY <3>2 DEF FillsOf
    <3>5. IsFiniteSet(FillsOf(o)) /\ \A f \in FillsOf(o) \union {r} : taken[f] \in Int
      BY <2>3, <3>4, FillsFinite
    <3>6. /\ Total(taken, FillsOf(o)') = taken[r] + Total(taken, FillsOf(o))
          /\ Total(taken, FillsOf(o)) \in Int
      BY <3>2, <3>4, <3>5, TotalAdd
    <3>7. orders'[o].terms = orders[o].terms
      BY <1>1, <2>3, <3>1, ApplyFacts
    <3>8. orders[o].terms.qty \in Int /\ local[r].remaining \in Int /\ taken[r] \in Int
      <4>1. orders[o].terms \in Terms \union {NoTerms} /\ local[r] \in Row
        BY <1>1, <2>3, ReadType DEF Row, IInv, TxInv
      <4>2. local[r].remaining \in Int
        BY <4>1 DEF Row
      <4>3. QED
        BY <3>5, <4>1, <4>2, QtyType
    <3>9. local[r].remaining + taken[r] = orders[o].terms.qty - Total(taken, FillsOf(o))
      BY <3>1, <3>3 DEF Read
    <3>10. local[r].remaining = orders[o].terms.qty - (taken[r] + Total(taken, FillsOf(o)))
      BY <3>6, <3>8, <3>9
    <3>11. QED
      BY <3>1, <3>6, <3>7, <3>10
  <2>4. QED
    BY <2>1, <2>2, <2>3 DEF Requests
<1>4. FillsConserved'
  BY <1>3 DEF FillsConserved
<1>5. QED
  BY <1>2, <1>4 DEF SumInv

LEMMA SumInit == Init => SumInv
<1> SUFFICES ASSUME Init PROVE SumInv
  OBVIOUS
<1>1. committed = {} /\ \A o \in Creators : ~Exists(o)
  BY DEF Init, Exists
<1>2. QED
  BY <1>1, FS_EmptySet DEF SumInv, FillsConserved

LEMMA SumStep == IInv /\ FillsInv /\ SumInv /\ [Next]_vars => SumInv'
<1> SUFFICES ASSUME IInv, FillsInv, SumInv, [Next]_vars PROVE SumInv'
  OBVIOUS
<1>1. CASE UNCHANGED vars
  BY <1>1 DEF vars, SumInv, FillsConserved, FillsOf, NoLostUpdate, Exists
<1>2. CASE Next
  <2>1. PICK r \in Requests : Step(r) \/ CommitUnacknowledged(r) \/ Fail(r)
    BY <1>2 DEF Next
  <2>2. CASE Commit(r) \/ CommitUnacknowledged(r)
    BY <2>2, CommitSums DEF Commit, CommitUnacknowledged
  <2>3. ASSUME UNCHANGED <<orders, committed>>, pc[r] # "done",
               \A q \in Requests \ {r} : local'[q] = local[q],
               \A f \in Fillers \ {r} : taken'[f] = taken[f]
        PROVE  SumInv'
    BY <2>3, StoreNothingSums DEF FillsInv
  <2>4. CASE r \in Fillers /\ StartFill(r)
    <3>1. PICK n, order, error : /\ Enter(r, order, error)
                                 /\ taken' = [taken EXCEPT ![r] = n]
      BY <2>4 DEF StartFill
    <3>2. UNCHANGED <<orders, committed>> /\ pc[r] # "done"
      BY <2>4 DEF StartFill
    <3>3. \A q \in Requests \ {r} : local'[q] = local[q]
      BY <3>1 DEF Enter, IInv, TxInv, TypeOK
    <3>4. \A f \in Fillers \ {r} : taken'[f] = taken[f]
      BY <3>1 DEF IInv, TxInv, TypeOK
    <3>5. QED
      BY <2>3, <3>2, <3>3, <3>4
  <2>5. CASE (r \in Creators /\ StartCreate(r)) \/ (r \in Cancelers /\ StartCancel(r))
    <3>1. UNCHANGED <<orders, taken, committed>> /\ pc[r] # "done"
      BY <2>5 DEF StartCreate, StartCancel
    <3>2. \E order, error : Enter(r, order, error)
      BY <2>5 DEF StartCreate, StartCancel
    <3>3. \A q \in Requests \ {r} : local'[q] = local[q]
      BY <3>2 DEF Enter, IInv, TxInv, TypeOK
    <3>4. QED
      BY <2>3, <3>1, <3>3
  <2>6. CASE \/ InsertOrder(r) \/ DuplicateKey(r) \/ GetExisting(r) \/ CancelUpdate(r)
             \/ FillUpdate(r) \/ BeginTx(r) \/ Diagnose(r) \/ InsertEvent(r)
             \/ RefuseEvent(r) \/ Fail(r)
    <3>1. UNCHANGED <<orders, local, taken, committed>> /\ pc[r] # "done"
      BY <2>6 DEF InsertOrder, DuplicateKey, GetExisting, CancelUpdate, FillUpdate, Update,
                  BeginTx, Diagnose, InsertEvent, RefuseEvent, Fail, InFlight
    <3>2. QED
      BY <2>3, <3>1
  <2>7. QED
    BY <2>1, <2>2, <2>4, <2>5, <2>6 DEF Step
<1>3. QED
  BY <1>1, <1>2

\* Nothing is executed twice or lost except by executions that read the same remaining
\* quantity: without these, what UpdateOrderExecution leaves of an order is its quantity
\* less all that committed, for any number of executions, cancels and failures.
THEOREM FillsAddUp == Spec => []FillsConserved
<1>1. IInv /\ FillsInv /\ SumInv => FillsConserved
  BY DEF SumInv
<1>2. QED
  BY <1>1, InvInit, InvStep, FillsInit, FillsStep, SumInit, SumStep, PTL DEF Spec
=============================================================================
