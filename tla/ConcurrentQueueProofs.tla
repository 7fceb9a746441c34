------------------------ MODULE ConcurrentQueueProofs ------------------------
(***************************************************************************)
(* No consumer gets past the elements there are, nobody has a block that   *)
(* somebody else has, a consumer takes out the elements it claimed, and    *)
(* when no call runs nothing was lost: the optimistic dequeue and the      *)
(* block management of the vendored queue, for every set of producers of   *)
(* either kind, of consumers, of blocks, every block size and every count  *)
(* they ask for.                                                           *)
(*                                                                         *)
(* A consumer reads the overcommit, raises the optimistic count, reads the *)
(* tail, and raises overcommit or head, each at a time of its own.  What   *)
(* the calls between these steps may still get is a sum over consumers; it *)
(* is bounded not for the tail as it is only, but for every tail that may  *)
(* come, since a later tail gives more to all of them at once (IInv).      *)
(*                                                                         *)
(* A block belongs to the producer in whose index or ring it is as long as *)
(* it has elements to come or to go.  Those are the indices from the head  *)
(* on and those that a call claimed and has not counted as dequeued yet    *)
(* (Rem); the block counts all the others as gone.  So the call that       *)
(* counts the last one is the only one to release the block, and the       *)
(* producer that finds all of them gone can use it again (BlockInv).       *)
(*                                                                         *)
(* So a cell has one index at a time, and what is written there stays      *)
(* until the call that claimed the index takes it out (CellInv).           *)
(*                                                                         *)
(* No block is lost either: what an index or a ring still has is in use or *)
(* empty, and a producer whose enqueues never failed halfway counts the    *)
(* blocks it has (KeepInv).  With no call running that gives what the      *)
(* destructors find.                                                       *)
(***************************************************************************)
EXTENDS ConcurrentQueue, FiniteSetTheorems, SequenceTheorems, TLAPS

(* The total of a function into Nat, as the number of its units.            *)
Units(f) == UNION {{c} \X (1..f[c]) : c \in DOMAIN f}
Total(f) == Cardinality(Units(f))

(* What a call added to the optimistic count of p and has not given back or *)
(* advanced the head by, and what it gets of it when the tail is t.         *)
Owing(call, p) == call.pc \in {"check", "back", "head"} /\ call.prod = p
Clamp(n, max) == IF n <= 0 THEN 0 ELSE Least(n, max)
Debt(call, p) ==
  IF ~Owing(call, p) THEN 0
  ELSE IF call.pc = "check" THEN call.want ELSE call.got + call.excess
Share(call, p, t) ==
  IF ~Owing(call, p) THEN 0
  ELSE IF call.pc = "check" THEN Clamp(t - (call.mine - call.over), call.want) ELSE call.got

Debts(calls, p) == [c \in Consumers |-> Debt(calls[c], p)]
Shares(calls, p, t) == [c \in Consumers |-> Share(calls[c], p, t)]

(* The counts agree but for the calls under way.                            *)
Balance == \A p \in Producers : q[p].opt - q[p].over = q[p].head + Total(Debts(take, p))
(* Whatever the tail becomes, what all of them get together is there.       *)
Cover == \A p \in Producers : \A t \in Nat :
           t >= q[p].tail => q[p].head + Total(Shares(take, p, t)) <= t
(* The overcommit that a call loaded was not larger than it is.             *)
Snapshot == \A c \in Consumers :
              take[c].pc \in {"claim", "check"} => take[c].over <= q[take[c].prod].over

(* The fields that the counters need; the others have any value.            *)
QueueOK(x) ==
  x \in [isExplicit : {x.isExplicit}, tail : Nat, head : Nat, opt : Nat, over : Nat,
         last : {x.last}, front : {x.front}, used : {x.used}, ring : {x.ring},
         undone : {x.undone}]
PlanOK(x) ==
  \/ x = NoCall
  \/ x \in [pc : {x.pc}, n : Nat, new : {x.new}, need : {x.need}, start : {x.start},
            front : {x.front}, used : {x.used}] /\ x.pc # "idle"
TakeOK(x) ==
  \/ x = NoCall
  \/ x \in [pc : {"claim"}, prod : Producers, want : Nat, over : Nat]
  \/ x \in [pc : {"check"}, prod : Producers, want : Nat, over : Nat, mine : Nat]
  \/ x \in [pc : {"back"}, prod : Producers, excess : Nat, got : Nat]
  \/ x \in [pc : {"head"}, prod : Producers, excess : {0}, got : Nat]
  \/ x \in [pc : {"last"}, prod : Producers, got : {x.got}, index : {x.index}]
  \/ x \in [pc : {"key", "copy"}, prod : Producers, got : {x.got}, index : {x.index},
            slot : {x.slot}]
  \/ x \in [pc : {"empty", "release"}, prod : Producers, got : {x.got}, index : {x.index},
            slot : {x.slot}, block : {x.block}]

TypeOK ==
  /\ DOMAIN q = Producers /\ \A p \in Producers : QueueOK(q[p])
  /\ DOMAIN plan = Producers /\ \A p \in Producers : PlanOK(plan[p])
  /\ DOMAIN take = Consumers /\ \A c \in Consumers : TakeOK(take[c])

IInv == TypeOK /\ Balance /\ Cover /\ Snapshot
-------------------------------------------------------------------------------
(* Totals.                                                                  *)

(* They are natural numbers.                                                *)
LEMMA TotalNat ==
  ASSUME NEW S, IsFiniteSet(S), NEW f \in [S -> Nat]
  PROVE  IsFiniteSet(Units(f)) /\ Total(f) \in Nat
<1> DEFINE F == [c \in S |-> {c} \X (1..f[c])]
           T == {F[c] : c \in S}
<1>1. IsFiniteSet(T)
  <2>1. F \in Surjection(S, T)
    BY DEF Surjection
  <2> QED BY <2>1, FS_Surjection
<1>2. ASSUME NEW c \in S PROVE IsFiniteSet({c} \X (1..f[c]))
  <2>1. IsFiniteSet({c})
    BY FS_Singleton
  <2>2. f[c] \in Int /\ 1 \in Int
    OBVIOUS
  <2>3. IsFiniteSet(1..f[c])
    BY <2>2, FS_Interval
  <2> QED BY <2>1, <2>3, FS_Product
<1>3. \A U \in T : IsFiniteSet(U)
  BY <1>2
<1>4. IsFiniteSet(UNION T)
  BY <1>1, <1>3, FS_UNION
<1>5. Units(f) = UNION T
  BY DEF Units
<1> HIDE DEF T
<1>6. IsFiniteSet(Units(f))
  BY <1>4, <1>5
<1> QED BY <1>6, FS_CardinalityType DEF Total

(* A larger function has a larger total.                                    *)
LEMMA TotalMonotone ==
  ASSUME NEW S, IsFiniteSet(S), NEW f \in [S -> Nat], NEW g \in [S -> Nat],
         \A c \in S : f[c] <= g[c]
  PROVE  Total(f) <= Total(g)
<1>1. IsFiniteSet(Units(g))
  BY TotalNat
<1>2. ASSUME NEW c \in S, NEW k \in 1..f[c] PROVE k \in 1..g[c]
  OBVIOUS
<1>3. Units(f) \subseteq Units(g)
  BY <1>2 DEF Units
<1> QED BY <1>1, <1>3, FS_Subset DEF Total

(* When one value changes the total changes with it.                        *)
LEMMA TotalExcept ==
  ASSUME NEW S, IsFiniteSet(S), NEW f \in [S -> Nat], NEW g \in [S -> Nat], NEW c \in S,
         \A d \in S \ {c} : f[d] = g[d]
  PROVE  Total(f) - f[c] = Total(g) - g[c]
<1> DEFINE Rest(h) == {u \in Units(h) : u[1] # c}
<1>1. Rest(f) = Rest(g)
  BY DEF Units
<1>2. ASSUME NEW h \in [S -> Nat]
      PROVE  IsFiniteSet(Rest(h)) /\ Cardinality(Rest(h)) \in Nat /\ Total(h) = Cardinality(Rest(h)) + h[c]
  <2>1. IsFiniteSet(Units(h))
    BY TotalNat
  <2>2. IsFiniteSet(Rest(h)) /\ Cardinality(Rest(h)) \in Nat
    BY <2>1, FS_Subset, FS_CardinalityType
  <2>3. IsFiniteSet(1..h[c]) /\ Cardinality(1..h[c]) = h[c]
    BY FS_Interval
  <2>4. IsFiniteSet({c}) /\ Cardinality({c}) = 1
    BY FS_Singleton
  <2> DEFINE I == 1..h[c]
             D == {c} \X I
  <2>5. IsFiniteSet(D) /\ Cardinality(D) = h[c]
    <3>1. IsFiniteSet(I) /\ Cardinality(I) = h[c] /\ h[c] \in Nat
      BY <2>3
    <3> HIDE DEF I
    <3>2. IsFiniteSet(D) /\ Cardinality(D) = Cardinality({c}) * Cardinality(I)
      BY <2>4, <3>1, FS_Product
    <3>3. Cardinality(D) = 1 * h[c]
      BY <2>4, <3>1, <3>2
    <3> QED BY <3>1, <3>2, <3>3
  <2>6. Units(h) = Rest(h) \cup D /\ Rest(h) \cap D = {}
    BY DEF Units
  <2>7. Cardinality({}) = 0
    BY FS_EmptySet
  <2> HIDE DEF Rest, D
  <2>8. Cardinality(Rest(h) \cup D) = Cardinality(Rest(h)) + Cardinality(D) - Cardinality(Rest(h) \cap D)
    BY <2>2, <2>5, FS_Union
  <2>9. Cardinality(Units(h)) = Cardinality(Rest(h)) + h[c]
    <3>1. Cardinality(Units(h)) = Cardinality(Rest(h) \cup D) /\ Cardinality(Rest(h) \cap D) = 0
      BY <2>6, <2>7
    <3>2. Cardinality(Units(h)) = Cardinality(Rest(h)) + h[c] - 0
      BY <2>5, <2>8, <3>1
    <3>3. h[c] \in Nat
      OBVIOUS
    <3> QED BY <2>2, <3>2, <3>3
  <2> QED BY <2>2, <2>9 DEF Total
<1> HIDE DEF Rest
<1>3. Total(f) = Cardinality(Rest(f)) + f[c] /\ Total(g) = Cardinality(Rest(f)) + g[c]
      /\ Cardinality(Rest(f)) \in Nat
  BY <1>1, <1>2
<1> QED BY <1>3
-------------------------------------------------------------------------------
(* What one call owes and gets.                                             *)

LEMMA OneShare ==
  ASSUME NEW call, TakeOK(call), NEW p \in Producers, NEW t \in Nat
  PROVE  /\ Debt(call, p) \in Nat /\ Share(call, p, t) \in Nat
         /\ Share(call, p, t) <= Debt(call, p)
<1>1. CASE ~Owing(call, p)
  BY <1>1 DEF Debt, Share
<1>2. CASE Owing(call, p) /\ call.pc = "check"
  <2>1. call \in [pc : {"check"}, prod : Producers, want : Nat, over : Nat, mine : Nat]
    BY <1>2 DEF TakeOK, NoCall
  <2>2. call.want \in Nat /\ call.over \in Nat /\ call.mine \in Nat
    BY <2>1
  <2> QED BY <1>2, <2>2 DEF Debt, Share, Clamp, Least
<1>3. CASE Owing(call, p) /\ call.pc # "check"
  BY <1>3 DEF TakeOK, NoCall, Owing, Debt, Share
<1> QED BY <1>1, <1>2, <1>3

LEMMA Functions ==
  ASSUME NEW calls, \A c \in Consumers : TakeOK(calls[c]), NEW p \in Producers, NEW t \in Nat
  PROVE  /\ Debts(calls, p) \in [Consumers -> Nat] /\ Shares(calls, p, t) \in [Consumers -> Nat]
         /\ Total(Debts(calls, p)) \in Nat /\ Total(Shares(calls, p, t)) \in Nat
         /\ Total(Shares(calls, p, t)) <= Total(Debts(calls, p))
<1>1. \A c \in Consumers : /\ Debt(calls[c], p) \in Nat /\ Share(calls[c], p, t) \in Nat
                           /\ Share(calls[c], p, t) <= Debt(calls[c], p)
  BY OneShare
<1>2. Debts(calls, p) \in [Consumers -> Nat] /\ Shares(calls, p, t) \in [Consumers -> Nat]
  BY <1>1 DEF Debts, Shares
<1>3. \A c \in Consumers : Shares(calls, p, t)[c] <= Debts(calls, p)[c]
  BY <1>1 DEF Debts, Shares
<1>4. IsFiniteSet(Consumers)
  BY QueueAssumption
<1>5. Total(Debts(calls, p)) \in Nat /\ Total(Shares(calls, p, t)) \in Nat
  BY <1>2, <1>4, TotalNat
<1>6. Total(Shares(calls, p, t)) <= Total(Debts(calls, p))
  BY <1>2, <1>3, <1>4, TotalMonotone
<1> QED BY <1>2, <1>5, <1>6

(* A step of one call changes the totals by what that call owes and gets.   *)
LEMMA Shift ==
  ASSUME NEW calls, \A d \in Consumers : TakeOK(calls[d]),
         NEW next, \A d \in Consumers : TakeOK(next[d]),
         NEW c \in Consumers, \A d \in Consumers \ {c} : next[d] = calls[d],
         NEW p \in Producers, NEW t \in Nat
  PROVE  /\ Total(Debts(next, p)) - Debt(next[c], p) = Total(Debts(calls, p)) - Debt(calls[c], p)
         /\ Total(Shares(next, p, t)) - Share(next[c], p, t)
              = Total(Shares(calls, p, t)) - Share(calls[c], p, t)
<1>1. /\ Debts(calls, p) \in [Consumers -> Nat] /\ Shares(calls, p, t) \in [Consumers -> Nat]
      /\ Debts(next, p) \in [Consumers -> Nat] /\ Shares(next, p, t) \in [Consumers -> Nat]
  BY Functions
<1>2. /\ \A d \in Consumers \ {c} : Debts(next, p)[d] = Debts(calls, p)[d]
      /\ \A d \in Consumers \ {c} : Shares(next, p, t)[d] = Shares(calls, p, t)[d]
  BY DEF Debts, Shares
<1>3. /\ Debts(next, p)[c] = Debt(next[c], p) /\ Debts(calls, p)[c] = Debt(calls[c], p)
      /\ Shares(next, p, t)[c] = Share(next[c], p, t)
      /\ Shares(calls, p, t)[c] = Share(calls[c], p, t)
  BY DEF Debts, Shares
<1>4. IsFiniteSet(Consumers)
  BY QueueAssumption
<1>5. Total(Debts(next, p)) - Debts(next, p)[c] = Total(Debts(calls, p)) - Debts(calls, p)[c]
  BY <1>1, <1>2, <1>4, TotalExcept
<1>6. Total(Shares(next, p, t)) - Shares(next, p, t)[c]
        = Total(Shares(calls, p, t)) - Shares(calls, p, t)[c]
  BY <1>1, <1>2, <1>4, TotalExcept
<1> QED BY <1>3, <1>5, <1>6

(* The type of each part survives.                                          *)
LEMMA FieldsOfQueue ==
  ASSUME NEW x, QueueOK(x), NEW y,
         \/ \E l : y = [x EXCEPT !.last = l]
         \/ \E f, r, u : y = [x EXCEPT !.front = f, !.ring = r, !.used = u]
         \/ \E f, u, w, r : y = [x EXCEPT !.front = f, !.used = u, !.undone = w, !.ring = r]
  PROVE  QueueOK(y) /\ y.tail = x.tail /\ y.head = x.head /\ y.opt = x.opt /\ y.over = x.over
<1> USE DEF QueueOK
<1>1. CASE \E l : y = [x EXCEPT !.last = l]
  BY <1>1
<1>2. CASE \E f, r, u : y = [x EXCEPT !.front = f, !.ring = r, !.used = u]
  BY <1>2
<1>3. CASE \E f, u, w, r : y = [x EXCEPT !.front = f, !.used = u, !.undone = w, !.ring = r]
  BY <1>3
<1> QED BY <1>1, <1>2, <1>3

LEMMA FieldsOfCounters ==
  ASSUME NEW x, QueueOK(x), NEW n \in Nat, NEW r
  PROVE  /\ QueueOK([x EXCEPT !.opt = @ + n]) /\ QueueOK([x EXCEPT !.over = @ + n])
         /\ QueueOK([x EXCEPT !.head = @ + n]) /\ QueueOK([x EXCEPT !.tail = @ + n, !.ring = r])
<1>1. x.tail + n \in Nat /\ x.head + n \in Nat /\ x.opt + n \in Nat /\ x.over + n \in Nat
  BY DEF QueueOK
<1>2. \A m \in Nat : QueueOK([x EXCEPT !.opt = m])
  BY DEF QueueOK
<1>3. \A m \in Nat : QueueOK([x EXCEPT !.over = m])
  BY DEF QueueOK
<1>4. \A m \in Nat : QueueOK([x EXCEPT !.head = m])
  BY DEF QueueOK
<1>5. \A m \in Nat : QueueOK([x EXCEPT !.tail = m, !.ring = r])
  BY DEF QueueOK
<1> QED BY <1>1, <1>2, <1>3, <1>4, <1>5

LEMMA PlanMoves ==
  ASSUME NEW x, PlanOK(x), x.pc # "idle", NEW l, l # "idle", NEW new
  PROVE  PlanOK([x EXCEPT !.pc = l, !.new = new])
<1>1. x # NoCall
  BY DEF NoCall
<1> QED BY <1>1 DEF PlanOK

(* A step that leaves the counts alone, but may raise a tail, and changes no *)
(* call that owes something.                                                 *)
Quiet ==
  /\ DOMAIN q' = Producers /\ \A p \in Producers : QueueOK(q'[p])
  /\ \A p \in Producers : /\ q'[p].tail >= q[p].tail /\ q'[p].head = q[p].head
                          /\ q'[p].opt = q[p].opt /\ q'[p].over = q[p].over
  /\ DOMAIN plan' = Producers /\ \A p \in Producers : PlanOK(plan'[p])
  /\ DOMAIN take' = Consumers /\ \A c \in Consumers : TakeOK(take'[c])
  /\ \A c \in Consumers :
       \/ take'[c] = take[c]
       \/ /\ take[c].pc \notin {"check", "back", "head"}
          /\ take'[c].pc \notin {"check", "back", "head"}
          /\ take'[c].pc = "claim" => take'[c].over <= q[take'[c].prod].over

LEMMA QuietStep ==
  ASSUME IInv, Quiet
  PROVE  IInv'
<1> USE DEF IInv
<1>1. TypeOK'
  BY DEF TypeOK, Quiet
<1>2. ASSUME NEW p \in Producers, NEW t \in Nat
      PROVE  Debts(take', p) = Debts(take, p) /\ Shares(take', p, t) = Shares(take, p, t)
  <2>1. \A c \in Consumers : Debt(take'[c], p) = Debt(take[c], p)
                             /\ Share(take'[c], p, t) = Share(take[c], p, t)
    BY DEF Quiet, Debt, Share, Owing
  <2> QED BY <2>1 DEF Debts, Shares
<1>3. ASSUME NEW p \in Producers
      PROVE  /\ q[p].tail \in Nat /\ q'[p].tail \in Nat /\ q'[p].tail >= q[p].tail
             /\ q'[p].head = q[p].head /\ q'[p].opt = q[p].opt /\ q'[p].over = q[p].over
  BY <1>1 DEF TypeOK, QueueOK, Quiet
<1>4. Balance'
  <2> SUFFICES ASSUME NEW p \in Producers
               PROVE  q'[p].opt - q'[p].over = q'[p].head + Total(Debts(take', p))
    BY DEF Balance
  <2>1. q[p].opt - q[p].over = q[p].head + Total(Debts(take, p))
    BY DEF Balance
  <2>2. Debts(take', p) = Debts(take, p)
    BY <1>2
  <2> QED BY <1>3, <2>1, <2>2
<1>5. Cover'
  <2> SUFFICES ASSUME NEW p \in Producers, NEW t \in Nat, t >= q'[p].tail
               PROVE  q'[p].head + Total(Shares(take', p, t)) <= t
    BY DEF Cover
  <2>1. t >= q[p].tail
    BY <1>3
  <2>2. q[p].head + Total(Shares(take, p, t)) <= t
    BY <2>1 DEF Cover
  <2> QED BY <1>2, <1>3, <2>2
<1>6. Snapshot'
  <2> SUFFICES ASSUME NEW c \in Consumers, take'[c].pc \in {"claim", "check"}
               PROVE  take'[c].over <= q'[take'[c].prod].over
    BY DEF Snapshot
  <2>1. take'[c].prod \in Producers
    BY <1>1 DEF TypeOK, TakeOK, NoCall
  <2>2. CASE take'[c] = take[c]
    BY <1>3, <2>1, <2>2 DEF Snapshot
  <2>3. CASE take'[c] # take[c]
    BY <1>3, <2>1, <2>3 DEF Quiet
  <2> QED BY <2>2, <2>3
<1> QED BY <1>1, <1>4, <1>5, <1>6

(* An enqueue that leaves the counts of its producer alone or raises its tail. *)
LEMMA OneEnqueue ==
  ASSUME IInv, NEW p \in Producers, NEW y, QueueOK(y),
         y.tail >= q[p].tail, y.head = q[p].head, y.opt = q[p].opt, y.over = q[p].over,
         q' = [q EXCEPT ![p] = y] \/ (q' = q /\ y = q[p]),
         NEW z, PlanOK(z), plan' = [plan EXCEPT ![p] = z],
         take' = take
  PROVE  Quiet
<1>1. /\ DOMAIN q = Producers /\ \A r \in Producers : QueueOK(q[r])
      /\ DOMAIN plan = Producers /\ \A r \in Producers : PlanOK(plan[r])
      /\ DOMAIN take = Consumers /\ \A c \in Consumers : TakeOK(take[c])
  BY DEF IInv, TypeOK
<1>2. /\ DOMAIN q' = Producers /\ DOMAIN plan' = Producers /\ DOMAIN take' = Consumers
  BY <1>1
<1>3. ASSUME NEW r \in Producers
      PROVE  /\ QueueOK(q'[r]) /\ q'[r].tail >= q[r].tail /\ q'[r].head = q[r].head
             /\ q'[r].opt = q[r].opt /\ q'[r].over = q[r].over
  BY <1>1 DEF QueueOK
<1>4. \A r \in Producers : PlanOK(plan'[r])
  BY <1>1
<1> QED BY <1>1, <1>2, <1>3, <1>4 DEF Quiet

LEMMA EnqueueQuiet ==
  ASSUME IInv, NEW p \in Producers, ImplicitEnqueue(p) \/ ExplicitEnqueue(p)
  PROVE  Quiet
<1>1. /\ DOMAIN q = Producers /\ QueueOK(q[p]) /\ DOMAIN plan = Producers /\ PlanOK(plan[p])
  BY DEF IInv, TypeOK
<1>2. q[p].tail \in Nat /\ q[p].tail >= q[p].tail
  BY <1>1 DEF QueueOK
<1>3. ASSUME NEW l, l # "idle", NEW new, plan[p].pc # "idle"
      PROVE  PlanOK([plan[p] EXCEPT !.pc = l, !.new = new])
  BY <1>1, <1>3, PlanMoves
<1>4. PlanOK(NoCall)
  BY DEF PlanOK
<1>5. ASSUME NEW n \in Sizes, Begin(p, n)
      PROVE  Quiet
  <2> DEFINE z == [pc |-> "grow", n |-> n, new |-> <<>>,
                   need |-> BlockNo(q[p].tail + n - 1) - BlockNo(q[p].tail - 1),
                   start |-> q[p].ring, front |-> q[p].front, used |-> q[p].used]
  <2>1. n \in Nat
    BY QueueAssumption
  <2>2. PlanOK(z)
    BY <2>1 DEF PlanOK
  <2>3. q' = q /\ plan' = [plan EXCEPT ![p] = z] /\ take' = take
    BY <1>5 DEF Begin
  <2> HIDE DEF z
  <2> QED BY <1>1, <1>2, <2>2, <2>3, OneEnqueue
<1>6. CASE InsertKey(p)
  <2> DEFINE y == [q[p] EXCEPT !.last = Slot(p, q[p].last + 1)]
             z == [plan[p] EXCEPT !.pc = "block", !.new = plan[p].new]
  <2>1. q' = [q EXCEPT ![p] = y] /\ plan' = [plan EXCEPT ![p] = z] /\ take' = take
        /\ plan[p].pc = "grow"
    BY <1>6 DEF InsertKey, InsertKey_Overwrites, Plan, Growing, At
  <2>2. PlanOK(z)
    BY <1>3, <2>1
  <2>3. QueueOK(y) /\ y.tail = q[p].tail /\ y.head = q[p].head /\ y.opt = q[p].opt /\ y.over = q[p].over
    BY <1>1, FieldsOfQueue
  <2> HIDE DEF y, z
  <2> QED BY <1>2, <2>1, <2>2, <2>3, OneEnqueue
<1>7. CASE InstallBlock(p)
  <2>1. PICK b : Plan(p, "grow", Append(plan[p].new, b))
    BY <1>7 DEF InstallBlock
  <2> DEFINE z == [plan[p] EXCEPT !.pc = "grow", !.new = Append(plan[p].new, b)]
  <2>2. q' = q /\ plan' = [plan EXCEPT ![p] = z] /\ take' = take
        /\ plan[p].pc = "block"
    BY <1>7, <2>1 DEF InstallBlock, Plan, At
  <2>3. PlanOK(z)
    BY <1>3, <2>2
  <2> HIDE DEF z
  <2> QED BY <1>1, <1>2, <2>2, <2>3, OneEnqueue
<1>8. CASE ImplicitUndo(p)
  <2>1. PICK l : q' = [q EXCEPT ![p].last = l]
    BY <1>8 DEF ImplicitUndo
  <2> DEFINE y == [q[p] EXCEPT !.last = l]
  <2>2. q' = [q EXCEPT ![p] = y] /\ plan' = [plan EXCEPT ![p] = NoCall] /\ take' = take
    BY <1>8, <2>1 DEF ImplicitUndo, Return
  <2>3. QueueOK(y) /\ y.tail = q[p].tail /\ y.head = q[p].head /\ y.opt = q[p].opt /\ y.over = q[p].over
    BY <1>1, FieldsOfQueue
  <2> HIDE DEF y
  <2> QED BY <1>2, <1>4, <2>2, <2>3, OneEnqueue
<1>9. ASSUME NEW l, l # "idle", NEW b, NEW ring, NEW used, Enter(p, l, b, ring, used),
              plan[p].pc # "idle", take' = take
       PROVE  Quiet
  <2>1. PICK f : q' = [q EXCEPT ![p].front = f, ![p].ring = ring, ![p].used = used]
    BY <1>9 DEF Enter
  <2> DEFINE y == [q[p] EXCEPT !.front = f, !.ring = ring, !.used = used]
             z == [plan[p] EXCEPT !.pc = l, !.new = Append(plan[p].new, b)]
  <2>2. q' = [q EXCEPT ![p] = y] /\ plan' = [plan EXCEPT ![p] = z]
    BY <1>1, <1>9, <2>1 DEF Enter, Plan
  <2>3. QueueOK(y) /\ y.tail = q[p].tail /\ y.head = q[p].head /\ y.opt = q[p].opt /\ y.over = q[p].over
    BY <1>1, FieldsOfQueue
  <2>4. PlanOK(z)
    BY <1>3, <1>9
  <2> HIDE DEF y, z
  <2> QED BY <1>2, <1>9, <2>2, <2>3, <2>4, OneEnqueue
<1>10. CASE ReuseAhead(p)
  BY <1>9, <1>10 DEF ReuseAhead, Growing, At
<1>11. CASE InjectBlock(p)
  BY <1>9, <1>11 DEF InjectBlock, Injecting, Growing, At
<1>12. CASE ExplicitUndo(p)
  <2>1. PICK f : \E u, w, r : q' = [q EXCEPT ![p].front = f, ![p].used = u, ![p].undone = w, ![p].ring = r]
    BY <1>12 DEF ExplicitUndo
  <2>2. PICK u : \E w, r : q' = [q EXCEPT ![p].front = f, ![p].used = u, ![p].undone = w, ![p].ring = r]
    BY <2>1
  <2>3. PICK w : \E r : q' = [q EXCEPT ![p].front = f, ![p].used = u, ![p].undone = w, ![p].ring = r]
    BY <2>2
  <2>4. PICK r : q' = [q EXCEPT ![p].front = f, ![p].used = u, ![p].undone = w, ![p].ring = r]
    BY <2>3
  <2> DEFINE y == [q[p] EXCEPT !.front = f, !.used = u, !.undone = w, !.ring = r]
  <2>5. q' = [q EXCEPT ![p] = y] /\ plan' = [plan EXCEPT ![p] = NoCall] /\ take' = take
    BY <1>1, <1>12, <2>4 DEF ExplicitUndo, Return
  <2>6. QueueOK(y) /\ y.tail = q[p].tail /\ y.head = q[p].head /\ y.opt = q[p].opt /\ y.over = q[p].over
    BY <1>1, FieldsOfQueue
  <2> HIDE DEF y
  <2> QED BY <1>2, <1>4, <2>5, <2>6, OneEnqueue
<1>13. CASE ShowBlocks(p)
  <2> DEFINE z == [plan[p] EXCEPT !.pc = "fill", !.new = plan[p].new]
  <2>1. plan' = [plan EXCEPT ![p] = z] /\ take' = take /\ plan[p].pc # "idle"
    BY <1>13 DEF ShowBlocks, Plan, At
  <2>2. PlanOK(z)
    BY <1>3, <2>1
  <2>3. CASE q' = q
    <3> HIDE DEF z
    <3> QED BY <1>1, <1>2, <2>1, <2>2, <2>3, OneEnqueue
  <2>4. CASE q' # q
    <3>1. PICK l : q' = [q EXCEPT ![p].last = l]
      BY <1>13, <2>4 DEF ShowBlocks
    <3> DEFINE y == [q[p] EXCEPT !.last = l]
    <3>2. q' = [q EXCEPT ![p] = y]
      BY <3>1
    <3>3. QueueOK(y) /\ y.tail = q[p].tail /\ y.head = q[p].head /\ y.opt = q[p].opt /\ y.over = q[p].over
      BY <1>1, FieldsOfQueue
    <3> HIDE DEF y, z
    <3> QED BY <1>2, <2>1, <2>2, <3>2, <3>3, OneEnqueue
  <2> QED BY <2>3, <2>4
<1>14. CASE Fill(p)
  <2>1. PICK r : q' = [q EXCEPT ![p].tail = @ + plan[p].n, ![p].ring = r]
    BY <1>14 DEF Fill
  <2> DEFINE y == [q[p] EXCEPT !.tail = @ + plan[p].n, !.ring = r]
  <2>2. q' = [q EXCEPT ![p] = y] /\ plan' = [plan EXCEPT ![p] = NoCall] /\ take' = take
    BY <1>1, <1>14, <2>1 DEF Fill, Return
  <2>3. plan[p].n \in Nat
    BY <1>1, <1>14 DEF Fill, At, PlanOK, NoCall
  <2>4. QueueOK(y)
    BY <1>1, <2>3, FieldsOfCounters
  <2>5. y.tail = q[p].tail + plan[p].n /\ y.head = q[p].head /\ y.opt = q[p].opt /\ y.over = q[p].over
    BY <1>1 DEF QueueOK
  <2> HIDE DEF y
  <2>6. y.tail >= q[p].tail
    BY <1>2, <2>3, <2>5
  <2> QED BY <1>4, <2>2, <2>4, <2>5, <2>6, OneEnqueue
<1> QED
  BY <1>5, <1>6, <1>7, <1>8, <1>10, <1>11, <1>12, <1>13, <1>14 DEF ImplicitEnqueue, ExplicitEnqueue

(* A dequeue that leaves the counts alone.                                  *)
LEMMA OneDequeue ==
  ASSUME IInv, UNCHANGED <<q, plan>>, NEW c \in Consumers, NEW x, TakeOK(x), Go(c, x),
         take[c].pc \notin {"check", "back", "head"}, x.pc \notin {"check", "back", "head"},
         x.pc = "claim" => x.over <= q[x.prod].over
  PROVE  Quiet
<1>1. /\ DOMAIN q = Producers /\ \A r \in Producers : QueueOK(q[r])
      /\ DOMAIN plan = Producers /\ \A r \in Producers : PlanOK(plan[r])
      /\ DOMAIN take = Consumers /\ \A d \in Consumers : TakeOK(take[d])
  BY DEF IInv, TypeOK
<1>2. \A r \in Producers : q[r].tail \in Nat /\ q[r].tail >= q[r].tail
  BY <1>1 DEF QueueOK
<1>3. /\ DOMAIN take' = Consumers /\ take'[c] = x
      /\ \A d \in Consumers : d # c => take'[d] = take[d]
  BY <1>1 DEF Go
<1> QED BY <1>1, <1>2, <1>3 DEF Quiet

LEMMA NextPartMoves ==
  ASSUME NEW c \in Consumers, Prod(c) \in Producers, NextPart(c)
  PROVE  \E x : TakeOK(x) /\ Go(c, x) /\ x.pc \in {"idle", "copy"}
<1> DEFINE n == Cardinality(Part(c))
           z == [pc |-> "copy", prod |-> Prod(c), got |-> take[c].got - n,
                 index |-> take[c].index + n, slot |-> Slot(Prod(c), take[c].slot + 1)]
<1>1. TakeOK(z) /\ z.pc = "copy"
  BY DEF TakeOK
<1>2. TakeOK(NoCall) /\ NoCall.pc = "idle"
  BY DEF TakeOK, NoCall
<1>3. Go(c, NoCall) \/ Go(c, z)
  BY DEF NextPart
<1> HIDE DEF z
<1> QED BY <1>1, <1>2, <1>3

LEMMA DequeueQuiet ==
  ASSUME IInv, NEW c \in Consumers,
         \/ \E p \in Producers, max \in Sizes : Look(c, p, max)
         \/ LoadLast(c) \/ LoadKey(c) \/ CopyOut(c) \/ SetEmpty(c) \/ Release(c)
  PROVE  Quiet
<1>1. TakeOK(take[c])
  BY DEF IInv, TypeOK
<1>2. ASSUME NEW p \in Producers, NEW max \in Sizes, Look(c, p, max)
      PROVE  Quiet
  <2> DEFINE n == Least(max, q[p].tail - (q[p].opt - q[p].over))
             x == [pc |-> "claim", prod |-> p, want |-> n, over |-> q[p].over]
  <2>1. /\ q[p].tail \in Nat /\ q[p].opt \in Nat /\ q[p].over \in Nat
    BY DEF IInv, TypeOK, QueueOK
  <2>2. max \in Nat
    BY QueueAssumption
  <2>3. n > 0 /\ Go(c, x) /\ UNCHANGED <<q, plan>> /\ take[c].pc = "idle"
    BY <1>2 DEF Look, In
  <2>4. n \in Nat
    BY <2>1, <2>2, <2>3 DEF Least
  <2> HIDE DEF n
  <2>5. TakeOK(x) /\ x.pc = "claim" /\ x.over <= q[x.prod].over
    BY <2>1, <2>4 DEF TakeOK
  <2> HIDE DEF x
  <2> QED BY <2>3, <2>5, OneDequeue
<1>3. CASE LoadLast(c)
  <2> DEFINE x == [pc |-> "key", prod |-> Prod(c), got |-> take[c].got, index |-> take[c].index,
                   slot |-> q[Prod(c)].last]
  <2>1. take[c].pc = "last" /\ Go(c, x) /\ UNCHANGED <<q, plan>>
    BY <1>3 DEF LoadLast, In
  <2>2. take[c].prod \in Producers
    BY <1>1, <2>1 DEF TakeOK, NoCall
  <2>3. TakeOK(x) /\ x.pc = "key"
    BY <2>2 DEF TakeOK, Prod
  <2> HIDE DEF x
  <2> QED BY <2>1, <2>3, OneDequeue
<1>4. CASE LoadKey(c)
  <2>1. PICK s : Go(c, [take[c] EXCEPT !.pc = "copy", !.slot = s])
    BY <1>4 DEF LoadKey
  <2> DEFINE x == [take[c] EXCEPT !.pc = "copy", !.slot = s]
  <2>2. take[c].pc = "key" /\ Go(c, x) /\ UNCHANGED <<q, plan>>
    BY <1>4, <2>1 DEF LoadKey, In
  <2>3. take[c] \in [pc : {"key", "copy"}, prod : Producers, got : {take[c].got},
                     index : {take[c].index}, slot : {take[c].slot}]
    BY <1>1, <2>2 DEF TakeOK, NoCall
  <2>4. TakeOK(x) /\ x.pc = "copy"
    BY <2>3 DEF TakeOK
  <2> HIDE DEF x
  <2> QED BY <2>2, <2>4, OneDequeue
<1>5. CASE CopyOut(c)
  <2> DEFINE x == [pc |-> "empty", prod |-> Prod(c), got |-> take[c].got, index |-> take[c].index,
                   slot |-> take[c].slot, block |-> BlockAt(c)]
  <2>1. take[c].pc = "copy" /\ Go(c, x) /\ UNCHANGED <<q, plan>>
    BY <1>5 DEF CopyOut, In
  <2>2. take[c].prod \in Producers
    BY <1>1, <2>1 DEF TakeOK, NoCall
  <2>3. TakeOK(x) /\ x.pc = "empty"
    BY <2>2 DEF TakeOK, Prod
  <2> HIDE DEF x
  <2> QED BY <2>1, <2>3, OneDequeue
<1>6. ASSUME take[c].pc \in {"empty", "release"}, UNCHANGED <<q, plan>>, NextPart(c)
      PROVE  Quiet
  <2>1. Prod(c) \in Producers
    BY <1>1, <1>6 DEF TakeOK, NoCall, Prod
  <2>2. PICK x : TakeOK(x) /\ Go(c, x) /\ x.pc \in {"idle", "copy"}
    BY <1>6, <2>1, NextPartMoves
  <2>3. TakeOK(x) /\ Go(c, x)
    BY <2>2
  <2>4. /\ x.pc \notin {"check", "back", "head"} /\ x.pc # "claim"
        /\ take[c].pc \notin {"check", "back", "head"}
    BY <1>6, <2>2
  <2> QED BY <1>6, <2>3, <2>4, OneDequeue
<1>7. CASE SetEmpty(c)
  <2>1. take[c].pc = "empty" /\ UNCHANGED <<q, plan>>
    BY <1>7 DEF SetEmpty, In
  <2>2. CASE NextPart(c)
    BY <1>6, <2>1, <2>2
  <2>3. CASE ~NextPart(c)
    <3> DEFINE x == [take[c] EXCEPT !.pc = "release"]
    <3>1. Go(c, x)
      BY <1>7, <2>3 DEF SetEmpty
    <3>2. take[c] \in [pc : {"empty", "release"}, prod : Producers, got : {take[c].got},
                       index : {take[c].index}, slot : {take[c].slot}, block : {take[c].block}]
      BY <1>1, <2>1 DEF TakeOK, NoCall
    <3>3. TakeOK(x) /\ x.pc = "release"
      BY <3>2 DEF TakeOK
    <3> HIDE DEF x
    <3> QED BY <2>1, <3>1, <3>3, OneDequeue
  <2> QED BY <2>2, <2>3
<1>8. CASE Release(c)
  BY <1>6, <1>8 DEF Release, GiveUp, In
<1> QED BY <1>2, <1>3, <1>4, <1>5, <1>7, <1>8

(* A step of a call that changes the counts of its producer: what it owes   *)
(* must change with them, and what all calls get together must be there.    *)
LEMMA CountingStep ==
  ASSUME IInv, NEW c \in Consumers, NEW p \in Producers, take[c].prod = p,
         NEW y, QueueOK(y), q' = [q EXCEPT ![p] = y] \/ (q' = q /\ y = q[p]), UNCHANGED plan,
         NEW x, TakeOK(x), Go(c, x), x.pc = "idle" \/ x.prod = p,
         y.tail = q[p].tail, y.over >= q[p].over,
         y.opt - y.over - y.head - Debt(x, p)
           = q[p].opt - q[p].over - q[p].head - Debt(take[c], p),
         \A t \in Nat : t >= q[p].tail =>
            y.head + (Total(Shares(take, p, t)) - Share(take[c], p, t) + Share(x, p, t)) <= t,
         x.pc \in {"claim", "check"} => x.over <= y.over
  PROVE  IInv'
<1>1. /\ DOMAIN q = Producers /\ \A r \in Producers : QueueOK(q[r])
      /\ DOMAIN plan = Producers /\ \A r \in Producers : PlanOK(plan[r])
      /\ DOMAIN take = Consumers /\ \A d \in Consumers : TakeOK(take[d])
  BY DEF IInv, TypeOK
<1>2. /\ DOMAIN q' = Producers /\ q'[p] = y /\ \A r \in Producers \ {p} : q'[r] = q[r]
      /\ DOMAIN take' = Consumers /\ take'[c] = x /\ \A d \in Consumers \ {c} : take'[d] = take[d]
  BY <1>1 DEF Go
<1>3. (\A r \in Producers : QueueOK(q'[r])) /\ \A d \in Consumers : TakeOK(take'[d])
  BY <1>1, <1>2
<1>4. TypeOK'
  BY <1>1, <1>2, <1>3 DEF TypeOK
<1>5. ASSUME NEW r \in Producers, NEW t \in Nat
      PROVE  /\ Total(Debts(take', r)) - Debt(x, r) = Total(Debts(take, r)) - Debt(take[c], r)
             /\ Total(Shares(take', r, t)) - Share(x, r, t)
                  = Total(Shares(take, r, t)) - Share(take[c], r, t)
             /\ Total(Debts(take, r)) \in Nat /\ Total(Shares(take, r, t)) \in Nat
             /\ Total(Debts(take', r)) \in Nat /\ Total(Shares(take', r, t)) \in Nat
  <2>1. /\ \A d \in Consumers : TakeOK(take[d])
        /\ \A d \in Consumers : TakeOK(take'[d])
        /\ \A d \in Consumers \ {c} : take'[d] = take[d]
    BY <1>1, <1>2, <1>3
  <2>2. /\ Total(Debts(take', r)) - Debt(take'[c], r) = Total(Debts(take, r)) - Debt(take[c], r)
        /\ Total(Shares(take', r, t)) - Share(take'[c], r, t)
             = Total(Shares(take, r, t)) - Share(take[c], r, t)
    BY <2>1, Shift
  <2>3. Total(Debts(take, r)) \in Nat /\ Total(Shares(take, r, t)) \in Nat
    BY <2>1, Functions
  <2>4. Total(Debts(take', r)) \in Nat /\ Total(Shares(take', r, t)) \in Nat
    BY <2>1, Functions
  <2> QED BY <1>2, <2>2, <2>3, <2>4
<1>6. ASSUME NEW r \in Producers, r # p, NEW t \in Nat
      PROVE  /\ Debt(x, r) = 0 /\ Debt(take[c], r) = 0
             /\ Share(x, r, t) = 0 /\ Share(take[c], r, t) = 0
  BY <1>6 DEF Owing, Debt, Share
<1>7. ASSUME NEW r \in Producers, r # p, NEW t \in Nat
      PROVE  /\ Total(Debts(take', r)) = Total(Debts(take, r))
             /\ Total(Shares(take', r, t)) = Total(Shares(take, r, t))
  BY <1>5, <1>6, <1>7
<1>8. ASSUME NEW t \in Nat
      PROVE  /\ Debt(x, p) \in Nat /\ Debt(take[c], p) \in Nat
             /\ Share(x, p, t) \in Nat /\ Share(take[c], p, t) \in Nat
  BY <1>1, OneShare
<1>9. /\ y.tail \in Nat /\ y.head \in Nat /\ y.opt \in Nat /\ y.over \in Nat
      /\ q[p].tail \in Nat /\ q[p].head \in Nat /\ q[p].opt \in Nat /\ q[p].over \in Nat
  BY <1>1 DEF QueueOK
<1>10. Balance'
  <2> SUFFICES ASSUME NEW r \in Producers
               PROVE  q'[r].opt - q'[r].over = q'[r].head + Total(Debts(take', r))
    BY DEF Balance
  <2>1. q[r].opt - q[r].over = q[r].head + Total(Debts(take, r))
    BY DEF IInv, Balance
  <2>2. CASE r = p
    <3>1. /\ Total(Debts(take', p)) - Debt(x, p) = Total(Debts(take, p)) - Debt(take[c], p)
          /\ Total(Debts(take, p)) \in Nat /\ Total(Debts(take', p)) \in Nat
          /\ Debt(x, p) \in Nat /\ Debt(take[c], p) \in Nat
      BY <1>5, <1>8
    <3>2. q[p].opt - q[p].over = q[p].head + Total(Debts(take, p))
      BY <2>1, <2>2
    <3>3. y.opt - y.over = y.head + Total(Debts(take', p))
      BY <1>9, <3>1, <3>2
    <3> QED BY <1>2, <2>2, <3>3
  <2>3. CASE r # p
    BY <1>2, <1>7, <2>1, <2>3
  <2> QED BY <2>2, <2>3
<1>11. Cover'
  <2> SUFFICES ASSUME NEW r \in Producers, NEW t \in Nat, t >= q'[r].tail
               PROVE  q'[r].head + Total(Shares(take', r, t)) <= t
    BY DEF Cover
  <2>1. CASE r = p
    BY <1>2, <1>5, <1>8, <1>9, <2>1, SMTT(60)
  <2>2. CASE r # p
    BY <1>2, <1>7, <2>2 DEF IInv, Cover
  <2> QED BY <2>1, <2>2
<1>12. Snapshot'
  <2> SUFFICES ASSUME NEW d \in Consumers, take'[d].pc \in {"claim", "check"}
               PROVE  take'[d].over <= q'[take'[d].prod].over
    BY DEF Snapshot
  <2>1. CASE d = c
    BY <1>2, <2>1
  <2>2. CASE d # c
    <3>1. take'[d] = take[d]
      BY <1>2, <2>2
    <3>2. take[d].over <= q[take[d].prod].over
      BY <2>2, <3>1 DEF IInv, Snapshot
    <3>3. take[d].prod \in Producers /\ take[d].over \in Nat
      BY <1>1, <2>2, <3>1 DEF TakeOK, NoCall
    <3>4. CASE take[d].prod = p
      <4>1. take[d].over <= y.over
        BY <1>9, <3>2, <3>3, <3>4
      <4> QED BY <1>2, <3>1, <3>4, <4>1
    <3>5. CASE take[d].prod # p
      BY <1>2, <3>1, <3>2, <3>3, <3>5
    <3> QED BY <3>4, <3>5
  <2> QED BY <2>1, <2>2
<1> QED BY <1>4, <1>10, <1>11, <1>12 DEF IInv

LEMMA ClaimKeeps ==
  ASSUME IInv, NEW c \in Consumers, Claim(c)
  PROVE  IInv'
<1> DEFINE p == take[c].prod
           w == take[c].want
           y == [q[p] EXCEPT !.opt = @ + w]
           x == [pc |-> "check", prod |-> p, want |-> w, over |-> take[c].over, mine |-> q[p].opt]
<1>1. take[c] \in [pc : {"claim"}, prod : Producers, want : Nat, over : Nat]
  BY DEF IInv, TypeOK, Claim, In, TakeOK, NoCall
<1>2. p \in Producers /\ w \in Nat /\ take[c].over \in Nat /\ take[c].pc = "claim"
  BY <1>1
<1>3. QueueOK(q[p])
  BY <1>2 DEF IInv, TypeOK
<1>4. q[p].tail \in Nat /\ q[p].head \in Nat /\ q[p].opt \in Nat /\ q[p].over \in Nat
  BY <1>3 DEF QueueOK
<1>5. q' = [q EXCEPT ![p] = y] /\ UNCHANGED plan /\ Go(c, x)
  BY DEF Claim, Prod
<1>6. QueueOK(y)
  BY <1>2, <1>3, FieldsOfCounters
<1>7. /\ y.tail = q[p].tail /\ y.head = q[p].head /\ y.opt = q[p].opt + w /\ y.over = q[p].over
  BY <1>3 DEF QueueOK
<1>8. /\ TakeOK(x) /\ x.pc = "check" /\ x.prod = p /\ x.want = w /\ x.over = take[c].over
      /\ x.mine = q[p].opt
  BY <1>2, <1>4 DEF TakeOK
<1>9. take[c].over <= q[p].over
  BY <1>2 DEF IInv, Snapshot
<1>10. Debt(take[c], p) = 0 /\ Debt(x, p) = w
  BY <1>2, <1>8 DEF Debt, Owing
<1>11. ASSUME NEW t \in Nat, t >= q[p].tail
       PROVE  q[p].head + (Total(Shares(take, p, t)) - Share(take[c], p, t) + Share(x, p, t)) <= t
  <2>1. Share(take[c], p, t) = 0 /\ Share(x, p, t) = Clamp(t - (q[p].opt - take[c].over), w)
    BY <1>2, <1>8 DEF Share, Owing
  <2>2. q[p].head + Total(Shares(take, p, t)) <= t
    BY <1>2, <1>11 DEF IInv, Cover
  <2>3. /\ Total(Shares(take, p, t)) \in Nat /\ Total(Debts(take, p)) \in Nat
        /\ Total(Shares(take, p, t)) <= Total(Debts(take, p))
    BY <1>2, Functions DEF IInv, TypeOK
  <2>4. q[p].opt - q[p].over = q[p].head + Total(Debts(take, p))
    BY <1>2 DEF IInv, Balance
  <2> HIDE DEF p, w, x, y
  <2>5. CASE t - (q[p].opt - take[c].over) <= 0
    BY <1>4, <2>1, <2>2, <2>3, <2>5 DEF Clamp
  <2>6. CASE t - (q[p].opt - take[c].over) > 0
    <3>1. Share(x, p, t) \in Int /\ Share(x, p, t) <= t - (q[p].opt - take[c].over)
      BY <1>2, <1>4, <2>1, <2>6 DEF Clamp, Least
    <3> QED BY <1>2, <1>4, <1>9, <2>1, <2>3, <2>4, <3>1
  <2> QED BY <1>2, <1>4, <2>5, <2>6
<1> HIDE DEF x, y
<1>12. \A t \in Nat : t >= q[p].tail =>
          y.head + (Total(Shares(take, p, t)) - Share(take[c], p, t) + Share(x, p, t)) <= t
  BY <1>7, <1>11
<1>13. y.opt - y.over - y.head - Debt(x, p) = q[p].opt - q[p].over - q[p].head - Debt(take[c], p)
  BY <1>2, <1>4, <1>7, <1>10
<1>14. y.over >= q[p].over /\ (x.pc \in {"claim", "check"} => x.over <= y.over)
  BY <1>4, <1>7, <1>8, <1>9
<1> HIDE DEF p
<1>15. take[c].prod = p
  BY DEF p
<1> QED BY <1>2, <1>5, <1>6, <1>7, <1>8, <1>12, <1>13, <1>14, <1>15, CountingStep

LEMMA CheckKeeps ==
  ASSUME IInv, NEW c \in Consumers, Check(c)
  PROVE  IInv'
<1> DEFINE p == take[c].prod
           w == take[c].want
           A == take[c].mine - take[c].over
           g == Clamp(q[p].tail - A, w)
           x == [pc |-> IF g < w THEN "back" ELSE "head", prod |-> p, excess |-> w - g, got |-> g]
<1>1. take[c] \in [pc : {"check"}, prod : Producers, want : Nat, over : Nat, mine : Nat]
  BY DEF IInv, TypeOK, Check, In, TakeOK, NoCall
<1>2. p \in Producers /\ w \in Nat /\ A \in Int /\ take[c].pc = "check"
  BY <1>1
<1>3. QueueOK(q[p])
  BY <1>2 DEF IInv, TypeOK
<1>4. q[p].tail \in Nat /\ q[p].head \in Nat /\ q[p].opt \in Nat /\ q[p].over \in Nat
  BY <1>3 DEF QueueOK
<1>5. q' = q /\ UNCHANGED plan /\ Go(c, x)
  BY DEF Check, Prod, Got, Clamp
<1> HIDE DEF A
<1>6. g \in Nat /\ g <= w
  BY <1>2, <1>4 DEF Clamp, Least
<1> HIDE DEF g
<1>7. /\ TakeOK(x) /\ x.pc \in {"back", "head"} /\ x.prod = p /\ x.excess = w - g /\ x.got = g
  BY <1>2, <1>6 DEF TakeOK
<1>8. Debt(take[c], p) = w /\ Debt(x, p) = w
  BY <1>2, <1>6, <1>7 DEF Debt, Owing
<1>9. ASSUME NEW t \in Nat, t >= q[p].tail
      PROVE  q[p].head + (Total(Shares(take, p, t)) - Share(take[c], p, t) + Share(x, p, t)) <= t
  <2>1. Share(take[c], p, t) = Clamp(t - A, w) /\ Share(x, p, t) = g
    BY <1>2, <1>7 DEF Share, Owing, A
  <2>2. g <= Clamp(t - A, w) /\ Clamp(t - A, w) \in Nat
    BY <1>2, <1>4, <1>9 DEF g, Clamp, Least
  <2>3. q[p].head + Total(Shares(take, p, t)) <= t
    BY <1>2, <1>9 DEF IInv, Cover
  <2>4. Total(Shares(take, p, t)) \in Nat
    BY <1>2, Functions DEF IInv, TypeOK
  <2> HIDE DEF p, w, x
  <2> QED BY <1>4, <1>6, <2>1, <2>2, <2>3, <2>4
<1> HIDE DEF x
<1>10. /\ q[p].tail = q[p].tail /\ q[p].over >= q[p].over
       /\ (x.pc = "idle" \/ x.prod = p) /\ (x.pc \in {"claim", "check"} => x.over <= q[p].over)
  BY <1>4, <1>7
<1>11. q[p].opt - q[p].over - q[p].head - Debt(x, p)
         = q[p].opt - q[p].over - q[p].head - Debt(take[c], p)
  BY <1>8
<1>12. \A t \in Nat : t >= q[p].tail =>
         q[p].head + (Total(Shares(take, p, t)) - Share(take[c], p, t) + Share(x, p, t)) <= t
  BY <1>9
<1> HIDE DEF p
<1>13. take[c].prod = p
  BY DEF p
<1> QED BY <1>2, <1>3, <1>5, <1>7, <1>10, <1>11, <1>12, <1>13, CountingStep

LEMMA GiveBackKeeps ==
  ASSUME IInv, NEW c \in Consumers, GiveBack(c)
  PROVE  IInv'
<1> DEFINE p == take[c].prod
           e == take[c].excess
           g == take[c].got
           y == [q[p] EXCEPT !.over = @ + e]
           x == IF g = 0 THEN NoCall ELSE [take[c] EXCEPT !.pc = "head", !.excess = 0]
<1>1. take[c] \in [pc : {"back"}, prod : Producers, excess : Nat, got : Nat]
  BY DEF IInv, TypeOK, GiveBack, Back, In, TakeOK, NoCall
<1>2. p \in Producers /\ e \in Nat /\ g \in Nat /\ take[c].pc = "back"
  BY <1>1
<1>3. QueueOK(q[p])
  BY <1>2 DEF IInv, TypeOK
<1>4. q[p].tail \in Nat /\ q[p].head \in Nat /\ q[p].opt \in Nat /\ q[p].over \in Nat
  BY <1>3 DEF QueueOK
<1>5. q' = [q EXCEPT ![p] = y] /\ UNCHANGED plan /\ Go(c, x)
  BY DEF GiveBack, Back, Prod
<1>6. QueueOK(y)
  BY <1>2, <1>3, FieldsOfCounters
<1>7. /\ y.tail = q[p].tail /\ y.head = q[p].head /\ y.opt = q[p].opt /\ y.over = q[p].over + e
  BY <1>3 DEF QueueOK
<1>8. \/ g = 0 /\ x = NoCall
      \/ x \in [pc : {"head"}, prod : {p}, excess : {0}, got : {g}]
  BY <1>1
<1>9. TakeOK(x) /\ (x.pc = "idle" \/ x.prod = p) /\ x.pc \in {"idle", "head"}
  BY <1>2, <1>8 DEF TakeOK, NoCall
<1>10. Debt(take[c], p) = g + e /\ Debt(x, p) = g
  BY <1>2, <1>8 DEF Debt, Owing, NoCall
<1>11. ASSUME NEW t \in Nat
       PROVE  Share(take[c], p, t) = g /\ Share(x, p, t) = g
  BY <1>2, <1>8 DEF Share, Owing, NoCall
<1>12. ASSUME NEW t \in Nat, t >= q[p].tail
       PROVE  y.head + (Total(Shares(take, p, t)) - Share(take[c], p, t) + Share(x, p, t)) <= t
  <2>1. q[p].head + Total(Shares(take, p, t)) <= t
    BY <1>2, <1>12 DEF IInv, Cover
  <2>2. Total(Shares(take, p, t)) \in Nat
    BY <1>2, Functions DEF IInv, TypeOK
  <2>3. Share(take[c], p, t) = g /\ Share(x, p, t) = g /\ y.head = q[p].head
    BY <1>7, <1>11
  <2> HIDE DEF p, g, x, y
  <2> QED BY <1>2, <1>4, <2>1, <2>2, <2>3
<1> HIDE DEF x, y, e, g
<1>13. y.opt - y.over - y.head - Debt(x, p) = q[p].opt - q[p].over - q[p].head - Debt(take[c], p)
  BY <1>2, <1>4, <1>7, <1>10
<1>14. y.over >= q[p].over /\ ~(x.pc \in {"claim", "check"})
  BY <1>2, <1>4, <1>7, <1>9
<1>15. \A t \in Nat : t >= q[p].tail =>
         y.head + (Total(Shares(take, p, t)) - Share(take[c], p, t) + Share(x, p, t)) <= t
  BY <1>12
<1> HIDE DEF p
<1>16. take[c].prod = p
  BY DEF p
<1> QED BY <1>2, <1>5, <1>6, <1>7, <1>9, <1>13, <1>14, <1>15, <1>16, CountingStep

LEMMA AdvanceKeeps ==
  ASSUME IInv, NEW c \in Consumers, Advance(c)
  PROVE  IInv'
<1> DEFINE p == take[c].prod
           g == take[c].got
           y == [q[p] EXCEPT !.head = @ + g]
           x == [pc |-> "last", prod |-> p, got |-> g, index |-> q[p].head]
<1>1. take[c] \in [pc : {"head"}, prod : Producers, excess : {0}, got : Nat]
  BY DEF IInv, TypeOK, Advance, In, TakeOK, NoCall
<1>2. p \in Producers /\ take[c].excess = 0 /\ g \in Nat /\ take[c].pc = "head"
  BY <1>1
<1>3. QueueOK(q[p])
  BY <1>2 DEF IInv, TypeOK
<1>4. q[p].tail \in Nat /\ q[p].head \in Nat /\ q[p].opt \in Nat /\ q[p].over \in Nat
  BY <1>3 DEF QueueOK
<1>5. q' = [q EXCEPT ![p] = y] /\ UNCHANGED plan /\ Go(c, x)
  BY DEF Advance, Prod
<1>6. QueueOK(y)
  BY <1>2, <1>3, FieldsOfCounters
<1>7. /\ y.tail = q[p].tail /\ y.head = q[p].head + g /\ y.opt = q[p].opt /\ y.over = q[p].over
  BY <1>3 DEF QueueOK
<1>8. TakeOK(x) /\ x.pc = "last" /\ x.prod = p
  BY <1>2 DEF TakeOK
<1>9. Debt(take[c], p) = g /\ Debt(x, p) = 0
  BY <1>2, <1>8 DEF Debt, Owing
<1>10. ASSUME NEW t \in Nat, t >= q[p].tail
       PROVE  y.head + (Total(Shares(take, p, t)) - Share(take[c], p, t) + Share(x, p, t)) <= t
  <2>1. Share(take[c], p, t) = g /\ Share(x, p, t) = 0
    BY <1>2, <1>8 DEF Share, Owing
  <2>2. q[p].head + Total(Shares(take, p, t)) <= t
    BY <1>2, <1>10 DEF IInv, Cover
  <2>3. Total(Shares(take, p, t)) \in Nat
    BY <1>2, Functions DEF IInv, TypeOK
  <2>4. y.head = q[p].head + g
    BY <1>7
  <2> HIDE DEF p, g, x, y
  <2> QED BY <1>2, <1>4, <2>1, <2>2, <2>3, <2>4
<1> HIDE DEF x, y, g
<1>11. y.opt - y.over - y.head - Debt(x, p) = q[p].opt - q[p].over - q[p].head - Debt(take[c], p)
  BY <1>2, <1>4, <1>7, <1>9
<1>12. y.over >= q[p].over /\ ~(x.pc \in {"claim", "check"})
  BY <1>4, <1>7, <1>8
<1>13. \A t \in Nat : t >= q[p].tail =>
         y.head + (Total(Shares(take, p, t)) - Share(take[c], p, t) + Share(x, p, t)) <= t
  BY <1>10
<1> HIDE DEF p
<1>14. take[c].prod = p
  BY DEF p
<1> QED BY <1>2, <1>5, <1>6, <1>7, <1>8, <1>11, <1>12, <1>13, <1>14, CountingStep

-------------------------------------------------------------------------------
LEMMA InitIInv ==
  ASSUME Init
  PROVE  IInv
<1>1. PICK kind \in [Producers -> BOOLEAN] :
        q = [p \in Producers |->
              [isExplicit |-> kind[p], tail |-> 0, head |-> 0, opt |-> 0, over |-> 0,
               last |-> Size(kind[p]) - 1, front |-> 0, used |-> 0, ring |-> <<>>,
               undone |-> FALSE]]
  BY DEF Init
<1>2. ASSUME NEW p \in Producers
      PROVE  /\ QueueOK(q[p]) /\ q[p].tail = 0 /\ q[p].head = 0 /\ q[p].opt = 0 /\ q[p].over = 0
  BY <1>1 DEF QueueOK
<1>3. /\ plan = [p \in Producers |-> NoCall] /\ take = [c \in Consumers |-> NoCall]
      /\ NoCall.pc = "idle"
  BY DEF Init, NoCall
<1>4. DOMAIN q = Producers
  BY <1>1
<1>5. TypeOK
  BY <1>2, <1>3, <1>4 DEF TypeOK, PlanOK, TakeOK
<1>6. ASSUME NEW p \in Producers, NEW t \in Nat
      PROVE  Total(Debts(take, p)) = 0 /\ Total(Shares(take, p, t)) = 0
  <2>1. \A c \in Consumers : Debt(take[c], p) = 0 /\ Share(take[c], p, t) = 0
    BY <1>3 DEF Debt, Share, Owing
  <2>2. /\ Debts(take, p) = [c \in Consumers |-> 0] /\ Shares(take, p, t) = [c \in Consumers |-> 0]
    BY <2>1 DEF Debts, Shares
  <2>3. Units([c \in Consumers |-> 0]) = {}
    BY DEF Units
  <2> QED BY <2>2, <2>3, FS_EmptySet DEF Total
<1>7. Balance
  <2> SUFFICES ASSUME NEW p \in Producers
               PROVE  q[p].opt - q[p].over = q[p].head + Total(Debts(take, p))
    BY DEF Balance
  <2>1. Total(Debts(take, p)) = 0
    BY <1>6
  <2> QED BY <1>2, <2>1
<1>8. Cover
  <2> SUFFICES ASSUME NEW p \in Producers, NEW t \in Nat
               PROVE  q[p].head + Total(Shares(take, p, t)) <= t
    BY DEF Cover
  <2>1. Total(Shares(take, p, t)) = 0
    BY <1>6
  <2> QED BY <1>2, <2>1
<1>9. Snapshot
  BY <1>3 DEF Snapshot
<1> QED BY <1>5, <1>7, <1>8, <1>9 DEF IInv

LEMMA NextIInv ==
  ASSUME IInv, [Next]_vars
  PROVE  IInv'
<1>1. ASSUME UNCHANGED <<q, plan, take>>
      PROVE  IInv'
  BY <1>1, QuietStep DEF IInv, TypeOK, QueueOK, Quiet
<1>2. ASSUME NEW p \in Producers, ImplicitEnqueue(p) \/ ExplicitEnqueue(p)
      PROVE  IInv'
  BY <1>2, EnqueueQuiet, QuietStep
<1>3. ASSUME NEW c \in Consumers, NEW P \in SUBSET Producers, TakeFrom(c, P)
      PROVE  IInv'
  <2>1. CASE \/ \E p \in P, max \in Sizes : Look(c, p, max)
             \/ LoadLast(c) \/ LoadKey(c) \/ CopyOut(c) \/ SetEmpty(c) \/ Release(c)
    BY <2>1, DequeueQuiet, QuietStep
  <2>2. CASE Claim(c)
    BY <2>2, ClaimKeeps
  <2>3. CASE Check(c)
    BY <2>3, CheckKeeps
  <2>4. CASE GiveBack(c)
    BY <2>4, GiveBackKeeps
  <2>5. CASE Advance(c)
    BY <2>5, AdvanceKeeps
  <2> QED BY <1>3, <2>1, <2>2, <2>3, <2>4, <2>5 DEF TakeFrom
<1>4. CASE \E p \in Producers : IF q[p].isExplicit THEN ExplicitEnqueue(p) ELSE ImplicitEnqueue(p)
  BY <1>2, <1>4
<1>5. CASE \E c \in Consumers : ImplicitDequeue(c) \/ ExplicitDequeue(c)
  BY <1>3, <1>5 DEF ImplicitDequeue, ExplicitDequeue
<1>6. CASE Borrow \/ Restore \/ UNCHANGED vars
  BY <1>1, <1>6 DEF Borrow, Restore, vars
<1> QED BY <1>4, <1>5, <1>6 DEF Next

(* What the counters say.                                                    *)
LEMMA Covered ==
  ASSUME IInv
  PROVE  NeverOverdrawn
<1> SUFFICES ASSUME NEW p \in Producers
             PROVE  q[p].head <= q[p].tail
  BY DEF NeverOverdrawn
<1>1. q[p].tail \in Nat /\ q[p].head \in Nat /\ q[p].tail >= q[p].tail
  BY DEF IInv, TypeOK, QueueOK
<1>2. q[p].head + Total(Shares(take, p, q[p].tail)) <= q[p].tail
  BY <1>1 DEF IInv, Cover
<1>3. Total(Shares(take, p, q[p].tail)) \in Nat
  BY <1>1, Functions DEF IInv, TypeOK
<1> QED BY <1>1, <1>2, <1>3

(* Nobody gets past the elements there are: for every set of producers of    *)
(* either kind, of consumers, and whatever counts they ask for, the head of  *)
(* a producer never passes its tail, although a dequeue loads and raises the *)
(* overcommit, the optimistic count, the tail and the head one at a time.    *)
THEOREM NobodyOverdraws == Spec => []NeverOverdrawn
  BY Covered, InitIInv, NextIInv, PTL DEF Spec

(* The two counts of a producer differ by the elements taken when no dequeue *)
(* is under way: the part of Settles that is about counts.                   *)
CountsAgree ==
  (\A c \in Consumers : In(c, "idle")) => \A p \in Producers : q[p].opt - q[p].over = q[p].head

(* A consumer that lost the race for the last elements gives back exactly    *)
(* what it had claimed too much (concurrentqueue.h:2030), whoever ran in     *)
(* between, so that the counts agree again when the calls are over.          *)
THEOREM NothingStaysOwed == Spec => []CountsAgree
<1>1. IInv => CountsAgree
  <2> SUFFICES ASSUME IInv, \A c \in Consumers : In(c, "idle"), NEW p \in Producers
               PROVE  q[p].opt - q[p].over = q[p].head
    BY DEF CountsAgree
  <2>1. \A c \in Consumers : Debt(take[c], p) = 0
    BY DEF In, Debt, Owing
  <2>2. Units(Debts(take, p)) = {}
    BY <2>1 DEF Debts, Units
  <2>3. Total(Debts(take, p)) = 0
    BY <2>2, FS_EmptySet DEF Total
  <2>4. q[p].head \in Nat
    BY DEF IInv, TypeOK, QueueOK
  <2> QED BY <2>3, <2>4 DEF IInv, Balance
<1> QED BY <1>1, InitIInv, NextIInv, PTL DEF Spec
-------------------------------------------------------------------------------
(* Blocks.  The block with number n of a producer holds its indices from     *)
(* n * BLOCK_SIZE on; its entry is in slot n modulo the size of the index,   *)
(* whatever slot a call starts from.                                         *)

Working == {"last", "key", "copy", "empty", "release"}
Placed == {"copy", "empty", "release"}
TailNo(p) == BlockNo(q[p].tail - 1)
Built(p) == IF plan[p].pc = "idle" THEN 0 ELSE Len(plan[p].new)
Number(c) == BlockNo(take[c].index)
Span(c) == take[c].index .. take[c].index + take[c].got - 1

(* The indices of p that c is going to dequeue; those that are still in the  *)
(* block with number n, or will be.                                          *)
Pending(p, c) ==
  {i \in Int : /\ take[c].pc \in Working /\ take[c].prod = p /\ i \in Span(c)
               /\ take[c].pc = "release" => BlockNo(i) # Number(c)}
Rem(p, n) ==
  {i \in Int : BlockNo(i) = n /\ (i >= q[p].head \/ \E c \in Consumers : i \in Pending(p, c))}

Entry(p, n) == entry[p][n % IndexSize(p)]
Good(p, s) == s \in 0 .. IndexSize(p) - 1 /\ entry[p][s].key % IndexSize(p) = s

(* Where the block with number n is in the ring of an explicit producer: the  *)
(* blocks of the enqueue under way come behind the tail block.                *)
Place(p, n) == Len(q[p].ring) - Built(p) - (TailNo(p) - n)

LEMMA ShortPlace ==
  ASSUME NEW L \in Nat, NEW B \in Nat, NEW T \in Int, NEW k \in Nat
  PROVE  L - 0 - ((T + B) - (T + k)) = L - B + k
OBVIOUS

(* Types.                                                                    *)
Cells == {Hole} \cup (Producers \X Nat)
Structure ==
  /\ DOMAIN entry = Producers
  /\ \A p \in Producers :
       /\ IndexSize(p) \in Nat \ {0}
       /\ q[p].isExplicit => Cardinality(Blocks) <= IndexSize(p)
       /\ entry[p] \in [0 .. IndexSize(p) - 1 -> [key : Int, block : Blocks \cup {NoBlock}]]
       /\ q[p].ring \in Seq(Blocks)
       /\ plan[p].pc # "idle" =>
            /\ plan[p].pc \in {"grow", "block", "inject", "fill"}
            /\ plan[p].n \in Nat \ {0} /\ plan[p].need \in Int
            /\ plan[p].new \in Seq(Blocks) /\ plan[p].start \in Seq(Blocks)
  /\ blk \in [Blocks -> [cell : [0 .. BLOCK_SIZE - 1 -> Cells], done : 0 .. BLOCK_SIZE]]
  /\ fresh \subseteq Blocks /\ free \subseteq Blocks /\ away \subseteq Blocks

(* A call works on indices it alone claimed, and knows where they are.  A    *)
(* call that releases a block is the only one to do so.                      *)
CallOK(c) ==
  /\ take[c].pc \in {"claim", "check"} => take[c].want > 0
  /\ take[c].pc = "head" => take[c].got > 0
  /\ take[c].pc \in Working =>
       /\ take[c].index \in Nat /\ take[c].got \in Nat \ {0}
       /\ take[c].index + take[c].got <= q[take[c].prod].head
  /\ take[c].pc = "key" => Good(take[c].prod, take[c].slot)
  /\ take[c].pc \in Placed => take[c].slot = Number(c) % IndexSize(take[c].prod)
  /\ take[c].pc \in {"empty", "release"} =>
       /\ take[c].block \in Blocks
       /\ Entry(take[c].prod, Number(c)).key = Number(c)
       /\ Entry(take[c].prod, Number(c)).block = take[c].block
  /\ take[c].pc = "release" =>
       /\ ~q[take[c].prod].isExplicit /\ Rem(take[c].prod, Number(c)) = {}
       /\ blk[take[c].block].done = BLOCK_SIZE
Apart(c, d) ==
  /\ \A p \in Producers : Pending(p, c) \cap Pending(p, d) = {}
  /\ take[c].pc = "release" /\ take[d].pc = "release" /\ take[c].prod = take[d].prod =>
       Number(c) # Number(d)

(* A block that still has elements to come or to go is in its entry, counts   *)
(* those gone, and is in its place in the ring or is the tail block.          *)
LiveOK(p, n) ==
  /\ Entry(p, n).key = n /\ Entry(p, n).block \in Blocks
  /\ blk[Entry(p, n).block].done = BLOCK_SIZE - Cardinality(Rem(p, n))
  /\ q[p].isExplicit =>
       /\ Place(p, n) >= 1 /\ q[p].ring[Place(p, n)] = Entry(p, n).block
  /\ ~q[p].isExplicit /\ n = TailNo(p) =>
       Len(q[p].ring) >= 1 /\ q[p].ring[Len(q[p].ring)] = Entry(p, n).block
Live(p) == \A n \in Nat : n <= TailNo(p) /\ Rem(p, n) # {} => LiveOK(p, n)

(* The index and the ring.                                                   *)
Room(p) ==
  /\ Good(p, q[p].last) /\ Good(p, TailNo(p) % IndexSize(p))
  /\ q[p].isExplicit =>
       /\ q[p].front = (TailNo(p) + Built(p) + 1) % IndexSize(p)
       /\ \A i, j \in 1 .. Len(q[p].ring) : q[p].ring[i] = q[p].ring[j] => i = j
  /\ ~q[p].isExplicit =>
       /\ plan[p].pc # "block" => q[p].last = (TailNo(p) + Built(p)) % IndexSize(p)
       /\ plan[p].pc = "block" => /\ q[p].last = (TailNo(p) + Built(p) + 1) % IndexSize(p)
                                  /\ entry[p][q[p].last].key = TailNo(p) + Built(p) + 1
                                  /\ entry[p][q[p].last].block = NoBlock
       /\ \A s, u \in 0 .. IndexSize(p) - 1 :
            entry[p][s].block = entry[p][u].block /\ entry[p][s].block # NoBlock => s = u

(* The blocks that an enqueue has got so far.                                *)
NewOK(p, k) ==
  /\ Entry(p, TailNo(p) + k).key = TailNo(p) + k
  /\ Entry(p, TailNo(p) + k).block = plan[p].new[k]
  /\ ~q[p].isExplicit \/ plan[p].pc = "fill" => blk[plan[p].new[k]].done = 0
  /\ q[p].isExplicit => q[p].ring[Len(q[p].ring) - Built(p) + k] = plan[p].new[k]
Building(p) == plan[p].pc # "idle" =>
  /\ plan[p].need = BlockNo(q[p].tail + plan[p].n - 1) - TailNo(p)
  /\ plan[p].pc = "fill" => Built(p) = plan[p].need
  /\ \A k \in 1 .. Built(p) : NewOK(p, k)
  /\ q[p].isExplicit =>
       /\ plan[p].pc # "block" /\ plan[p].front = (TailNo(p) + 1) % IndexSize(p)
       /\ Built(p) <= Len(q[p].ring)
       /\ plan[p].start = <<>> => Built(p) = Len(q[p].ring)
       /\ plan[p].start # <<>> /\ Built(p) < Len(q[p].ring) =>
            q[p].ring[Len(q[p].ring) - Built(p)] = plan[p].start[Len(plan[p].start)]
  /\ ~q[p].isExplicit => plan[p].start = q[p].ring /\ plan[p].pc # "inject"

(* Nobody has a block that somebody else has.                                *)
Pools ==
  /\ fresh \cap free = {} /\ (fresh \cup free) \cap away = {}
  /\ \A p \in Producers : Attached(p) \cap (fresh \cup free \cup away) = {}
  /\ \A p, r \in Producers : p # r => Attached(p) \cap Attached(r) = {}

BlockInv ==
  /\ Structure /\ Pools
  /\ \A c \in Consumers : CallOK(c)
  /\ \A c, d \in Consumers : c # d => Apart(c, d)
  /\ \A p \in Producers : Live(p) /\ Room(p) /\ Building(p)
-------------------------------------------------------------------------------
(* Arithmetic.                                                               *)

(* Quotient and remainder.                                                   *)
LEMMA DivMod ==
  ASSUME NEW a \in Int, NEW b \in Nat \ {0}
  PROVE  /\ a \div b \in Int /\ a % b \in 0 .. b - 1 /\ a % b \in Nat
         /\ a = b * (a \div b) + (a % b)
<1>1. a \div b \in Int
  OBVIOUS
<1>2. a % b \in 0 .. b - 1
  OBVIOUS
<1>3. a = b * (a \div b) + (a % b)
  OBVIOUS
<1> QED BY <1>1, <1>2, <1>3

(* Multiples.                                                                *)
LEMMA Times ==
  ASSUME NEW b \in Nat \ {0}, NEW m \in Int, NEW n \in Int
  PROVE  /\ b * m \in Int /\ b * n \in Int /\ (m < n => b * m + b <= b * n)
         /\ b * (m + n) = b * m + b * n /\ b * (m - n) = b * m - b * n
         /\ b * (m + 1) = b * m + b
<1>1. b * m \in Int /\ b * n \in Int
  OBVIOUS
<1>2. b * (m + n) = b * m + b * n /\ b * (m - n) = b * m - b * n /\ b * (m + 1) = b * m + b
  OBVIOUS
<1>3. ASSUME m < n PROVE b * m + b <= b * n
  <2>1. PICK k \in Nat : n = m + 1 + k
    BY <1>3
  <2>2. b * n = b * m + b + b * k /\ b * k \in Nat
    BY <2>1
  <2> QED BY <1>1, <2>2
<1> QED BY <1>1, <1>2, <1>3

(* Quotient and remainder are unique.                                        *)
LEMMA Unique ==
  ASSUME NEW b \in Nat \ {0}, NEW m \in Int, NEW r \in 0 .. b - 1
  PROVE  (b * m + r) \div b = m /\ (b * m + r) % b = r
<1> DEFINE a == b * m + r
           n == a \div b
           s == a % b
<1>1. a \in Int /\ b * m \in Int
  BY Times
<1>2. n \in Int /\ s \in 0 .. b - 1 /\ a = b * n + s
  BY <1>1, DivMod
<1> HIDE DEF n, s
<1>3. b * n \in Int
  BY <1>2, Times
<1>4. ~(m < n)
  BY <1>1, <1>2, <1>3, Times
<1>5. ~(n < m)
  BY <1>1, <1>2, <1>3, Times
<1>6. n = m
  BY <1>2, <1>4, <1>5
<1>7. s = r
  BY <1>1, <1>2, <1>6
<1> QED BY <1>6, <1>7 DEF n, s

(* Adding to a number or to its remainder is the same.                       *)
LEMMA Congruent ==
  ASSUME NEW b \in Nat \ {0}, NEW a \in Int, NEW k \in Int
  PROVE  ((a % b) + k) % b = (a + k) % b
<1> DEFINE m == a \div b
           x == (a % b) + k
           n == x \div b
           r == x % b
<1>1. m \in Int /\ a % b \in Int /\ a = b * m + (a % b)
  BY DivMod
<1>2. x \in Int
  BY <1>1
<1>3. n \in Int /\ r \in 0 .. b - 1 /\ x = b * n + r
  BY <1>2, DivMod
<1>4. a + k = b * m + x /\ b * m \in Int /\ b * n \in Int
  BY <1>1, Times
<1> HIDE DEF x
<1>5. b * (m + n) = b * m + b * n
  <2> HIDE DEF m, n
  <2> QED BY <1>1, <1>3, Times
<1>6. a + k = b * (m + n) + r
  <2> HIDE DEF m, n, r
  <2> QED BY <1>2, <1>3, <1>4, <1>5
<1>7. m + n \in Int
  BY <1>1, <1>3
<1>8. (b * (m + n) + r) % b = r
  <2> HIDE DEF m, n, r
  <2> QED BY <1>3, <1>7, Unique
<1> QED BY <1>6, <1>8 DEF x

(* Two numbers in one slot are a whole index apart.                          *)
LEMMA SlotsApart ==
  ASSUME NEW b \in Nat \ {0}, NEW m \in Int, NEW n \in Int, m < n, n - m < b
  PROVE  m % b # n % b
<1>1. SUFFICES ASSUME m % b = n % b PROVE FALSE
  OBVIOUS
<1> DEFINE i == m \div b
           j == n \div b
           r == m % b
<1>2. i \in Int /\ j \in Int /\ r \in 0 .. b - 1 /\ m = b * i + r /\ n = b * j + r
  BY <1>1, DivMod
<1> HIDE DEF i, j, r
<1>3. b * i \in Int /\ b * j \in Int
      /\ (i < j => b * i + b <= b * j) /\ (j < i => b * j + b <= b * i)
  BY <1>2, Times
<1>4. i = j \/ i < j \/ j < i
  BY <1>2
<1> QED BY <1>2, <1>3, <1>4

(* The block with number n holds the indices from BLOCK_SIZE * n on.         *)
LEMMA BlockNumbers ==
  /\ BLOCK_SIZE \in Nat \ {0}
  /\ \A i \in Int : /\ BlockNo(i) \in Int /\ BLOCK_SIZE * BlockNo(i) <= i
                    /\ i < BLOCK_SIZE * BlockNo(i) + BLOCK_SIZE
                    /\ i % BLOCK_SIZE = i - BLOCK_SIZE * BlockNo(i)
                    /\ i % BLOCK_SIZE \in 0 .. BLOCK_SIZE - 1
  /\ \A i, n \in Int : BLOCK_SIZE * n <= i /\ i < BLOCK_SIZE * n + BLOCK_SIZE => BlockNo(i) = n
  /\ \A i, j \in Int : i <= j => BlockNo(i) <= BlockNo(j)
  /\ \A i \in Nat : BlockNo(i) \in Nat
<1>1. BLOCK_SIZE \in Nat \ {0}
  BY QueueAssumption
<1>2. ASSUME NEW i \in Int
      PROVE  /\ BlockNo(i) \in Int /\ BLOCK_SIZE * BlockNo(i) <= i
             /\ i < BLOCK_SIZE * BlockNo(i) + BLOCK_SIZE
             /\ i % BLOCK_SIZE = i - BLOCK_SIZE * BlockNo(i)
             /\ i % BLOCK_SIZE \in 0 .. BLOCK_SIZE - 1
  <2>1. BlockNo(i) \in Int /\ i % BLOCK_SIZE \in 0 .. BLOCK_SIZE - 1
        /\ i = BLOCK_SIZE * BlockNo(i) + (i % BLOCK_SIZE)
    BY <1>1, DivMod DEF BlockNo
  <2> DEFINE n == BlockNo(i)
             r == i % BLOCK_SIZE
  <2>2. BLOCK_SIZE * n \in Int
    BY <1>1, <2>1, Times
  <2> HIDE DEF n, r
  <2>3. BLOCK_SIZE * n <= i /\ i < BLOCK_SIZE * n + BLOCK_SIZE /\ r = i - BLOCK_SIZE * n
    BY <1>1, <2>1, <2>2 DEF n, r
  <2> QED BY <2>1, <2>3 DEF n, r
<1>3. ASSUME NEW i \in Int, NEW n \in Int, BLOCK_SIZE * n <= i, i < BLOCK_SIZE * n + BLOCK_SIZE
      PROVE  BlockNo(i) = n
  BY <1>1, <1>3, Times, Unique DEF BlockNo
<1>4. ASSUME NEW i \in Int, NEW j \in Int, i <= j
      PROVE  BlockNo(i) <= BlockNo(j)
  <2> DEFINE m == BlockNo(i)
             n == BlockNo(j)
  <2>1. m \in Int /\ n \in Int /\ BLOCK_SIZE * m <= i /\ j < BLOCK_SIZE * n + BLOCK_SIZE
    BY <1>2
  <2> HIDE DEF m, n
  <2>2. BLOCK_SIZE * m \in Int /\ BLOCK_SIZE * n \in Int
        /\ (n < m => BLOCK_SIZE * n + BLOCK_SIZE <= BLOCK_SIZE * m)
    BY <1>1, <2>1, Times
  <2>3. m <= n
    BY <1>1, <1>4, <2>1, <2>2
  <2> QED BY <2>3 DEF m, n
<1>5. BLOCK_SIZE * 0 = 0
  BY <1>1
<1>6. BlockNo(0) = 0
  BY <1>1, <1>3, <1>5
<1>7. \A i \in Nat : BlockNo(i) \in Nat
  <2> SUFFICES ASSUME NEW i \in Nat PROVE BlockNo(i) \in Nat
    OBVIOUS
  <2>1. 0 <= BlockNo(i)
    BY <1>4, <1>6
  <2>2. BlockNo(i) \in Int
    BY <1>2
  <2> QED BY <2>1, <2>2
<1> QED BY <1>1, <1>2, <1>3, <1>4, <1>7

(* What is left of a block can be counted.                                   *)
LEMMA Countable ==
  ASSUME NEW n \in Int, NEW S, \A i \in S : i \in Int /\ BlockNo(i) = n
  PROVE  /\ IsFiniteSet(S) /\ Cardinality(S) \in 0 .. BLOCK_SIZE
         /\ (Cardinality(S) = 0 <=> S = {})
         /\ (\A i \in Int : BlockNo(i) = n => i \in S) => Cardinality(S) = BLOCK_SIZE
<1> DEFINE a == BLOCK_SIZE * n
           I == a .. a + BLOCK_SIZE - 1
<1>1. a \in Int /\ BLOCK_SIZE \in Nat \ {0}
  BY BlockNumbers, Times
<1>2. ASSUME NEW i \in Int
      PROVE  BlockNo(i) = n <=> i \in I
  <2>1. BlockNo(i) = n <=> a <= i /\ i < a + BLOCK_SIZE
    BY BlockNumbers
  <2> HIDE DEF a
  <2> QED BY <1>1, <2>1
<1>3. IsFiniteSet(I) /\ Cardinality(I) = BLOCK_SIZE
  <2> HIDE DEF a
  <2>1. a + BLOCK_SIZE - 1 \in Int
    BY <1>1
  <2>2. IsFiniteSet(I)
        /\ Cardinality(I) = IF a > a + BLOCK_SIZE - 1 THEN 0 ELSE a + BLOCK_SIZE - 1 - a + 1
    BY <1>1, <2>1, FS_Interval
  <2> QED BY <1>1, <2>2
<1>4. S \subseteq I
  BY <1>2
<1>5. (\A i \in Int : BlockNo(i) = n => i \in S) => S = I
  <2>1. \A i \in I : i \in Int
    BY <1>1
  <2> QED BY <1>2, <1>4, <2>1
<1> HIDE DEF I
<1>6. IsFiniteSet(S) /\ Cardinality(S) <= BLOCK_SIZE /\ Cardinality(S) \in Nat
  BY <1>3, <1>4, FS_Subset, FS_CardinalityType
<1>7. Cardinality(S) = 0 <=> S = {}
  BY <1>6, FS_EmptySet
<1>8. Cardinality(S) \in 0 .. BLOCK_SIZE
  BY <1>1, <1>6
<1>9. (\A i \in Int : BlockNo(i) = n => i \in S) => Cardinality(S) = BLOCK_SIZE
  BY <1>3, <1>5
<1> QED BY <1>6, <1>7, <1>8, <1>9

PartEnd(i, g) == Least(i + g, (BlockNo(i) + 1) * BLOCK_SIZE)
(* A part of a call ends with the block or with the call.                    *)
LEMMA PartInterval ==
  ASSUME NEW i \in Nat, NEW g \in Nat \ {0}, NEW m \in Int,
         m = PartEnd(i, g)
  PROVE  /\ m \in Int /\ m - i \in 1 .. g
         /\ \A j \in Int : j \in i .. m - 1 <=> j \in i .. i + g - 1 /\ BlockNo(j) = BlockNo(i)
         /\ m - i # g => BlockNo(m) = BlockNo(i) + 1
<1>1. BLOCK_SIZE \in Nat \ {0}
  BY BlockNumbers
<1>2. PICK n \in Int : n = BlockNo(i) /\ BLOCK_SIZE * n <= i /\ i < BLOCK_SIZE * n + BLOCK_SIZE
  BY BlockNumbers
<1>3. PICK b \in Int, e \in Int : b = BLOCK_SIZE * n /\ e = b + BLOCK_SIZE
                                 /\ e = (n + 1) * BLOCK_SIZE /\ e = BLOCK_SIZE * (n + 1)
  BY <1>1, Times
<1>4. m = Least(i + g, e)
  BY <1>2, <1>3 DEF PartEnd
<1>5. i \in Int /\ g \in Int /\ g > 0 /\ b <= i /\ i < e /\ BLOCK_SIZE \in Int
  BY <1>1, <1>2, <1>3
<1>6. m \in Int /\ m <= e /\ m <= i + g /\ m - i \in 1 .. g /\ (m = e \/ m = i + g)
  BY <1>4, <1>5 DEF Least
<1>7. ASSUME NEW j \in Int
      PROVE  j \in i .. m - 1 <=> j \in i .. i + g - 1 /\ BlockNo(j) = BlockNo(i)
  <2>1. BlockNo(j) = n <=> b <= j /\ j < e
    <3>1. BlockNo(j) = n <=> BLOCK_SIZE * n <= j /\ j < BLOCK_SIZE * n + BLOCK_SIZE
      BY BlockNumbers
    <3> QED BY <1>3, <3>1
  <2>2. j \in i .. m - 1 <=> i <= j /\ j < m
    BY <1>5, <1>6
  <2>3. j \in i .. i + g - 1 <=> i <= j /\ j < i + g
    BY <1>5
  <2> QED BY <1>2, <1>5, <1>6, <2>1, <2>2, <2>3
<1>8. m - i # g => BlockNo(m) = BlockNo(i) + 1
  <2> SUFFICES ASSUME m - i # g PROVE BlockNo(m) = n + 1
    BY <1>2
  <2>1. m = BLOCK_SIZE * (n + 1)
    BY <1>3, <1>5, <1>6
  <2>2. m < BLOCK_SIZE * (n + 1) + BLOCK_SIZE /\ BLOCK_SIZE * (n + 1) <= m
    BY <1>1, <1>6, <2>1
  <2> QED BY <1>6, <2>2, BlockNumbers
<1> QED BY <1>6, <1>7, <1>8

(* The part of a call that lies in the block it is at, and what follows.     *)
LEMMA PartOf ==
  ASSUME NEW c, take[c].index \in Nat, take[c].got \in Nat \ {0}
  PROVE  /\ Cardinality(Part(c)) \in 1 .. take[c].got
         /\ \A i \in Int : i \in Part(c)
              <=> i \in take[c].index .. take[c].index + Cardinality(Part(c)) - 1
         /\ \A i \in Int : i \in Part(c) <=> i \in Span(c) /\ BlockNo(i) = Number(c)
         /\ \A i \in Part(c) : i \in Int
         /\ Cardinality(Part(c)) # take[c].got =>
              BlockNo(take[c].index + Cardinality(Part(c))) = Number(c) + 1
<1>1. PICK i \in Nat, g \in Nat \ {0} : i = take[c].index /\ g = take[c].got
  OBVIOUS
<1>2. PICK m \in Int : m = PartEnd(i, g)
  <2>1. (BlockNo(i) + 1) * BLOCK_SIZE \in Int
    BY BlockNumbers
  <2> QED BY <2>1 DEF Least, PartEnd
<1>3. Part(c) = i .. m - 1
  BY <1>1, <1>2 DEF Part, PartEnd
<1>4. /\ m \in Int /\ m - i \in 1 .. g
      /\ \A j \in Int : j \in i .. m - 1 <=> j \in i .. i + g - 1 /\ BlockNo(j) = BlockNo(i)
      /\ m - i # g => BlockNo(m) = BlockNo(i) + 1
  BY <1>2, PartInterval
<1>5. Cardinality(Part(c)) = m - i
  BY <1>3, <1>4, FS_Interval
<1>6. i + (m - i) = m /\ i + (m - i) - 1 = m - 1
  BY <1>4
<1>7. Span(c) = i .. i + g - 1 /\ Number(c) = BlockNo(i)
  BY <1>1 DEF Span, Number
<1>8. \A j \in i .. m - 1 : j \in Int
  BY <1>4
<1>9. BlockNo(take[c].index + Cardinality(Part(c))) = BlockNo(m)
  BY <1>1, <1>5, <1>6
<1>10. Cardinality(Part(c)) \in 1 .. take[c].got
  BY <1>1, <1>4, <1>5
<1>11. take[c].index .. take[c].index + Cardinality(Part(c)) - 1 = i .. m - 1
  BY <1>1, <1>5, <1>6
<1> QED BY <1>1, <1>3, <1>4, <1>5, <1>7, <1>8, <1>9, <1>10, <1>11

-------------------------------------------------------------------------------
(* The index of an explicit producer has room for every block.               *)
LEMMA IndexSizes ==
  /\ Size(TRUE) \in Nat \ {0} /\ Cardinality(Blocks) <= Size(TRUE)
  /\ Size(FALSE) \in Nat \ {0}
<1> DEFINE n == Cardinality(Blocks)
           m == CeilPow2(n)
<1>1. n \in Nat
  BY QueueAssumption, FS_CardinalityType
<1>2. m \in 1 .. 2 * n /\ m >= n
  BY PowerOfTwo DEF CeilPow2
<1>3. m \in Nat \ {0}
  BY <1>1, <1>2
<1>5. EXPLICIT_INITIAL_INDEX_SIZE \in Nat \ {0} /\ IMPLICIT_INITIAL_INDEX_SIZE \in Nat \ {0}
  BY QueueAssumption
<1>6. ExplicitIndexSize = IF m > EXPLICIT_INITIAL_INDEX_SIZE THEN m ELSE EXPLICIT_INITIAL_INDEX_SIZE
  BY DEF ExplicitIndexSize
<1> HIDE DEF m, n
<1>7. ExplicitIndexSize \in Nat \ {0} /\ n <= ExplicitIndexSize
  BY <1>1, <1>2, <1>3, <1>5, <1>6
<1> QED BY <1>5, <1>7 DEF Size, n

(* Nobody has a block at first.                                              *)
LEMMA InitBlocks ==
  ASSUME Init
  PROVE  BlockInv
<1>1. PICK kind \in [Producers -> BOOLEAN] :
       /\ q = [p \in Producers |->
                [isExplicit |-> kind[p], tail |-> 0, head |-> 0, opt |-> 0, over |-> 0,
                 last |-> Size(kind[p]) - 1, front |-> 0, used |-> 0, ring |-> <<>>,
                 undone |-> FALSE]]
       /\ entry = [p \in Producers |->
                    [s \in 0..(Size(kind[p]) - 1) |-> [key |-> -1, block |-> NoBlock]]]
  BY DEF Init
<1>2. /\ blk = [b \in Blocks |-> [cell |-> [o \in 0..(BLOCK_SIZE - 1) |-> Hole], done |-> 0]]
      /\ fresh = Blocks /\ free = {} /\ away = {}
      /\ plan = [p \in Producers |-> NoCall] /\ take = [c \in Consumers |-> NoCall]
  BY DEF Init
<1>3. ASSUME NEW p \in Producers
      PROVE  /\ q[p].isExplicit = kind[p] /\ q[p].isExplicit \in BOOLEAN
             /\ q[p].tail = 0 /\ q[p].head = 0 /\ q[p].ring = <<>>
             /\ q[p].front = 0 /\ q[p].last = IndexSize(p) - 1
             /\ IndexSize(p) \in Nat \ {0}
             /\ q[p].isExplicit => Cardinality(Blocks) <= IndexSize(p)
             /\ plan[p].pc = "idle" /\ Built(p) = 0
  BY <1>1, <1>2, IndexSizes DEF Built, NoCall, IndexSize
<1>14. ASSUME NEW p \in Producers
       PROVE  /\ entry[p] = [s \in 0..(IndexSize(p) - 1) |-> [key |-> -1, block |-> NoBlock]]
              /\ \A s \in 0..(IndexSize(p) - 1) : entry[p][s].key = -1 /\ entry[p][s].block = NoBlock
  BY <1>1 DEF IndexSize
<1>4. ASSUME NEW c \in Consumers PROVE take[c].pc = "idle"
  BY <1>2 DEF NoCall
<1>5. ASSUME NEW p \in Producers PROVE TailNo(p) = -1
  <2>1. BLOCK_SIZE \in Nat \ {0} /\ BLOCK_SIZE * (-1) <= -1 /\ -1 < BLOCK_SIZE * (-1) + BLOCK_SIZE
    BY BlockNumbers
  <2>2. BlockNo(-1) = -1
    BY <2>1, BlockNumbers
  <2>3. q[p].tail - 1 = -1
    BY <1>3
  <2> QED BY <2>2, <2>3 DEF TailNo
<1>6. ASSUME NEW p \in Producers PROVE (-1) % IndexSize(p) = IndexSize(p) - 1
  BY <1>3, Unique
<1>7. ASSUME NEW p \in Producers PROVE 0 % IndexSize(p) = 0
  BY <1>3, Unique
<1>8. ASSUME NEW p \in Producers PROVE Attached(p) = {}
  <2>1. CASE q[p].isExplicit
    BY <1>3, <2>1 DEF ToSet, Attached
  <2>2. CASE ~q[p].isExplicit
    BY <1>14, <2>2 DEF Attached
  <2> QED BY <2>1, <2>2
<1>9. Structure
  <2>1. DOMAIN entry = Producers
    BY <1>1
  <2>2. ASSUME NEW p \in Producers
        PROVE  /\ entry[p] \in [0 .. IndexSize(p) - 1 -> [key : Int, block : Blocks \cup {NoBlock}]]
               /\ q[p].ring \in Seq(Blocks)
    <3>1. q[p].ring = <<>>
      BY <1>3
    <3>2. entry[p] = [s \in 0..(IndexSize(p) - 1) |-> [key |-> -1, block |-> NoBlock]]
      BY <1>14
    <3>3. [key |-> -1, block |-> NoBlock] \in [key : Int, block : Blocks \cup {NoBlock}]
      OBVIOUS
    <3> QED BY <3>1, <3>2, <3>3
  <2>3. blk \in [Blocks -> [cell : [0 .. BLOCK_SIZE - 1 -> Cells], done : 0 .. BLOCK_SIZE]]
    BY <1>2, QueueAssumption DEF Cells
  <2> QED BY <1>2, <1>3, <2>1, <2>2, <2>3 DEF Structure
<1>10. Pools
  BY <1>2, <1>8 DEF Pools
<1>11. ASSUME NEW c \in Consumers PROVE CallOK(c)
  BY <1>4 DEF CallOK, Working, Placed
<1>12. ASSUME NEW c \in Consumers, NEW d \in Consumers PROVE Apart(c, d)
  BY <1>4 DEF Apart, Pending, Working
<1>13. ASSUME NEW p \in Producers PROVE Live(p) /\ Room(p) /\ Building(p)
  <2>1. Live(p)
    BY <1>5 DEF Live
  <2>2. Good(p, q[p].last) /\ Good(p, TailNo(p) % IndexSize(p))
    <3>1. PICK s \in Nat \ {0} : s = IndexSize(p)
      BY <1>3
    <3>2. s - 1 \in 0 .. s - 1
      BY <3>1
    <3>3. s - 1 \in 0 .. IndexSize(p) - 1
      BY <3>1, <3>2
    <3>4. entry[p][s - 1].key = -1
      BY <1>14, <3>3
    <3> QED BY <1>3, <1>5, <1>6, <3>1, <3>2, <3>4 DEF Good
  <2>3. q[p].isExplicit => /\ q[p].front = (TailNo(p) + Built(p) + 1) % IndexSize(p)
                           /\ \A i, j \in 1 .. Len(q[p].ring) : q[p].ring[i] = q[p].ring[j] => i = j
    <3>1. TailNo(p) + Built(p) + 1 = 0
      BY <1>3, <1>5
    <3>2. (TailNo(p) + Built(p) + 1) % IndexSize(p) = 0 % IndexSize(p)
      BY <3>1, Zenon
    <3>4. q[p].front = 0 /\ 0 % IndexSize(p) = 0
      BY <1>3, <1>7
    <3>3. Len(q[p].ring) = 0
      BY <1>3
    <3> QED BY <3>2, <3>3, <3>4
  <2>4. q[p].last = (TailNo(p) + Built(p)) % IndexSize(p)
    BY <1>3, <1>5, <1>6
  <2>5. \A s, u \in 0 .. IndexSize(p) - 1 :
            entry[p][s].block = entry[p][u].block /\ entry[p][s].block # NoBlock => s = u
    BY <1>14
  <2>6. Room(p)
    BY <1>3, <2>2, <2>3, <2>4, <2>5 DEF Room
  <2> QED BY <1>3, <2>1, <2>6 DEF Building
<1> QED BY <1>9, <1>10, <1>11, <1>12, <1>13 DEF BlockInv

-------------------------------------------------------------------------------
(* What the types and the counters say.                                      *)
LEMMA Basics ==
  ASSUME IInv
  PROVE  /\ \A p \in Producers : /\ q[p].tail \in Nat /\ q[p].head \in Nat
                                 /\ q[p].head <= q[p].tail /\ TailNo(p) \in Int
         /\ \A c \in Consumers : take[c].pc # "idle" => take[c].prod \in Producers
         /\ DOMAIN q = Producers /\ DOMAIN plan = Producers /\ DOMAIN take = Consumers
<1>1. ASSUME NEW p \in Producers
      PROVE  /\ q[p].tail \in Nat /\ q[p].head \in Nat /\ q[p].head <= q[p].tail
             /\ TailNo(p) \in Int
  <2>1. q[p].tail \in Nat /\ q[p].head \in Nat
    BY DEF IInv, TypeOK, QueueOK
  <2>2. q[p].tail - 1 \in Int
    BY <2>1
  <2>3. TailNo(p) \in Int
    BY <2>2, BlockNumbers DEF TailNo
  <2> QED BY <2>1, <2>3, Covered DEF NeverOverdrawn
<1>2. ASSUME NEW c \in Consumers, take[c].pc # "idle" PROVE take[c].prod \in Producers
  BY <1>2 DEF IInv, TypeOK, NoCall, TakeOK
<1> QED BY <1>1, <1>2 DEF IInv, TypeOK

(* The block numbers in use: those with elements to come or to go, and those *)
(* that a call is about to take out of the index.                            *)
Used(p, n) ==
  /\ n \in Nat /\ n <= TailNo(p)
  /\ \/ Rem(p, n) # {}
     \/ \E c \in Consumers : take[c].pc = "release" /\ take[c].prod = p /\ Number(c) = n

(* Every number has a slot.                                                  *)
LEMMA SlotIn ==
  ASSUME BlockInv, NEW p \in Producers, NEW n \in Int
  PROVE  n % IndexSize(p) \in 0 .. IndexSize(p) - 1
<1>1. IndexSize(p) \in Nat \ {0}
  BY DEF BlockInv, Structure
<1> QED BY <1>1, DivMod

(* A block in an entry of an implicit producer is attached to it.            *)
LEMMA EntryAttached ==
  ASSUME BlockInv, NEW p \in Producers, ~q[p].isExplicit,
         NEW s \in 0 .. IndexSize(p) - 1, entry[p][s].block # NoBlock
  PROVE  entry[p][s].block \in Attached(p)
<1>1. entry[p] \in [0 .. IndexSize(p) - 1 -> [key : Int, block : Blocks \cup {NoBlock}]]
  BY DEF BlockInv, Structure
<1>2. s \in DOMAIN entry[p]
  BY <1>1
<1> QED BY <1>2 DEF Attached

(* The ring and the blocks an enqueue got are sequences of blocks.           *)
LEMMA Lengths ==
  ASSUME BlockInv, NEW p \in Producers
  PROVE  q[p].ring \in Seq(Blocks) /\ Len(q[p].ring) \in Nat /\ Built(p) \in Nat
<1>1. q[p].ring \in Seq(Blocks)
  BY DEF BlockInv, Structure
<1>2. Built(p) \in Nat
  BY DEF Built, BlockInv, Structure
<1> QED BY <1>1, <1>2

(* A block in use is in the ring, before those of the enqueue under way.     *)
LEMMA UsedPlace ==
  ASSUME IInv, BlockInv, NEW p \in Producers, q[p].isExplicit, NEW n, Used(p, n)
  PROVE  /\ n \in Nat /\ n <= TailNo(p) /\ Rem(p, n) # {}
         /\ Place(p, n) \in 1 .. Len(q[p].ring) - Built(p)
         /\ Place(p, n) \in 1 .. Len(q[p].ring)
         /\ q[p].ring[Place(p, n)] = Entry(p, n).block
<1>1. n \in Nat /\ n <= TailNo(p) /\ TailNo(p) \in Int
  BY Basics DEF Used
<1>2. Rem(p, n) # {}
  BY DEF BlockInv, CallOK, Used
<1>3. LiveOK(p, n)
  BY <1>1, <1>2 DEF BlockInv, Live
<1>4. Place(p, n) >= 1 /\ q[p].ring[Place(p, n)] = Entry(p, n).block
  BY <1>3 DEF LiveOK
<1>5. Place(p, n) \in 1 .. Len(q[p].ring) - Built(p) /\ Place(p, n) \in 1 .. Len(q[p].ring)
  BY <1>1, <1>4, Lengths DEF Place
<1> QED BY <1>1, <1>2, <1>4, <1>5

(* A block in use is in its entry, and attached.                             *)
LEMMA UsedEntry ==
  ASSUME IInv, BlockInv, NEW p \in Producers, NEW n, Used(p, n)
  PROVE  /\ n \in Nat /\ n % IndexSize(p) \in 0 .. IndexSize(p) - 1
         /\ Entry(p, n).key = n /\ Entry(p, n).block \in Blocks
         /\ Entry(p, n).block \in Attached(p)
         /\ q[p].isExplicit => Rem(p, n) # {}
<1>1. n \in Nat /\ n <= TailNo(p)
  BY DEF Used
<1>2. n % IndexSize(p) \in 0 .. IndexSize(p) - 1
  BY <1>1, SlotIn
<1>3. NoBlock \notin Blocks
  BY QueueAssumption
<1>4. Entry(p, n).key = n /\ Entry(p, n).block \in Blocks /\ (q[p].isExplicit => Rem(p, n) # {})
  <2>1. CASE Rem(p, n) # {}
    BY <1>1, <2>1 DEF BlockInv, Live, LiveOK
  <2>2. CASE \E c \in Consumers : take[c].pc = "release" /\ take[c].prod = p /\ Number(c) = n
    BY <2>2 DEF BlockInv, CallOK
  <2> QED BY <2>1, <2>2 DEF Used
<1>5. Entry(p, n).block \in Attached(p)
  <2>1. CASE q[p].isExplicit
    <3>1. Place(p, n) \in 1 .. Len(q[p].ring) /\ q[p].ring[Place(p, n)] = Entry(p, n).block
      BY <2>1, UsedPlace
    <3>2. q[p].ring \in Seq(Blocks)
      BY DEF BlockInv, Structure
    <3>3. q[p].ring[Place(p, n)] \in ToSet(q[p].ring)
      BY <3>1, <3>2 DEF ToSet
    <3> QED BY <2>1, <3>1, <3>3 DEF Attached
  <2>2. CASE ~q[p].isExplicit
    BY <1>2, <1>3, <1>4, <2>2, EntryAttached DEF Entry
  <2> QED BY <2>1, <2>2
<1> QED BY <1>1, <1>2, <1>4, <1>5

(* Two numbers in use have different blocks.                                 *)
LEMMA UsedApart ==
  ASSUME IInv, BlockInv, NEW p \in Producers, NEW n, Used(p, n),
         NEW r \in Producers, NEW m, Used(r, m), Entry(p, n).block = Entry(r, m).block
  PROVE  p = r /\ n = m
<1>1. p = r
  BY UsedEntry DEF BlockInv, Pools
<1>2. n = m
  <2>1. CASE q[p].isExplicit
    <3>1. /\ Place(p, n) \in 1 .. Len(q[p].ring) /\ Place(p, m) \in 1 .. Len(q[p].ring)
          /\ q[p].ring[Place(p, n)] = q[p].ring[Place(p, m)]
      BY <1>1, <2>1, UsedPlace
    <3>2. Place(p, n) = Place(p, m)
      BY <2>1, <3>1 DEF BlockInv, Room
    <3>3. n \in Nat /\ m \in Nat /\ TailNo(p) \in Int
      BY <1>1, Basics DEF Used
    <3> QED BY <3>2, <3>3, Lengths, SMTT(60) DEF Place
  <2>2. CASE ~q[p].isExplicit
    <3>1. /\ n % IndexSize(p) \in 0 .. IndexSize(p) - 1 /\ m % IndexSize(p) \in 0 .. IndexSize(p) - 1
          /\ Entry(p, n).key = n /\ Entry(p, m).key = m
          /\ Entry(p, n).block = Entry(p, m).block /\ Entry(p, n).block # NoBlock
      BY <1>1, UsedEntry, QueueAssumption
    <3>2. n % IndexSize(p) = m % IndexSize(p)
      BY <2>2, <3>1 DEF BlockInv, Room, Entry
    <3> QED BY <3>1, <3>2 DEF Entry
  <2> QED BY <2>1, <2>2
<1> QED BY <1>1, <1>2

(* Where a call is.                                                          *)
LEMMA CallAt ==
  ASSUME IInv, BlockInv, NEW c \in Consumers, take[c].pc \in Working
  PROVE  /\ take[c].prod \in Producers /\ take[c].index \in Nat /\ take[c].got \in Nat \ {0}
         /\ Number(c) \in Nat /\ Number(c) <= TailNo(take[c].prod)
         /\ \A i \in Span(c) : i \in Nat /\ i < q[take[c].prod].head
<1> DEFINE p == take[c].prod
<1>1. p \in Producers
  BY Basics DEF Working
<1>2. PICK i \in Nat, g \in Nat \ {0} : i = take[c].index /\ g = take[c].got /\ i + g <= q[p].head
  BY DEF BlockInv, CallOK
<1>3. q[p].head \in Nat /\ q[p].tail \in Nat /\ q[p].head <= q[p].tail
  BY <1>1, Basics
<1> HIDE DEF p
<1>4. i <= q[p].tail - 1 /\ i \in Int /\ q[p].tail - 1 \in Int
  BY <1>2, <1>3
<1>5. BlockNo(i) \in Nat /\ BlockNo(i) <= BlockNo(q[p].tail - 1)
  BY <1>2, <1>4, BlockNumbers
<1>6. \A j \in i .. i + g - 1 : j \in Nat /\ j < q[p].head
  BY <1>2, <1>3
<1> QED BY <1>1, <1>2, <1>5, <1>6 DEF Number, TailNo, Span, p

(* A call at work has its part left in a block that is in use.               *)
LEMMA CallUses ==
  ASSUME IInv, BlockInv, NEW c \in Consumers, take[c].pc \in Working
  PROVE  /\ Used(take[c].prod, Number(c))
         /\ take[c].pc # "release" =>
              /\ Part(c) \subseteq Pending(take[c].prod, c)
              /\ Part(c) \subseteq Rem(take[c].prod, Number(c))
              /\ Rem(take[c].prod, Number(c)) # {}
<1> DEFINE p == take[c].prod
<1>1. /\ take[c].index \in Nat /\ take[c].got \in Nat \ {0}
      /\ Number(c) \in Nat /\ Number(c) <= TailNo(p)
  BY CallAt
<1>2. /\ Cardinality(Part(c)) \in 1 .. take[c].got
      /\ \A i \in Int : i \in Part(c)
              <=> i \in take[c].index .. take[c].index + Cardinality(Part(c)) - 1
      /\ \A i \in Int : i \in Part(c) <=> i \in Span(c) /\ BlockNo(i) = Number(c)
      /\ \A i \in Part(c) : i \in Int
  BY <1>1, PartOf
<1>3. Part(c) # {}
  BY <1>1, <1>2
<1>4. CASE take[c].pc # "release"
  <2>1. Part(c) \subseteq Pending(p, c)
    BY <1>2, <1>4 DEF Pending
  <2>2. Part(c) \subseteq Rem(p, Number(c))
    BY <1>2, <2>1 DEF Rem
  <2> QED BY <1>1, <1>3, <2>1, <2>2 DEF Used
<1>5. CASE take[c].pc = "release"
  BY <1>1, <1>5 DEF Used
<1> QED BY <1>4, <1>5

-------------------------------------------------------------------------------
(* Steps of a dequeue.                                                       *)

(* The steps of a dequeue leave the enqueues alone.                          *)
QueuesSame ==
  \A r \in Producers :
    /\ q'[r].isExplicit = q[r].isExplicit /\ q'[r].tail = q[r].tail /\ q'[r].last = q[r].last
    /\ q'[r].front = q[r].front /\ q'[r].ring = q[r].ring /\ q'[r].head >= q[r].head
    /\ plan'[r] = plan[r]

(* Numbers that do not change.                                               *)
LEMMA SameNumbers ==
  ASSUME QueuesSame, NEW r \in Producers
  PROVE  /\ IndexSize(r)' = IndexSize(r) /\ TailNo(r)' = TailNo(r) /\ Built(r)' = Built(r)
         /\ \A n : Place(r, n)' = Place(r, n)
         /\ entry'[r] = entry[r] =>
              /\ \A n : Entry(r, n)' = Entry(r, n)
              /\ \A s : Good(r, s)' <=> Good(r, s)
<1>1. IndexSize(r)' = IndexSize(r) /\ TailNo(r)' = TailNo(r) /\ Built(r)' = Built(r)
  BY DEF QueuesSame, IndexSize, TailNo, Built
<1>2. \A n : Place(r, n)' = Place(r, n)
  BY <1>1 DEF QueuesSame, Place
<1>3. entry'[r] = entry[r] => \A n : Entry(r, n)' = Entry(r, n)
  BY <1>1 DEF Entry
<1>4. entry'[r] = entry[r] => \A s : Good(r, s)' <=> Good(r, s)
  BY <1>1 DEF Good
<1> QED BY <1>1, <1>2, <1>3, <1>4

(* A call goes on when the entry of its block stays.                         *)
LEMMA OtherCall ==
  ASSUME IInv, IInv', BlockInv, NEW d \in Consumers, take'[d] = take[d],
         \A r \in Producers :
           /\ q'[r].isExplicit = q[r].isExplicit /\ q'[r].head >= q[r].head
           /\ \A s : Good(r, s) => Good(r, s)'
           /\ \A n : Rem(r, n)' \subseteq Rem(r, n),
         take[d].pc \in {"empty", "release"} =>
           \A r \in Producers : \A n : r = take[d].prod /\ n = Number(d) /\ Used(r, n) =>
             Entry(r, n)' = Entry(r, n),
         take[d].pc = "release" => blk'[take[d].block].done = blk[take[d].block].done
  PROVE  CallOK(d)'
<1>1. CallOK(d)
  BY DEF BlockInv
<1>2. CASE take[d].pc = "idle"
  BY <1>2 DEF CallOK, Working, Placed
<1>3. CASE take[d].pc # "idle"
  <2>1. PICK r \in Producers : r = take[d].prod
    BY <1>3, Basics
  <2>2. PICK n : n = Number(d)
    OBVIOUS
  <2>3. take'[d].prod = r /\ Number(d)' = n
    BY <2>1, <2>2 DEF Number
  <2>4. IndexSize(r)' = IndexSize(r)
    BY DEF IndexSize
  <2>5. take[d].pc \in Working =>
          /\ take[d].index \in Nat /\ take[d].got \in Nat \ {0}
          /\ take[d].index + take[d].got <= q'[r].head
    <3> SUFFICES ASSUME take[d].pc \in Working
                 PROVE  /\ take[d].index \in Nat /\ take[d].got \in Nat \ {0}
                        /\ take[d].index + take[d].got <= q'[r].head
      OBVIOUS
    <3>1. PICK i \in Nat, g \in Nat \ {0} :
            i = take[d].index /\ g = take[d].got /\ i + g <= q[r].head
      BY <1>1, <2>1 DEF CallOK
    <3>2. PICK h \in Nat : h = q[r].head
      BY Basics
    <3>3. q'[r].head \in Nat
      BY DEF IInv, TypeOK, QueueOK
    <3>4. q'[r].head >= h
      BY <3>2
    <3> QED BY <3>1, <3>2, <3>3, <3>4
  <2>6. take[d].pc \in {"empty", "release"} => Entry(r, n)' = Entry(r, n)
    BY <2>1, <2>2, CallUses DEF Working
  <2>7. Rem(r, n)' \subseteq Rem(r, n) /\ (Good(r, take[d].slot) => Good(r, take[d].slot)')
    OBVIOUS
  <2>8. /\ take[d].pc \in {"claim", "check"} => take[d].want > 0
        /\ take[d].pc = "head" => take[d].got > 0
        /\ take[d].pc = "key" => Good(r, take[d].slot)'
        /\ take[d].pc \in Placed => take[d].slot = n % IndexSize(r)
        /\ take[d].pc \in {"empty", "release"} =>
             /\ take[d].block \in Blocks
             /\ Entry(r, n)'.key = n /\ Entry(r, n)'.block = take[d].block
    BY <1>1, <2>1, <2>2, <2>6, <2>7 DEF CallOK
  <2>9. take[d].pc = "release" =>
          ~q'[r].isExplicit /\ Rem(r, n)' = {} /\ blk'[take[d].block].done = BLOCK_SIZE
    BY <1>1, <2>1, <2>2, <2>7 DEF CallOK
  <2> QED BY <2>3, <2>4, <2>5, <2>8, <2>9 DEF CallOK
<1> QED BY <1>2, <1>3

(* One that moves no index and empties no cell for good.                     *)
LEMMA CallStep ==
  ASSUME IInv, IInv', BlockInv, NEW c \in Consumers, QueuesSame,
         UNCHANGED <<entry, fresh, free, away, plan>>,
         blk' \in [Blocks -> [cell : [0 .. BLOCK_SIZE - 1 -> Cells], done : 0 .. BLOCK_SIZE]],
         \A b \in Blocks : blk'[b].done = blk[b].done,
         \A d \in Consumers \ {c} : take'[d] = take[d],
         \A r \in Producers : \A n : Rem(r, n)' = Rem(r, n),
         CallOK(c)', \A d \in Consumers \ {c} : Apart(c, d)'
  PROVE  BlockInv'
<1>1. ASSUME NEW r \in Producers
      PROVE  /\ IndexSize(r)' = IndexSize(r) /\ TailNo(r)' = TailNo(r) /\ Built(r)' = Built(r)
             /\ \A n : Place(r, n)' = Place(r, n)
             /\ \A n : Entry(r, n)' = Entry(r, n)
             /\ \A s : Good(r, s)' <=> Good(r, s)
  BY SameNumbers
<1>2. ASSUME NEW r \in Producers
      PROVE  /\ q'[r].isExplicit = q[r].isExplicit /\ q'[r].tail = q[r].tail
             /\ q'[r].last = q[r].last /\ q'[r].front = q[r].front /\ q'[r].ring = q[r].ring
             /\ q'[r].head >= q[r].head /\ plan'[r] = plan[r]
  BY DEF QueuesSame
<1>3. Structure'
  <2>1. ASSUME NEW r \in Producers
        PROVE  /\ IndexSize(r)' \in Nat \ {0}
               /\ q'[r].isExplicit => Cardinality(Blocks) <= IndexSize(r)'
               /\ entry'[r] \in [0 .. IndexSize(r)' - 1 -> [key : Int, block : Blocks \cup {NoBlock}]]
               /\ q'[r].ring \in Seq(Blocks)
    BY <1>1, <1>2 DEF BlockInv, Structure
  <2>2. ASSUME NEW r \in Producers, plan'[r].pc # "idle"
        PROVE  /\ plan'[r].pc \in {"grow", "block", "inject", "fill"}
               /\ plan'[r].n \in Nat \ {0} /\ plan'[r].need \in Int
               /\ plan'[r].new \in Seq(Blocks) /\ plan'[r].start \in Seq(Blocks)
    BY <1>2, <2>2 DEF BlockInv, Structure
  <2>3. DOMAIN entry' = Producers /\ fresh' \subseteq Blocks /\ free' \subseteq Blocks
        /\ away' \subseteq Blocks
    BY DEF BlockInv, Structure
  <2> QED BY <2>1, <2>2, <2>3 DEF Structure
<1>4. Pools'
  <2>1. \A r \in Producers : Attached(r)' = Attached(r)
    BY <1>2 DEF Attached
  <2> QED BY <2>1 DEF BlockInv, Pools
<1>5. ASSUME NEW d \in Consumers
      PROVE  CallOK(d)'
  <2>1. CASE d = c
    BY <2>1
  <2>2. CASE d # c
    <3>1. take'[d] = take[d] /\ CallOK(d)
      BY <2>2 DEF BlockInv
    <3>2. take[d].pc = "release" => blk'[take[d].block].done = blk[take[d].block].done
      BY <3>1 DEF CallOK
    <3> QED BY <1>1, <1>2, <3>1, <3>2, OtherCall
  <2> QED BY <2>1, <2>2
<1>6. ASSUME NEW d \in Consumers, NEW e \in Consumers, d # e
      PROVE  Apart(d, e)'
  <2>1. CASE d = c
    BY <1>6, <2>1
  <2>2. CASE e = c
    BY <1>6, <2>2 DEF Apart
  <2>3. CASE d # c /\ e # c
    <3>1. Apart(d, e) /\ take'[d] = take[d] /\ take'[e] = take[e]
      BY <1>6, <2>3 DEF BlockInv
    <3> QED BY <3>1 DEF Apart, Pending, Number, Span
  <2> QED BY <2>1, <2>2, <2>3
<1>7. ASSUME NEW r \in Producers
      PROVE  Live(r)' /\ Room(r)' /\ Building(r)'
  <2>1. Live(r)'
    <3> SUFFICES ASSUME NEW n \in Nat, n <= TailNo(r), Rem(r, n) # {}
                 PROVE  LiveOK(r, n)'
      BY <1>1 DEF Live
    <3>1. LiveOK(r, n)
      BY DEF BlockInv, Live
    <3>2. blk'[Entry(r, n).block].done = blk[Entry(r, n).block].done
      BY <3>1 DEF LiveOK
    <3> QED BY <1>1, <1>2, <3>1, <3>2 DEF LiveOK
  <2>2. Room(r)'
    BY <1>1, <1>2 DEF BlockInv, Room
  <2>3. Building(r)'
    <3>1. Building(r) /\ (plan[r].pc # "idle" => plan[r].new \in Seq(Blocks))
      BY DEF BlockInv, Structure
    <3>2. plan[r].pc # "idle" => \A k \in 1 .. Built(r) : plan[r].new[k] \in Blocks
      BY <3>1 DEF Built
    <3>3. ASSUME plan[r].pc # "idle", NEW k \in 1 .. Built(r), NewOK(r, k)
          PROVE  NewOK(r, k)'
      BY <1>1, <1>2, <3>2, <3>3 DEF NewOK
    <3> QED BY <1>1, <1>2, <3>1, <3>3 DEF Building
  <2> QED BY <2>1, <2>2, <2>3
<1> QED BY <1>3, <1>4, <1>5, <1>6, <1>7 DEF BlockInv

-------------------------------------------------------------------------------
(* A step of a call that changes no pending index leaves every block as it is.*)
LEMMA RemSame ==
  ASSUME NEW c \in Consumers, \A d \in Consumers \ {c} : take'[d] = take[d],
         \A r \in Producers : q'[r].head = q[r].head /\ Pending(r, c)' = Pending(r, c)
  PROVE  \A r \in Producers : \A n : Rem(r, n)' = Rem(r, n)
<1> SUFFICES ASSUME NEW r \in Producers, NEW n PROVE Rem(r, n)' = Rem(r, n)
  OBVIOUS
<1>1. ASSUME NEW d \in Consumers PROVE Pending(r, d)' = Pending(r, d)
  <2>1. CASE d = c
    BY <2>1
  <2>2. CASE d # c
    BY <2>2 DEF Pending, Span, Number
  <2> QED BY <2>1, <2>2
<1> QED BY <1>1 DEF Rem

(* Before it advances the head a call has no index.                          *)
LEMMA CounterStep ==
  ASSUME IInv, IInv', BlockInv, NEW c \in Consumers, QueuesSame,
         UNCHANGED <<entry, blk, fresh, free, away, plan>>,
         \A r \in Producers : q'[r].head = q[r].head,
         \A d \in Consumers \ {c} : take'[d] = take[d],
         take[c].pc \notin Working, take'[c].pc \notin Working,
         take'[c].pc \in {"claim", "check"} => take'[c].want > 0,
         take'[c].pc = "head" => take'[c].got > 0
  PROVE  BlockInv'
<1>1. \A r \in Producers : Pending(r, c)' = Pending(r, c)
  BY DEF Pending
<1>2. \A r \in Producers : \A n : Rem(r, n)' = Rem(r, n)
  BY <1>1, RemSame
<1>3. CallOK(c)'
  BY DEF CallOK, Working, Placed
<1>4. \A d \in Consumers \ {c} : Apart(c, d)'
  BY DEF Apart, Pending, Working
<1>5. blk' \in [Blocks -> [cell : [0 .. BLOCK_SIZE - 1 -> Cells], done : 0 .. BLOCK_SIZE]]
  BY DEF BlockInv, Structure
<1> QED BY <1>2, <1>3, <1>4, <1>5, CallStep

(* One lemma for each step that only moves counters.                         *)
LEMMA LookBlocks ==
  ASSUME IInv, IInv', BlockInv, NEW c \in Consumers, NEW p \in Producers, NEW max \in Sizes,
         Look(c, p, max)
  PROVE  BlockInv'
<1> USE DEF Look
<1>1. QueuesSame
  BY Basics DEF QueuesSame
<1>2. DOMAIN take = Consumers
  BY Basics
<1>3. PICK n : n > 0 /\ take' = [take EXCEPT ![c] =
                                  [pc |-> "claim", prod |-> p, want |-> n, over |-> q[p].over]]
  BY DEF Go
<1>4. take'[c].pc = "claim" /\ take'[c].want = n /\ \A d \in Consumers \ {c} : take'[d] = take[d]
  BY <1>2, <1>3
<1>5. take[c].pc = "idle"
  BY DEF In
<1> HIDE DEF Look
<1>6. UNCHANGED <<q, entry, blk, fresh, free, away, plan>>
  BY DEF Look, pool
<1> QED BY <1>1, <1>3, <1>4, <1>5, <1>6, CounterStep DEF Working

(* A counter of one producer is all of q that changes.                       *)
LEMMA CountersOnly ==
  ASSUME IInv, NEW p \in Producers, NEW m \in Nat,
         \/ q' = [q EXCEPT ![p].opt = m] \/ q' = [q EXCEPT ![p].over = m]
         \/ q' = [q EXCEPT ![p].head = m] /\ m >= q[p].head,
         UNCHANGED plan
  PROVE  QueuesSame /\ \A r \in Producers \ {p} : q'[r] = q[r]
<1>1. DOMAIN q = Producers /\ \A r \in Producers : q[r].head \in Nat
  BY Basics
<1>2. \A r \in Producers \ {p} : q'[r] = q[r]
  BY <1>1
<1>3. /\ q'[p].isExplicit = q[p].isExplicit /\ q'[p].tail = q[p].tail /\ q'[p].last = q[p].last
      /\ q'[p].front = q[p].front /\ q'[p].ring = q[p].ring /\ q'[p].head >= q[p].head
  <2>0. QueueOK(q[p])
    BY DEF IInv, TypeOK
  <2>1. CASE q' = [q EXCEPT ![p].opt = m]
    BY <1>1, <2>0, <2>1 DEF QueueOK
  <2>2. CASE q' = [q EXCEPT ![p].over = m]
    BY <1>1, <2>0, <2>2 DEF QueueOK
  <2>3. CASE q' = [q EXCEPT ![p].head = m] /\ m >= q[p].head
    BY <1>1, <2>0, <2>3 DEF QueueOK
  <2> QED BY <2>1, <2>2, <2>3
<1> QED BY <1>1, <1>2, <1>3 DEF QueuesSame

(* The optimistic count goes on.                                             *)
LEMMA ClaimBlocks ==
  ASSUME IInv, IInv', BlockInv, NEW c \in Consumers, Claim(c)
  PROVE  BlockInv'
<1>1. take[c].pc = "claim" /\ take[c].prod \in Producers /\ DOMAIN take = Consumers
  BY Basics DEF Claim, In
<1>2. PICK p \in Producers : p = take[c].prod
  BY <1>1
<1>3. take[c].want > 0 /\ take[c].want \in Nat
  <2>1. TakeOK(take[c])
    BY DEF IInv, TypeOK
  <2>2. take[c] \in [pc : {"claim"}, prod : Producers, want : Nat, over : Nat]
    BY <1>1, <2>1 DEF TakeOK, NoCall
  <2> QED BY <1>1, <2>2 DEF BlockInv, CallOK
<1>4. PICK m \in Nat : m = q[p].opt + take[c].want
  BY <1>3 DEF IInv, TypeOK, QueueOK
<1>5. q' = [q EXCEPT ![p].opt = m]
  BY <1>2, <1>4 DEF Claim, Prod
<1>6. UNCHANGED <<entry, blk, fresh, free, away, plan>>
  BY DEF Claim, pool
<1>7. QueuesSame /\ \A r \in Producers \ {p} : q'[r] = q[r]
  BY <1>5, <1>6, CountersOnly
<1>8. \A r \in Producers : q'[r].head = q[r].head
  <2>1. q'[p].head = q[p].head
    BY <1>5 DEF IInv, TypeOK, QueueOK
  <2> QED BY <1>7, <2>1
<1>9. take'[c].pc = "check" /\ take'[c].want = take[c].want
      /\ \A d \in Consumers \ {c} : take'[d] = take[d]
  BY <1>1 DEF Claim, Go
<1> QED BY <1>1, <1>3, <1>6, <1>7, <1>8, <1>9, CounterStep DEF Working

(* The call knows what it gets.                                              *)
LEMMA CheckBlocks ==
  ASSUME IInv, IInv', BlockInv, NEW c \in Consumers, Check(c)
  PROVE  BlockInv'
<1>1. take[c].pc = "check" /\ take[c].prod \in Producers /\ DOMAIN take = Consumers
  BY Basics DEF Check, In
<1>2. take[c] \in [pc : {"check"}, prod : Producers, want : Nat, over : Nat, mine : Nat]
  BY <1>1 DEF IInv, TypeOK, TakeOK, NoCall
<1>3. take[c].want > 0 /\ take[c].want \in Nat
  BY <1>1, <1>2 DEF BlockInv, CallOK
<1>4. Got(c) < take[c].want \/ Got(c) = take[c].want
  <2>1. q[take[c].prod].tail \in Nat /\ take[c].mine \in Nat /\ take[c].over \in Nat
    BY <1>1, <1>2, Basics
  <2> QED BY <1>3, <2>1 DEF Got, Least, Prod
<1>5. UNCHANGED <<q, entry, blk, fresh, free, away, plan>>
  BY DEF Check, pool
<1>6. QueuesSame /\ \A r \in Producers : q'[r].head = q[r].head
  BY <1>5, Basics DEF QueuesSame
<1>7. /\ take'[c].pc \in {"back", "head"} /\ (take'[c].pc = "head" => take'[c].got > 0)
      /\ \A d \in Consumers \ {c} : take'[d] = take[d]
  BY <1>1, <1>3, <1>4 DEF Check, Go
<1> QED BY <1>1, <1>5, <1>6, <1>7, CounterStep DEF Working

(* The overcommit goes on.                                                   *)
LEMMA GiveBackBlocks ==
  ASSUME IInv, IInv', BlockInv, NEW c \in Consumers, GiveBack(c)
  PROVE  BlockInv'
<1>1. take[c].pc = "back" /\ take[c].prod \in Producers /\ DOMAIN take = Consumers
  BY Basics DEF GiveBack, Back, In
<1>2. PICK p \in Producers : p = take[c].prod
  BY <1>1
<1>3. take[c] \in [pc : {"back"}, prod : Producers, excess : Nat, got : Nat]
  BY <1>1 DEF IInv, TypeOK, TakeOK, NoCall
<1>4. PICK m \in Nat : m = q[p].over + take[c].excess
  BY <1>3 DEF IInv, TypeOK, QueueOK
<1>5. q' = [q EXCEPT ![p].over = m]
  BY <1>2, <1>4 DEF GiveBack, Back, Prod
<1>6. UNCHANGED <<entry, blk, fresh, free, away, plan>>
  BY DEF GiveBack, Back, pool
<1>7. QueuesSame /\ \A r \in Producers \ {p} : q'[r] = q[r]
  BY <1>5, <1>6, CountersOnly
<1>8. \A r \in Producers : q'[r].head = q[r].head
  <2>1. q'[p].head = q[p].head
    BY <1>5 DEF IInv, TypeOK, QueueOK
  <2> QED BY <1>7, <2>1
<1>9. /\ take'[c].pc \in {"idle", "head"} /\ (take'[c].pc = "head" => take'[c].got > 0)
      /\ \A d \in Consumers \ {c} : take'[d] = take[d]
  BY <1>1, <1>3 DEF GiveBack, Back, Go, NoCall
<1> QED BY <1>1, <1>6, <1>7, <1>8, <1>9, CounterStep DEF Working

-------------------------------------------------------------------------------
(* The head goes on by what the call got: these indices are the call's.       *)
LEMMA AdvanceBlocks ==
  ASSUME IInv, IInv', BlockInv, NEW c \in Consumers, Advance(c)
  PROVE  BlockInv'
<1>1. take[c].pc = "head" /\ take[c].prod \in Producers /\ DOMAIN take = Consumers
      /\ DOMAIN q = Producers
  BY Basics DEF Advance, In
<1>2. PICK p \in Producers : p = take[c].prod
  BY <1>1
<1>3. PICK g \in Nat \ {0} : g = take[c].got
  <2>1. TakeOK(take[c])
    BY DEF IInv, TypeOK
  <2>2. take[c] \in [pc : {"head"}, prod : Producers, excess : {0}, got : Nat]
    BY <1>1, <2>1 DEF TakeOK, NoCall
  <2>3. take[c].got > 0
    BY <1>1 DEF BlockInv, CallOK
  <2> QED BY <2>2, <2>3
<1>4. PICK h \in Nat : h = q[p].head
  BY Basics
<1>5. q' = [q EXCEPT ![p].head = h + g]
  BY <1>2, <1>3, <1>4 DEF Advance, Prod
<1>6. UNCHANGED <<entry, blk, fresh, free, away, plan>>
  BY DEF Advance, pool
<1>7. QueuesSame /\ \A r \in Producers \ {p} : q'[r] = q[r]
  <2>1. h + g \in Nat /\ h + g >= q[p].head
    BY <1>4
  <2> QED BY <1>5, <1>6, <2>1, CountersOnly
<1>8. q'[p].head = h + g
  BY <1>1, <1>5 DEF IInv, TypeOK, QueueOK
<1>9. /\ take'[c].pc = "last" /\ take'[c].prod = p /\ take'[c].got = g /\ take'[c].index = h
      /\ \A d \in Consumers \ {c} : take'[d] = take[d]
  BY <1>1, <1>2, <1>3, <1>4 DEF Advance, Go, Prod
<1>10. ASSUME NEW r \in Producers
       PROVE  Pending(r, c) = {} /\ Pending(r, c)' = IF r = p THEN h .. h + g - 1 ELSE {}
  BY <1>1, <1>9 DEF Pending, Working, Span
<1>11. ASSUME NEW r \in Producers, NEW d \in Consumers \ {c} PROVE Pending(r, d)' = Pending(r, d)
  BY <1>9 DEF Pending, Span, Number
<1>12. ASSUME NEW r \in Producers, NEW n PROVE Rem(r, n)' = Rem(r, n)
  <2>1. CASE r = p
    <3> SUFFICES ASSUME NEW i \in Int
                 PROVE  (i >= q'[r].head \/ \E d \in Consumers : i \in Pending(r, d)')
                          <=> (i >= q[r].head \/ \E d \in Consumers : i \in Pending(r, d))
      BY DEF Rem
    <3>1. i >= q[r].head <=> i >= q'[r].head \/ i \in h .. h + g - 1
      BY <1>4, <1>8, <2>1
    <3> QED BY <1>10, <1>11, <2>1, <3>1
  <2>2. CASE r # p
    BY <1>7, <1>10, <1>11, <2>2 DEF Rem
  <2> QED BY <2>1, <2>2
<1>13. CallOK(c)'
  BY <1>3, <1>4, <1>8, <1>9 DEF CallOK, Working, Placed
<1>14. ASSUME NEW d \in Consumers \ {c} PROVE Apart(c, d)'
  <2>1. ASSUME NEW r \in Producers PROVE Pending(r, c)' \cap Pending(r, d)' = {}
    <3>1. CASE r = p
      <4>1. ASSUME NEW i \in Pending(r, d) PROVE i \in Int /\ i < h
        BY <1>4, <3>1, CallAt DEF Pending
      <4>2. \A i \in h .. h + g - 1 : ~(i < h)
        OBVIOUS
      <4> QED BY <1>10, <1>11, <3>1, <4>1, <4>2
    <3>2. CASE r # p
      BY <1>10, <3>2
    <3> QED BY <3>1, <3>2
  <2> QED BY <1>9, <2>1 DEF Apart
<1>15. /\ blk' \in [Blocks -> [cell : [0 .. BLOCK_SIZE - 1 -> Cells], done : 0 .. BLOCK_SIZE]]
       /\ \A b \in Blocks : blk'[b].done = blk[b].done
  BY <1>6 DEF BlockInv, Structure
<1> QED BY <1>6, <1>7, <1>9, <1>12, <1>13, <1>14, <1>15, CallStep

(* The call finds the entry of its first index, and its block.               *)
LEMMA FindingStep ==
  ASSUME IInv, IInv', BlockInv, NEW c \in Consumers, UNCHANGED <<q, entry, fresh, free, away, plan>>,
         blk' \in [Blocks -> [cell : [0 .. BLOCK_SIZE - 1 -> Cells], done : 0 .. BLOCK_SIZE]],
         \A b \in Blocks : blk'[b].done = blk[b].done,
         \A d \in Consumers \ {c} : take'[d] = take[d],
         take[c].pc \in Working \ {"release"}, take'[c].pc \in Working \ {"release"},
         take'[c].prod = take[c].prod, take'[c].got = take[c].got, take'[c].index = take[c].index,
         take'[c].pc = "key" => Good(take[c].prod, take'[c].slot),
         take'[c].pc \in Placed => take'[c].slot = Number(c) % IndexSize(take[c].prod),
         take'[c].pc = "empty" =>
           take'[c].block \in Blocks /\ take'[c].block = Entry(take[c].prod, Number(c)).block
  PROVE  BlockInv'
<1>1. \A r \in Producers : q[r].head \in Nat
  BY Basics
<1>2. QueuesSame
  BY <1>1 DEF QueuesSame
<1>3. \A r \in Producers : Pending(r, c)' = Pending(r, c)
  BY DEF Pending, Span, Number
<1>4. \A r \in Producers : \A n : Rem(r, n)' = Rem(r, n)
  BY <1>3, RemSame
<1>5. ASSUME NEW d \in Consumers \ {c} PROVE Apart(c, d)'
  BY <1>3 DEF BlockInv, Pending, Span, Number, Apart
<1>6. CallOK(c)'
  <2>1. PICK r \in Producers : r = take[c].prod
    BY CallAt
  <2>2. PICK n : n = Number(c)
    OBVIOUS
  <2>3. take'[c].prod = r /\ Number(c)' = n /\ IndexSize(r)' = IndexSize(r)
        /\ Entry(r, n)' = Entry(r, n) /\ \A s : Good(r, s)' <=> Good(r, s)
    BY <2>1, <2>2 DEF IndexSize, Number, Entry, Good
  <2>4. Entry(r, n).key = n
    BY <2>1, <2>2, CallUses, UsedEntry
  <2>5. /\ take[c].index \in Nat /\ take[c].got \in Nat \ {0}
        /\ take[c].index + take[c].got <= q[r].head
    BY <2>1 DEF BlockInv, CallOK
  <2> QED BY <2>1, <2>2, <2>3, <2>4, <2>5 DEF CallOK, Working, Placed
<1> QED BY <1>2, <1>4, <1>5, <1>6, CallStep

(* The published slot leads to the block.                                    *)
LEMMA LoadLastBlocks ==
  ASSUME IInv, IInv', BlockInv, NEW c \in Consumers, LoadLast(c)
  PROVE  BlockInv'
<1>1. take[c].pc = "last" /\ take[c].prod \in Producers /\ DOMAIN take = Consumers
  BY Basics DEF LoadLast, In
<1>2. Good(take[c].prod, q[take[c].prod].last)
  BY <1>1 DEF BlockInv, Room
<1>3. UNCHANGED <<q, entry, blk, fresh, free, away, plan>>
  BY DEF LoadLast, pool
<1>4. /\ take'[c].pc = "key" /\ take'[c].prod = take[c].prod /\ take'[c].got = take[c].got
      /\ take'[c].index = take[c].index /\ take'[c].slot = q[take[c].prod].last
      /\ \A d \in Consumers \ {c} : take'[d] = take[d]
  BY <1>1 DEF LoadLast, Go, Prod
<1>5. blk' \in [Blocks -> [cell : [0 .. BLOCK_SIZE - 1 -> Cells], done : 0 .. BLOCK_SIZE]]
  BY <1>3 DEF BlockInv, Structure
<1> QED BY <1>1, <1>2, <1>3, <1>4, <1>5, FindingStep DEF Working, Placed

(* From a slot with its key the slot of any number follows.                  *)
LEMMA SlotFound ==
  ASSUME BlockInv, NEW p \in Producers, NEW i \in Nat, NEW s, Good(p, s)
  PROVE  SlotOf(p, i, s) = BlockNo(i) % IndexSize(p)
<1>1. PICK m \in Nat \ {0} : m = IndexSize(p)
  BY DEF BlockInv, Structure
<1>2. PICK key \in Int : key = entry[p][s].key
  BY DEF BlockInv, Structure, Good
<1>3. PICK n \in Int : n = BlockNo(i)
  BY BlockNumbers
<1>4. s = key % m /\ s \in Int
  BY <1>1, <1>2 DEF Good
<1>5. ((key % m) + (n - key)) % m = (key + (n - key)) % m
  <2>1. n - key \in Int
    OBVIOUS
  <2> QED BY <2>1, Congruent
<1>6. key + (n - key) = n /\ s + n - key = (key % m) + (n - key)
  BY <1>4
<1> QED BY <1>1, <1>2, <1>3, <1>5, <1>6 DEF SlotOf, Slot

(* Its key gives the slot of the block.                                      *)
LEMMA LoadKeyBlocks ==
  ASSUME IInv, IInv', BlockInv, NEW c \in Consumers, LoadKey(c)
  PROVE  BlockInv'
<1>1. take[c].pc = "key" /\ take[c].prod \in Producers /\ DOMAIN take = Consumers
  BY Basics DEF LoadKey, In
<1>2. take[c].index \in Nat /\ Good(take[c].prod, take[c].slot)
  BY <1>1 DEF BlockInv, CallOK, Working
<1>3. UNCHANGED <<q, entry, blk, fresh, free, away, plan>>
  BY DEF LoadKey, pool
<1>4. take[c] \in [pc : {"key", "copy"}, prod : Producers, got : {take[c].got},
                   index : {take[c].index}, slot : {take[c].slot}]
  BY <1>1 DEF IInv, TypeOK, TakeOK, NoCall
<1>5. /\ take'[c].pc = "copy" /\ take'[c].prod = take[c].prod /\ take'[c].got = take[c].got
      /\ take'[c].index = take[c].index
      /\ take'[c].slot = SlotOf(take[c].prod, take[c].index, take[c].slot)
      /\ \A d \in Consumers \ {c} : take'[d] = take[d]
  BY <1>1, <1>4 DEF LoadKey, Go, Prod
<1>6. take'[c].slot = Number(c) % IndexSize(take[c].prod)
  BY <1>1, <1>2, <1>5, SlotFound DEF Number
<1>7. blk' \in [Blocks -> [cell : [0 .. BLOCK_SIZE - 1 -> Cells], done : 0 .. BLOCK_SIZE]]
  BY <1>3 DEF BlockInv, Structure
<1> QED BY <1>1, <1>3, <1>5, <1>6, <1>7, FindingStep DEF Working, Placed

(* The elements go, their count does not change.                             *)
LEMMA CopyOutBlocks ==
  ASSUME IInv, IInv', BlockInv, NEW c \in Consumers, CopyOut(c)
  PROVE  BlockInv'
<1>1. take[c].pc = "copy" /\ take[c].prod \in Producers /\ DOMAIN take = Consumers
  BY Basics DEF CopyOut, In
<1>2. take[c].slot = Number(c) % IndexSize(take[c].prod)
  BY <1>1 DEF BlockInv, CallOK, Placed
<1>3. BlockAt(c) = Entry(take[c].prod, Number(c)).block
  BY <1>2 DEF BlockAt, Entry, Prod
<1>4. BlockAt(c) \in Blocks
  BY <1>1, <1>3, CallUses, UsedEntry DEF Working
<1>5. UNCHANGED <<q, entry, fresh, free, away, plan>>
  BY DEF CopyOut, pool
<1>6. PICK b \in Blocks : b = BlockAt(c)
  BY <1>4
<1>7. /\ take'[c].pc = "empty" /\ take'[c].prod = take[c].prod /\ take'[c].got = take[c].got
      /\ take'[c].index = take[c].index /\ take'[c].slot = take[c].slot /\ take'[c].block = b
      /\ \A d \in Consumers \ {c} : take'[d] = take[d]
  BY <1>1, <1>6 DEF CopyOut, Go, Prod
<1>8. PICK S : blk' = [blk EXCEPT ![b].cell = [o \in DOMAIN @ |-> IF o \in S THEN Hole ELSE @[o]]]
  BY <1>6 DEF CopyOut
<1>9. blk \in [Blocks -> [cell : [0 .. BLOCK_SIZE - 1 -> Cells], done : 0 .. BLOCK_SIZE]]
  BY DEF BlockInv, Structure
<1>10. /\ blk' \in [Blocks -> [cell : [0 .. BLOCK_SIZE - 1 -> Cells], done : 0 .. BLOCK_SIZE]]
       /\ \A e \in Blocks : blk'[e].done = blk[e].done
  <2> DEFINE f == [o \in DOMAIN blk[b].cell |-> IF o \in S THEN Hole ELSE blk[b].cell[o]]
  <2>1. f \in [0 .. BLOCK_SIZE - 1 -> Cells]
    BY <1>9 DEF Cells
  <2>2. blk' = [blk EXCEPT ![b].cell = f]
    BY <1>8
  <2> HIDE DEF f
  <2> QED BY <1>9, <2>1, <2>2
<1> QED BY <1>1, <1>2, <1>3, <1>5, <1>6, <1>7, <1>10, FindingStep DEF Working, Placed

-------------------------------------------------------------------------------
(* A block that an enqueue got is nobody else's.                             *)
LEMMA NewFacts ==
  ASSUME IInv, BlockInv, NEW p \in Producers, plan[p].pc # "idle", NEW k \in 1 .. Built(p)
  PROVE  /\ plan[p].new[k] \in Blocks /\ NewOK(p, k) /\ TailNo(p) + k \in Int
         /\ plan[p].new[k] \in Attached(p)
<1>1. plan[p].new \in Seq(Blocks) /\ Built(p) = Len(plan[p].new) /\ q[p].ring \in Seq(Blocks)
  BY DEF BlockInv, Structure, Built
<1>2. plan[p].new[k] \in Blocks /\ NewOK(p, k)
  BY <1>1 DEF BlockInv, Building
<1>3. TailNo(p) + k \in Int
  BY Basics, Lengths
<1>4. plan[p].new[k] \in Attached(p)
  <2>1. CASE q[p].isExplicit
    <3>1. Built(p) <= Len(q[p].ring) /\ Built(p) \in Nat /\ Len(q[p].ring) \in Nat
      BY <2>1, Lengths DEF BlockInv, Building
    <3>2. PICK j \in Int : j = Len(q[p].ring) - Built(p) + k
      BY <3>1
    <3>3. j \in 1 .. Len(q[p].ring)
      BY <3>1, <3>2
    <3>4. q[p].ring[j] = plan[p].new[k]
      BY <1>2, <2>1, <3>2 DEF NewOK
    <3>5. q[p].ring[j] \in ToSet(q[p].ring)
      BY <1>1, <3>3 DEF ToSet
    <3> QED BY <2>1, <3>4, <3>5 DEF Attached
  <2>2. CASE ~q[p].isExplicit
    <3>1. (TailNo(p) + k) % IndexSize(p) \in 0 .. IndexSize(p) - 1
      BY <1>3, SlotIn
    <3>2. Entry(p, TailNo(p) + k).block = plan[p].new[k] /\ plan[p].new[k] # NoBlock
      BY <1>2, QueueAssumption DEF NewOK
    <3> QED BY <2>2, <3>1, <3>2, EntryAttached DEF Entry
  <2> QED BY <2>1, <2>2
<1> QED BY <1>2, <1>3, <1>4

(* A block that an enqueue got is not in use.                                *)
LEMMA NewApart ==
  ASSUME IInv, BlockInv, NEW r \in Producers, plan[r].pc # "idle", NEW k \in 1 .. Built(r),
         NEW p \in Producers, NEW n, Used(p, n)
  PROVE  plan[r].new[k] # Entry(p, n).block
<1>1. SUFFICES ASSUME plan[r].new[k] = Entry(p, n).block PROVE FALSE
  OBVIOUS
<1>2. p = r
  BY <1>1, NewFacts, UsedEntry DEF BlockInv, Pools
<1>3. NewOK(p, k) /\ TailNo(p) + k \in Int
  BY <1>2, NewFacts
<1>4. n \in Nat /\ n <= TailNo(p) /\ TailNo(p) \in Int /\ k \in Nat \ {0}
  BY Basics, Lengths DEF Used
<1>5. CASE q[p].isExplicit
  <2>1. Place(p, n) \in 1 .. Len(q[p].ring) - Built(p) /\ Place(p, n) \in 1 .. Len(q[p].ring)
        /\ q[p].ring[Place(p, n)] = Entry(p, n).block
    BY <1>5, UsedPlace
  <2>2. Built(p) <= Len(q[p].ring) /\ Built(p) \in Nat /\ Len(q[p].ring) \in Nat
    BY <1>2, <1>5, Lengths DEF BlockInv, Building
  <2>3. PICK j \in Int : j = Len(q[p].ring) - Built(p) + k
    BY <2>2
  <2>4. j \in 1 .. Len(q[p].ring)
    BY <1>2, <2>2, <2>3
  <2>5. q[p].ring[j] = Entry(p, n).block
    BY <1>1, <1>2, <1>3, <1>5, <2>3 DEF NewOK
  <2>6. j = Place(p, n)
    BY <1>5, <2>1, <2>4, <2>5 DEF BlockInv, Room
  <2> QED BY <1>4, <2>1, <2>2, <2>3, <2>6
<1>6. CASE ~q[p].isExplicit
  <2>1. /\ n % IndexSize(p) \in 0 .. IndexSize(p) - 1 /\ Entry(p, n).key = n
        /\ Entry(p, n).block # NoBlock
    BY UsedEntry, QueueAssumption
  <2>2. (TailNo(p) + k) % IndexSize(p) \in 0 .. IndexSize(p) - 1
    BY <1>3, SlotIn
  <2>3. Entry(p, TailNo(p) + k).key = TailNo(p) + k
        /\ Entry(p, TailNo(p) + k).block = Entry(p, n).block
    BY <1>1, <1>2, <1>3 DEF NewOK
  <2>4. n % IndexSize(p) = (TailNo(p) + k) % IndexSize(p)
    BY <1>6, <2>1, <2>2, <2>3 DEF BlockInv, Room, Entry
  <2>5. n = TailNo(p) + k
    BY <2>1, <2>3, <2>4 DEF Entry
  <2> QED BY <1>4, <2>5
<1> QED BY <1>5, <1>6

(* What is left of a call when it is done with a block.                      *)
Later(r, c) == {i \in Int : take[c].prod = r /\ i \in Span(c) /\ BlockNo(i) # Number(c)}

(* A call goes on with the next block, or ends.                              *)
LEMMA AfterPart ==
  ASSUME IInv, BlockInv, NEW c \in Consumers, take[c].pc \in Working,
         take[c].slot = Number(c) % IndexSize(take[c].prod), NextPart(c), UNCHANGED q
  PROVE  /\ \A d \in Consumers \ {c} : take'[d] = take[d]
         /\ \A r \in Producers : Pending(r, c)' = Later(r, c)
         /\ CallOK(c)' /\ take'[c].pc # "release"
<1>1. DOMAIN take = Consumers
  BY Basics
<1>2. PICK p \in Producers, i \in Nat, g \in Nat \ {0} :
        p = take[c].prod /\ i = take[c].index /\ g = take[c].got
  BY CallAt
<1>3. PICK k \in Nat : /\ k = Cardinality(Part(c)) /\ k \in 1 .. g
                       /\ \A j \in Int : j \in Part(c) <=> j \in i .. i + k - 1
                       /\ \A j \in Int : j \in Part(c) <=> j \in Span(c) /\ BlockNo(j) = Number(c)
                       /\ k # g => BlockNo(i + k) = Number(c) + 1
  BY <1>2, PartOf
<1>4. Span(c) = i .. i + g - 1 /\ Number(c) = BlockNo(i)
  BY <1>2 DEF Span, Number
<1>5. CASE g = k
  <2>1. take' = [take EXCEPT ![c] = NoCall]
    BY <1>2, <1>3, <1>5 DEF NextPart, Go
  <2>2. take'[c].pc = "idle" /\ \A d \in Consumers \ {c} : take'[d] = take[d]
    BY <1>1, <2>1 DEF NoCall
  <2>3. \A j \in Int : j \in Span(c) => BlockNo(j) = Number(c)
    BY <1>3, <1>4, <1>5
  <2>4. ASSUME NEW r \in Producers PROVE Pending(r, c)' = Later(r, c)
    BY <2>2, <2>3 DEF Pending, Later, Working
  <2>5. CallOK(c)'
    BY <2>2 DEF CallOK, Working, Placed
  <2> QED BY <2>2, <2>4, <2>5
<1>6. CASE g # k
  <2>1. take' = [take EXCEPT ![c] = [pc |-> "copy", prod |-> p, got |-> g - k, index |-> i + k,
                                     slot |-> Slot(p, take[c].slot + 1)]]
    BY <1>2, <1>3, <1>6 DEF NextPart, Go, Prod
  <2>2. /\ take'[c].pc = "copy" /\ take'[c].prod = p /\ take'[c].got = g - k
        /\ take'[c].index = i + k /\ take'[c].slot = Slot(p, take[c].slot + 1)
        /\ \A d \in Consumers \ {c} : take'[d] = take[d]
    BY <1>1, <2>1
  <2>3. ASSUME NEW r \in Producers PROVE Pending(r, c)' = Later(r, c)
    <3>1. Span(c)' = i + k .. (i + k) + (g - k) - 1
      BY <2>2 DEF Span
    <3>2. \A j \in Int : j \in Span(c)' <=> j \in Span(c) /\ BlockNo(j) # Number(c)
      BY <1>3, <1>4, <3>1, SMTT(60)
    <3>3. \A j \in Int : j \in Pending(r, c)' <=> j \in Later(r, c)
      BY <1>2, <2>2, <3>2 DEF Pending, Later, Working
    <3> QED BY <3>3 DEF Pending, Later
  <2>4. CallOK(c)'
    <3>1. /\ i + k \in Nat /\ g - k \in Nat \ {0} /\ (i + k) + (g - k) <= q[p].head
      BY <1>2, <1>3, <1>6, Basics DEF BlockInv, CallOK
    <3>2. Number(c)' = Number(c) + 1
      BY <1>3, <1>6, <2>2 DEF Number
    <3>3. Slot(p, take[c].slot + 1) = (Number(c) + 1) % IndexSize(p)
      <4>1. Number(c) \in Int /\ IndexSize(p) \in Nat \ {0}
        BY CallAt DEF BlockInv, Structure
      <4>2. ((Number(c) % IndexSize(p)) + 1) % IndexSize(p) = (Number(c) + 1) % IndexSize(p)
        BY <4>1, Congruent
      <4>3. take[c].slot = Number(c) % IndexSize(p)
        BY <1>2
      <4> QED BY <4>2, <4>3 DEF Slot
    <3>4. IndexSize(p)' = IndexSize(p)
      BY DEF IndexSize
    <3> QED BY <2>2, <3>1, <3>2, <3>3, <3>4 DEF CallOK, Placed
  <2> QED BY <2>2, <2>3, <2>4
<1> QED BY <1>5, <1>6

-------------------------------------------------------------------------------
(* What is left of the block that a call counts as dequeued: all that is not *)
(* the call's part.                                                          *)
LEMMA RemWithout ==
  ASSUME IInv, BlockInv, NEW c \in Consumers, take[c].pc = "empty",
         \A d \in Consumers \ {c} : take'[d] = take[d],
         \A r \in Producers : q'[r].head = q[r].head /\ Pending(r, c)' = Later(r, c)
  PROVE  /\ \A r \in Producers : \A n :
              Rem(r, n)' = IF r = take[c].prod /\ n = Number(c) THEN Rem(r, n) \ Part(c)
                           ELSE Rem(r, n)
         /\ Part(c) \subseteq Rem(take[c].prod, Number(c))
<1>1. take[c].pc \in Working
  BY DEF Working
<1>2. PICK p \in Producers : p = take[c].prod
  BY <1>1, CallAt
<1>3. PICK m : m = Number(c)
  OBVIOUS
<1>4. /\ take[c].index \in Nat /\ take[c].got \in Nat \ {0}
      /\ \A i \in Span(c) : i \in Nat /\ i < q[p].head
  BY <1>1, <1>2, CallAt
<1>5. /\ \A i \in Int : i \in Part(c) <=> i \in Span(c) /\ BlockNo(i) = m
      /\ \A i \in Part(c) : i \in Int
  BY <1>3, <1>4, PartOf
<1>6. Part(c) \subseteq Pending(p, c) /\ Part(c) \subseteq Rem(p, m)
  BY <1>1, <1>2, <1>3, CallUses
<1>7. ASSUME NEW r \in Producers, NEW d \in Consumers \ {c} PROVE Pending(r, d)' = Pending(r, d)
  BY DEF Pending, Span, Number
<1>8. ASSUME NEW r \in Producers, NEW i \in Int
      PROVE  /\ r = p => (i \in Pending(r, c)' <=> i \in Pending(r, c) /\ BlockNo(i) # m)
             /\ r # p => (i \in Pending(r, c)' <=> i \in Pending(r, c))
  BY <1>1, <1>2, <1>3 DEF Later, Pending
<1>9. ASSUME NEW r \in Producers, NEW n, NEW i \in Int, BlockNo(i) = n
      PROVE  i \in Rem(r, n)' <=> i \in Rem(r, n) /\ ~(r = p /\ n = m /\ i \in Part(c))
  <2>1. /\ i \in Rem(r, n)' <=> i >= q[r].head \/ \E d \in Consumers : i \in Pending(r, d)'
        /\ i \in Rem(r, n) <=> i >= q[r].head \/ \E d \in Consumers : i \in Pending(r, d)
    BY <1>9 DEF Rem
  <2>2. CASE r = p /\ n = m
    <3>1. i \notin Pending(r, c)'
      BY <1>8, <1>9, <2>2
    <3>2. CASE i \in Part(c)
      <4>1. ~(i >= q[r].head)
        BY <1>4, <1>5, <2>2, <3>2, Basics
      <4>2. \A d \in Consumers \ {c} : i \notin Pending(r, d)
        BY <1>6, <2>2, <3>2 DEF BlockInv, Apart
      <4> QED BY <1>7, <2>1, <2>2, <3>1, <3>2, <4>1, <4>2
    <3>3. CASE i \notin Part(c)
      <4>1. i \notin Pending(r, c)
        BY <1>5, <1>9, <2>2, <3>3 DEF Pending
      <4> QED BY <1>7, <2>1, <3>1, <3>3, <4>1
    <3> QED BY <3>2, <3>3
  <2>3. CASE ~(r = p /\ n = m)
    BY <1>7, <1>8, <1>9, <2>1, <2>3
  <2> QED BY <2>2, <2>3
<1>10. ASSUME NEW r \in Producers, NEW n
       PROVE  Rem(r, n)' = IF r = p /\ n = m THEN Rem(r, n) \ Part(c) ELSE Rem(r, n)
  BY <1>9 DEF Rem
<1> QED BY <1>2, <1>3, <1>6, <1>10

(* The count of a block says how many are gone; the last one releases it.    *)
LEMMA SetEmptyBlocks ==
  ASSUME IInv, IInv', BlockInv, NEW c \in Consumers, SetEmpty(c)
  PROVE  BlockInv'
<1>1. take[c].pc = "empty" /\ take[c].pc \in Working /\ DOMAIN take = Consumers
  BY Basics DEF SetEmpty, In, Working
<1>2. PICK p \in Producers : p = take[c].prod
  BY <1>1, CallAt
<1>3. PICK n \in Nat : n = Number(c)
  BY <1>1, CallAt
<1>4. PICK b \in Blocks : /\ b = take[c].block /\ Entry(p, n).key = n /\ Entry(p, n).block = b
                          /\ take[c].slot = n % IndexSize(p)
  BY <1>1, <1>2, <1>3 DEF BlockInv, CallOK, Placed
<1>5. PICK k \in Nat \ {0} : k = Cardinality(Part(c))
  BY <1>1, CallAt, PartOf
<1>6. UNCHANGED <<q, entry, fresh, free, away, plan>>
  BY DEF SetEmpty, pool
<1>7. blk' = [blk EXCEPT ![b].done = @ + k]
  BY <1>4, <1>5 DEF SetEmpty
<1>8. \/ /\ ~q[p].isExplicit /\ blk[b].done + k = BLOCK_SIZE
         /\ take' = [take EXCEPT ![c] = [take[c] EXCEPT !.pc = "release"]]
      \/ NextPart(c)
  BY <1>2, <1>4, <1>5 DEF SetEmpty, Go, Prod
<1>9. /\ \A d \in Consumers \ {c} : take'[d] = take[d]
      /\ \A r \in Producers : Pending(r, c)' = Later(r, c)
  <2>1. CASE take' = [take EXCEPT ![c] = [take[c] EXCEPT !.pc = "release"]]
    <3>1. take[c] \in [pc : {"empty", "release"}, prod : Producers, got : {take[c].got},
                       index : {take[c].index}, slot : {take[c].slot}, block : {take[c].block}]
      BY <1>1 DEF IInv, TypeOK, TakeOK, NoCall
    <3>2. /\ take'[c].pc = "release" /\ take'[c].prod = take[c].prod
          /\ take'[c].index = take[c].index /\ take'[c].got = take[c].got
          /\ \A d \in Consumers \ {c} : take'[d] = take[d]
      BY <1>1, <2>1, <3>1
    <3> QED BY <3>2 DEF Pending, Later, Span, Number, Working
  <2>2. CASE NextPart(c)
    BY <1>1, <1>2, <1>3, <1>4, <1>6, <2>2, AfterPart
  <2> QED BY <1>8, <2>1, <2>2
<1>10. /\ \A r \in Producers : \A m :
            Rem(r, m)' = IF r = p /\ m = n THEN Rem(r, m) \ Part(c) ELSE Rem(r, m)
       /\ Part(c) \subseteq Rem(p, n)
  BY <1>1, <1>2, <1>3, <1>6, <1>9, RemWithout
<1>11. Used(p, n) /\ Rem(p, n) # {} /\ n <= TailNo(p)
  BY <1>1, <1>2, <1>3, CallUses, CallAt
<1>12. blk[b].done = BLOCK_SIZE - Cardinality(Rem(p, n))
  BY <1>4, <1>11 DEF BlockInv, Live, LiveOK
<1>13. /\ Cardinality(Rem(p, n)) = Cardinality(Rem(p, n)') + k
       /\ Cardinality(Rem(p, n)') \in 0 .. BLOCK_SIZE /\ Cardinality(Rem(p, n)) \in 0 .. BLOCK_SIZE
       /\ (Cardinality(Rem(p, n)') = 0 <=> Rem(p, n)' = {})
  <2> DEFINE R == Rem(p, n)
             T == Rem(p, n)'
             P == Part(c)
  <2>1. T = R \ P /\ P \subseteq R
    BY <1>10
  <2>2. \A i \in R : i \in Int /\ BlockNo(i) = n
    BY DEF Rem
  <2> HIDE DEF R, T, P
  <2>3. \A S : S \subseteq R => IsFiniteSet(S) /\ Cardinality(S) \in 0 .. BLOCK_SIZE
                                /\ (Cardinality(S) = 0 <=> S = {})
    BY <2>2, Countable
  <2>4. IsFiniteSet(R) /\ Cardinality(R) \in 0 .. BLOCK_SIZE
        /\ IsFiniteSet(T) /\ Cardinality(T) \in 0 .. BLOCK_SIZE /\ (Cardinality(T) = 0 <=> T = {})
        /\ IsFiniteSet(P)
    BY <2>1, <2>3
  <2>5. Cardinality(T \cup P) = Cardinality(T) + Cardinality(P) - Cardinality(T \cap P)
    BY <2>4, FS_Union
  <2>6. T \cup P = R /\ T \cap P = {}
    BY <2>1
  <2>7. Cardinality({}) = 0
    BY FS_EmptySet
  <2>8. Cardinality(P) = k
    BY <1>5 DEF P
  <2>9. Cardinality(R) = Cardinality(T) + k
    <3>1. Cardinality(T \cup P) = Cardinality(R) /\ Cardinality(T \cap P) = 0
      BY <2>6, <2>7
    <3>2. Cardinality(R) = Cardinality(T) + k - 0
      BY <2>5, <2>8, <3>1
    <3>3. Cardinality(T) \in Nat
      BY <2>4, BlockNumbers
    <3> QED BY <3>2, <3>3
  <2> QED BY <2>4, <2>9 DEF R, T
<1>14. blk \in [Blocks -> [cell : [0 .. BLOCK_SIZE - 1 -> Cells], done : 0 .. BLOCK_SIZE]]
  BY DEF BlockInv, Structure
<1>15. /\ blk[b].done + k = BLOCK_SIZE - Cardinality(Rem(p, n)')
       /\ blk[b].done + k \in 0 .. BLOCK_SIZE
  <2>1. BLOCK_SIZE \in Nat
    BY BlockNumbers
  <2> QED BY <1>12, <1>13, <2>1
<1>16. /\ blk' \in [Blocks -> [cell : [0 .. BLOCK_SIZE - 1 -> Cells], done : 0 .. BLOCK_SIZE]]
       /\ blk'[b].done = BLOCK_SIZE - Cardinality(Rem(p, n)')
       /\ \A e \in Blocks \ {b} : blk'[e].done = blk[e].done
  BY <1>7, <1>14, <1>15
<1>17. \A r \in Producers : \A m : Rem(r, m)' \subseteq Rem(r, m)
  BY <1>10
<1>18. QueuesSame
  BY <1>6, Basics DEF QueuesSame
<1>19. ASSUME NEW r \in Producers
       PROVE  /\ IndexSize(r)' = IndexSize(r) /\ TailNo(r)' = TailNo(r) /\ Built(r)' = Built(r)
              /\ \A m : Place(r, m)' = Place(r, m)
              /\ \A m : Entry(r, m)' = Entry(r, m)
              /\ \A s : Good(r, s)' <=> Good(r, s)
              /\ q'[r] = q[r] /\ plan'[r] = plan[r]
  BY <1>6, <1>18, SameNumbers
<1>20. Structure' /\ Pools'
  <2>1. Structure'
    BY <1>6, <1>16, <1>19 DEF BlockInv, Structure
  <2>2. \A r \in Producers : Attached(r)' = Attached(r)
    BY <1>6 DEF Attached
  <2> QED BY <1>6, <2>1, <2>2 DEF BlockInv, Pools
<1>21. ASSUME NEW d \in Consumers, take[d].pc = "release"
       PROVE  /\ take[d].block \in Blocks \ {b}
              /\ ~(take[d].prod = p /\ Number(d) = n)
  <2>1. take[d].pc \in Working
    BY <1>21 DEF Working
  <2>2. Used(take[d].prod, Number(d)) /\ take[d].prod \in Producers
    BY <2>1, CallUses, CallAt
  <2>3. /\ Entry(take[d].prod, Number(d)).block = take[d].block /\ take[d].block \in Blocks
        /\ Rem(take[d].prod, Number(d)) = {}
    BY <1>21 DEF BlockInv, CallOK
  <2>4. ~(take[d].prod = p /\ Number(d) = n)
    BY <1>11, <2>3
  <2> QED BY <1>4, <1>11, <2>2, <2>3, <2>4, UsedApart
<1>22. ASSUME NEW d \in Consumers PROVE CallOK(d)'
  <2>1. CASE d # c
    <3>1. take[d].pc = "release" => blk'[take[d].block].done = blk[take[d].block].done
      BY <1>16, <1>21
    <3>2. \A r \in Producers : q'[r].isExplicit = q[r].isExplicit /\ q'[r].head >= q[r].head
      BY <1>18 DEF QueuesSame
    <3>3. take'[d] = take[d]
      BY <1>9, <2>1
    <3> QED BY <1>17, <1>19, <3>1, <3>2, <3>3, OtherCall
  <2>2. CASE d = c /\ NextPart(c)
    BY <1>1, <1>2, <1>3, <1>4, <1>6, <2>2, AfterPart
  <2>3. CASE /\ d = c /\ ~q[p].isExplicit /\ blk[b].done + k = BLOCK_SIZE
             /\ take' = [take EXCEPT ![c] = [take[c] EXCEPT !.pc = "release"]]
    <3>1. take[c] \in [pc : {"empty", "release"}, prod : Producers, got : {take[c].got},
                       index : {take[c].index}, slot : {take[c].slot}, block : {take[c].block}]
      BY <1>1 DEF IInv, TypeOK, TakeOK, NoCall
    <3>2. /\ take'[c].pc = "release" /\ take'[c].prod = p
          /\ take'[c].index = take[c].index /\ take'[c].got = take[c].got
          /\ take'[c].slot = take[c].slot /\ take'[c].block = b
      BY <1>1, <1>2, <1>4, <2>3, <3>1
    <3>3. Number(c)' = n /\ IndexSize(p)' = IndexSize(p) /\ Entry(p, n)' = Entry(p, n)
      BY <1>3, <1>19, <3>2 DEF Number
    <3>4. /\ take[c].index \in Nat /\ take[c].got \in Nat \ {0}
          /\ take[c].index + take[c].got <= q[p].head
      BY <1>1, <1>2 DEF BlockInv, CallOK
    <3>5. Rem(p, n)' = {} /\ blk'[b].done = BLOCK_SIZE
      <4>1. BLOCK_SIZE \in Nat
        BY BlockNumbers
      <4>2. Cardinality(Rem(p, n)') = 0
        BY <1>13, <1>15, <2>3, <4>1
      <4> QED BY <1>13, <1>16, <4>1, <4>2
    <3>6. q'[p] = q[p]
      BY <1>19
    <3> QED BY <1>4, <2>3, <3>2, <3>3, <3>4, <3>5, <3>6 DEF CallOK, Placed
  <2> QED BY <1>8, <2>1, <2>2, <2>3
<1>23. ASSUME NEW d \in Consumers, NEW e \in Consumers, d # e PROVE Apart(d, e)'
  <2>1. ASSUME NEW f \in Consumers, NEW r \in Producers
        PROVE  Pending(r, f)' \subseteq Pending(r, f)
    <3>1. CASE f = c
      BY <1>1, <1>9, <3>1 DEF Later, Pending
    <3>2. CASE f # c
      BY <1>9, <3>2 DEF Pending, Span, Number
    <3> QED BY <3>1, <3>2
  <2>2. \A r \in Producers : Pending(r, d)' \cap Pending(r, e)' = {}
    BY <1>23, <2>1 DEF BlockInv, Apart
  <2>3. ASSUME take'[d].pc = "release", take'[e].pc = "release", take'[d].prod = take'[e].prod
        PROVE  Number(d)' # Number(e)'
    <3>1. ASSUME NEW f \in Consumers, take'[f].pc = "release"
          PROVE  /\ f # c => take'[f] = take[f] /\ Number(f)' = Number(f)
                 /\ f = c => take'[f].prod = p /\ Number(f)' = n
      <4>1. CASE f # c
        BY <1>9, <4>1 DEF Number
      <4>2. CASE f = c
        <5>1. take' = [take EXCEPT ![c] = [take[c] EXCEPT !.pc = "release"]]
          BY <1>1, <1>2, <1>3, <1>4, <1>6, <1>8, <3>1, <4>2, AfterPart
        <5>2. TakeOK(take[c])
          BY DEF IInv, TypeOK
        <5>3. take[c] \in [pc : {"empty", "release"}, prod : Producers, got : {take[c].got},
                           index : {take[c].index}, slot : {take[c].slot}, block : {take[c].block}]
          BY <1>1, <5>2 DEF TakeOK, NoCall
        <5>4. take'[c].prod = p /\ take'[c].index = take[c].index
          BY <1>1, <1>2, <5>1, <5>3
        <5> QED BY <1>3, <4>2, <5>4 DEF Number
      <4> QED BY <4>1, <4>2
    <3>2. CASE d = c \/ e = c
      BY <1>21, <1>23, <2>3, <3>1, <3>2
    <3>3. CASE d # c /\ e # c
      BY <1>23, <2>3, <3>1, <3>3 DEF BlockInv, Apart
    <3> QED BY <3>2, <3>3
  <2> QED BY <2>2, <2>3 DEF Apart
<1>24. ASSUME NEW r \in Producers PROVE Live(r)'
  <2> SUFFICES ASSUME NEW m \in Nat, m <= TailNo(r), Rem(r, m)' # {}
               PROVE  LiveOK(r, m)'
    BY <1>19 DEF Live
  <2>1. Rem(r, m) # {}
    BY <1>17
  <2>2. LiveOK(r, m) /\ Used(r, m)
    BY <2>1 DEF BlockInv, Live, Used
  <2>3. blk'[Entry(r, m).block].done = BLOCK_SIZE - Cardinality(Rem(r, m)')
    <3>1. CASE r = p /\ m = n
      BY <1>4, <1>16, <3>1
    <3>2. CASE ~(r = p /\ m = n)
      <4>1. Entry(r, m).block # b
        BY <1>4, <1>11, <2>2, <3>2, UsedApart
      <4>2. Entry(r, m).block \in Blocks /\ Rem(r, m)' = Rem(r, m)
            /\ blk[Entry(r, m).block].done = BLOCK_SIZE - Cardinality(Rem(r, m))
        BY <1>10, <2>2, <3>2 DEF LiveOK
      <4> QED BY <1>16, <4>1, <4>2
    <3> QED BY <3>1, <3>2
  <2> QED BY <1>19, <2>2, <2>3 DEF LiveOK
<1>25. ASSUME NEW r \in Producers PROVE Room(r)'
  BY <1>6, <1>19 DEF BlockInv, Room
<1>26. ASSUME NEW r \in Producers PROVE Building(r)'
  <2>1. Building(r)
    BY DEF BlockInv
  <2>2. ASSUME plan[r].pc # "idle", NEW j \in 1 .. Built(r) PROVE NewOK(r, j)'
    <3>1. NewOK(r, j) /\ plan[r].new[j] \in Blocks
      BY <2>2, NewFacts
    <3>2. plan[r].new[j] # b
      BY <1>4, <1>11, <2>2, NewApart
    <3>3. blk'[plan[r].new[j]].done = blk[plan[r].new[j]].done
      BY <1>16, <3>1, <3>2
    <3> QED BY <1>19, <3>1, <3>3 DEF NewOK
  <2> QED BY <1>19, <2>1, <2>2 DEF Building
<1> QED BY <1>20, <1>22, <1>23, <1>24, <1>25, <1>26 DEF BlockInv

-------------------------------------------------------------------------------
(* A block that nobody needs any more goes to the free list.                 *)
LEMMA ReleaseBlocks ==
  ASSUME IInv, IInv', BlockInv, NEW c \in Consumers, Release(c)
  PROVE  BlockInv'
<1>1. take[c].pc = "release" /\ take[c].pc \in Working /\ NextPart(c)
  BY DEF Release, GiveUp, In, Working
<1>2. PICK p \in Producers : p = take[c].prod
  BY <1>1, CallAt
<1>3. PICK n \in Nat : n = Number(c) /\ n <= TailNo(p)
  BY <1>1, <1>2, CallAt
<1>4. PICK S \in Nat \ {0} : S = IndexSize(p)
  BY DEF BlockInv, Structure
<1>5. PICK b \in Blocks : /\ b = take[c].block /\ Entry(p, n).key = n /\ Entry(p, n).block = b
                          /\ ~q[p].isExplicit /\ Rem(p, n) = {}
  BY <1>1, <1>2, <1>3 DEF BlockInv, CallOK
<1>6. PICK s \in 0 .. S - 1 : /\ s = take[c].slot /\ s = n % S
                              /\ entry[p][s].key = n /\ entry[p][s].block = b
  <2>1. take[c].slot = n % S
    BY <1>1, <1>2, <1>3, <1>4 DEF BlockInv, CallOK, Placed
  <2>2. n % S \in 0 .. S - 1
    BY DivMod
  <2> QED BY <1>4, <1>5, <2>1, <2>2 DEF Entry
<1>7. /\ UNCHANGED <<q, blk, plan, fresh, away>> /\ free' = free \cup {b}
      /\ entry' = [entry EXCEPT ![p][s].block = NoBlock]
  BY <1>2, <1>5, <1>6 DEF Release, GiveUp, AddToFreeList, Prod
<1>8. /\ \A d \in Consumers \ {c} : take'[d] = take[d]
      /\ \A r \in Producers : Pending(r, c)' = Later(r, c)
      /\ CallOK(c)' /\ take'[c].pc # "release"
  BY <1>1, <1>2, <1>3, <1>4, <1>6, <1>7, AfterPart
<1>9. \A r \in Producers : Pending(r, c)' = Pending(r, c)
  BY <1>1, <1>8 DEF Pending, Later
<1>10. \A r \in Producers : \A m : Rem(r, m)' = Rem(r, m)
  BY <1>7, <1>8, <1>9, RemSame
<1>11. /\ DOMAIN entry = Producers
       /\ entry[p] \in [0 .. S - 1 -> [key : Int, block : Blocks \cup {NoBlock}]]
  BY <1>4 DEF BlockInv, Structure
<1>12. /\ \A r \in Producers \ {p} : entry'[r] = entry[r]
       /\ entry'[p] \in [0 .. S - 1 -> [key : Int, block : Blocks \cup {NoBlock}]]
       /\ entry'[p][s].key = n /\ entry'[p][s].block = NoBlock
       /\ \A u \in (0 .. S - 1) \ {s} : entry'[p][u] = entry[p][u]
       /\ DOMAIN entry' = Producers
  BY <1>6, <1>7, <1>11
<1>13. QueuesSame
  BY <1>7, Basics DEF QueuesSame
<1>14. ASSUME NEW r \in Producers
       PROVE  /\ IndexSize(r)' = IndexSize(r) /\ TailNo(r)' = TailNo(r) /\ Built(r)' = Built(r)
              /\ \A m : Place(r, m)' = Place(r, m)
              /\ q'[r] = q[r] /\ plan'[r] = plan[r]
              /\ r # p => \A m : Entry(r, m)' = Entry(r, m)
  BY <1>7, <1>12, <1>13, SameNumbers
<1>15. ASSUME NEW r \in Producers, NEW u PROVE Good(r, u)' <=> Good(r, u)
  BY <1>4, <1>6, <1>12, <1>14 DEF Good
<1>16. ASSUME NEW m \in Int, Entry(p, m).key = m, m # n
       PROVE  Entry(p, m)' = Entry(p, m)
  <2>1. m % S \in 0 .. S - 1
    BY DivMod
  <2>2. m % S # s
    BY <1>4, <1>6, <1>16 DEF Entry
  <2> QED BY <1>4, <1>12, <1>14, <2>1, <2>2 DEF Entry
<1>17. ASSUME NEW r \in Producers, NEW m, Used(r, m), ~(r = p /\ m = n)
       PROVE  Entry(r, m)' = Entry(r, m)
  <2>1. CASE r = p
    BY <1>16, <1>17, <2>1, UsedEntry
  <2>2. CASE r # p
    BY <1>14, <2>2
  <2> QED BY <2>1, <2>2
<1>18. Structure'
  <2>1. Structure
    BY DEF BlockInv
  <2>2. free' \subseteq Blocks /\ fresh' \subseteq Blocks /\ away' \subseteq Blocks
        /\ blk' \in [Blocks -> [cell : [0 .. BLOCK_SIZE - 1 -> Cells], done : 0 .. BLOCK_SIZE]]
    BY <1>7, <2>1 DEF Structure
  <2>3. ASSUME NEW r \in Producers
        PROVE  entry'[r] \in [0 .. IndexSize(r)' - 1 -> [key : Int, block : Blocks \cup {NoBlock}]]
    BY <1>4, <1>12, <1>14, <2>1 DEF Structure
  <2>4. DOMAIN entry' = Producers
        /\ \A r \in Producers : IndexSize(r)' = IndexSize(r) /\ q'[r] = q[r] /\ plan'[r] = plan[r]
    BY <1>12, <1>14
  <2>5. ASSUME NEW r \in Producers
        PROVE  /\ IndexSize(r)' \in Nat \ {0}
               /\ q'[r].isExplicit => Cardinality(Blocks) <= IndexSize(r)'
               /\ q'[r].ring \in Seq(Blocks)
               /\ plan'[r].pc # "idle" =>
                    /\ plan'[r].pc \in {"grow", "block", "inject", "fill"}
                    /\ plan'[r].n \in Nat \ {0} /\ plan'[r].need \in Int
                    /\ plan'[r].new \in Seq(Blocks) /\ plan'[r].start \in Seq(Blocks)
    BY <2>1, <2>4 DEF Structure
  <2> QED BY <2>2, <2>3, <2>4, <2>5 DEF Structure
<1>19. Pools'
  <2>1. ASSUME NEW r \in Producers, r # p PROVE Attached(r)' = Attached(r)
    <3>1. entry'[r] = entry[r] /\ q'[r] = q[r]
      BY <1>12, <1>14, <2>1
    <3> QED BY <3>1 DEF Attached
  <2>2. Attached(p)' \subseteq Attached(p) \ {b}
    <3>1. ASSUME NEW u \in 0 .. S - 1, entry'[p][u].block # NoBlock
          PROVE  entry'[p][u].block \in Attached(p) \ {b}
      <4>1. u # s /\ entry'[p][u] = entry[p][u]
        BY <1>12, <3>1
      <4>2. entry[p][u].block # b
        BY <1>4, <1>5, <1>6, <4>1, QueueAssumption DEF BlockInv, Room
      <4> QED BY <1>4, <1>5, <3>1, <4>1, <4>2, EntryAttached
    <3>2. DOMAIN entry'[p] = 0 .. S - 1
      BY <1>12
    <3>3. ~q'[p].isExplicit
      BY <1>5, <1>14
    <3> QED BY <3>1, <3>2, <3>3 DEF Attached
  <2>3. b \in Attached(p)
    BY <1>4, <1>5, <1>6, EntryAttached, QueueAssumption
  <2>4. Pools
    BY DEF BlockInv
  <2>5. \A r \in Producers : Attached(r)' \subseteq Attached(r) /\ b \notin Attached(r)'
    BY <2>1, <2>2, <2>3, <2>4 DEF Pools
  <2>6. b \notin fresh /\ b \notin away
    BY <2>3, <2>4 DEF Pools
  <2> QED BY <1>7, <2>4, <2>5, <2>6 DEF Pools
<1>20. ASSUME NEW d \in Consumers PROVE CallOK(d)'
  <2>1. CASE d = c
    BY <1>8, <2>1
  <2>2. CASE d # c
    <3>1. ASSUME take[d].pc \in {"empty", "release"} PROVE ~(take[d].prod = p /\ Number(d) = n)
      <4>1. CASE take[d].pc = "release"
        <5>1. Apart(c, d)
          BY <2>2 DEF BlockInv
        <5> QED BY <1>1, <1>2, <1>3, <4>1, <5>1 DEF Apart
      <4>2. CASE take[d].pc = "empty"
        BY <1>5, <4>2, CallUses DEF Working
      <4> QED BY <3>1, <4>1, <4>2
    <3>2. take'[d] = take[d] /\ UNCHANGED blk
      BY <1>7, <1>8, <2>2
    <3>3. \A r \in Producers : q'[r].isExplicit = q[r].isExplicit /\ q'[r].head >= q[r].head
      BY <1>13 DEF QueuesSame
    <3> QED BY <1>10, <1>15, <1>17, <3>1, <3>2, <3>3, OtherCall
  <2> QED BY <2>1, <2>2
<1>21. ASSUME NEW d \in Consumers, NEW e \in Consumers, d # e PROVE Apart(d, e)'
  <2>1. Apart(d, e)
    BY <1>21 DEF BlockInv
  <2>2. ASSUME NEW f \in Consumers, NEW r \in Producers PROVE Pending(r, f)' = Pending(r, f)
    <3>1. CASE f = c
      BY <1>9, <3>1
    <3>2. CASE f # c
      BY <1>8, <3>2 DEF Pending, Span, Number
    <3> QED BY <3>1, <3>2
  <2>3. ASSUME NEW f \in Consumers, take'[f].pc = "release"
        PROVE  take'[f] = take[f] /\ Number(f)' = Number(f)
    BY <1>8, <2>3 DEF Number
  <2> QED BY <2>1, <2>2, <2>3 DEF Apart
<1>22. ASSUME NEW r \in Producers PROVE Live(r)'
  <2> SUFFICES ASSUME NEW m \in Nat, m <= TailNo(r), Rem(r, m) # {}
               PROVE  LiveOK(r, m)'
    BY <1>10, <1>14 DEF Live
  <2>1. LiveOK(r, m) /\ Used(r, m) /\ ~(r = p /\ m = n)
    BY <1>5 DEF BlockInv, Live, Used
  <2>2. Entry(r, m)' = Entry(r, m) /\ Rem(r, m)' = Rem(r, m)
    BY <1>10, <1>17, <2>1
  <2> QED BY <1>7, <1>14, <2>1, <2>2 DEF LiveOK
<1>23. ASSUME NEW r \in Producers PROVE Room(r)'
  <2>1. Room(r)
    BY DEF BlockInv
  <2>2. CASE r # p
    BY <1>12, <1>14, <1>15, <2>1, <2>2, SMTT(60) DEF Room
  <2>3. CASE r = p
    <3>1. ~q[p].isExplicit /\ ~q'[p].isExplicit
      BY <1>5, <1>14
    <3>2. plan'[p].pc = "block" => /\ entry'[p][q'[p].last].key = TailNo(p) + Built(p) + 1
                                   /\ entry'[p][q'[p].last].block = NoBlock
      <4>1. ASSUME plan[p].pc = "block"
            PROVE  /\ entry'[p][q[p].last].key = TailNo(p) + Built(p) + 1
                   /\ entry'[p][q[p].last].block = NoBlock
        <5>1. entry[p][q[p].last].key = TailNo(p) + Built(p) + 1 /\ entry[p][q[p].last].block = NoBlock
          BY <2>1, <2>3, <3>1, <4>1 DEF Room
        <5>2. q[p].last # s /\ q[p].last \in 0 .. S - 1
          BY <1>4, <1>6, <2>1, <2>3, <5>1, QueueAssumption DEF Room, Good
        <5> QED BY <1>12, <5>1, <5>2
      <4> QED BY <1>14, <4>1
    <3>3. \A u, v \in 0 .. S - 1 :
            entry'[p][u].block = entry'[p][v].block /\ entry'[p][u].block # NoBlock => u = v
      BY <1>4, <1>12, <2>1, <2>3, <3>1 DEF Room
    <3>4. IndexSize(p)' = S /\ Good(p, q[p].last)' /\ Good(p, TailNo(p) % S)'
      BY <1>4, <1>14, <1>15, <2>1, <2>3 DEF Room
    <3>5. plan[p].pc # "block" => q[p].last = (TailNo(p) + Built(p)) % S
      BY <1>4, <2>1, <2>3, <3>1 DEF Room
    <3>6. plan[p].pc = "block" => q[p].last = (TailNo(p) + Built(p) + 1) % S
      BY <1>4, <2>1, <2>3, <3>1 DEF Room
    <3> QED BY <1>14, <2>3, <3>1, <3>2, <3>3, <3>4, <3>5, <3>6 DEF Room
  <2> QED BY <2>2, <2>3
<1>24. ASSUME NEW r \in Producers PROVE Building(r)'
  <2>1. Building(r)
    BY DEF BlockInv
  <2>2. ASSUME plan[r].pc # "idle", NEW j \in 1 .. Built(r) PROVE NewOK(r, j)'
    <3>1. NewOK(r, j) /\ TailNo(r) + j \in Int
      BY <2>2, NewFacts
    <3>2. Entry(r, TailNo(r) + j)' = Entry(r, TailNo(r) + j)
      <4>1. CASE r = p
        <5>1. Entry(p, TailNo(p) + j).key = TailNo(p) + j
          BY <3>1, <4>1 DEF NewOK
        <5>2. TailNo(p) + j # n
          BY <1>3, Basics, Lengths
        <5>3. PICK m \in Int : m = TailNo(p) + j
          BY <3>1, <4>1
        <5>4. Entry(p, m)' = Entry(p, m)
          BY <1>16, <5>1, <5>2, <5>3
        <5>5. TailNo(p)' = TailNo(p)
          BY <1>14
        <5> QED BY <4>1, <5>3, <5>4, <5>5
      <4>2. CASE r # p
        BY <1>14, <3>1, <4>2
      <4> QED BY <4>1, <4>2
    <3> QED BY <1>7, <1>14, <3>1, <3>2 DEF NewOK
  <2> QED BY <1>14, <2>1, <2>2 DEF Building
<1> QED BY <1>18, <1>19, <1>20, <1>21, <1>22, <1>23, <1>24 DEF BlockInv

(* Blocks that go to the pool or come from it.                               *)
LEMMA PoolStep ==
  ASSUME IInv, IInv', BlockInv, UNCHANGED <<q, entry, blk, plan, take>>,
         fresh' \cup free' \cup away' = fresh \cup free \cup away,
         fresh' \cap free' = {}, (fresh' \cup free') \cap away' = {}
  PROVE  BlockInv'
<1>1. fresh' \subseteq Blocks /\ free' \subseteq Blocks /\ away' \subseteq Blocks
  BY DEF BlockInv, Structure
<1>2. Structure'
  BY <1>1 DEF BlockInv, Structure, IndexSize
<1>3. Pools'
  BY DEF Attached, BlockInv, Pools
<1>4. ASSUME NEW r \in Producers
      PROVE  /\ IndexSize(r)' = IndexSize(r) /\ TailNo(r)' = TailNo(r) /\ Built(r)' = Built(r)
  BY DEF IndexSize, TailNo, Built
<1>5. /\ \A c \in Consumers : CallOK(c)'
      /\ \A c, d \in Consumers : c # d => Apart(c, d)'
      /\ \A p \in Producers : Live(p)' /\ Room(p)' /\ Building(p)'
  <2>1. /\ \A c \in Consumers : CallOK(c)
        /\ \A c, d \in Consumers : c # d => Apart(c, d)
        /\ \A p \in Producers : Live(p) /\ Room(p) /\ Building(p)
    BY DEF BlockInv
  <2>2. ASSUME NEW c \in Consumers PROVE CallOK(c)'
    <3>1. \A r \in Producers : q'[r].head = q[r].head /\ Pending(r, c)' = Pending(r, c)
      BY DEF Pending, Span, Number
    <3>2. \A r \in Producers : \A n : Rem(r, n)' = Rem(r, n)
      BY <3>1, RemSame
    <3>3. \A r \in Producers : \A n : Entry(r, n)' = Entry(r, n)
      BY <1>4 DEF Entry
    <3>4. \A r \in Producers : \A s : Good(r, s) => Good(r, s)'
      BY <1>4 DEF Good
    <3>5. \A r \in Producers : q'[r].isExplicit = q[r].isExplicit /\ q'[r].head >= q[r].head
      BY Basics
    <3> QED BY <3>2, <3>3, <3>4, <3>5, OtherCall
  <2>3. ASSUME NEW c \in Consumers, NEW d \in Consumers, c # d PROVE Apart(c, d)'
    BY <2>1, <2>3 DEF Apart, Pending, Span, Number
  <2>4. ASSUME NEW p \in Producers PROVE Live(p)'
    <3>1. \A n : Rem(p, n)' = Rem(p, n)
      BY DEF Rem, Pending, Span, Number
    <3>2. /\ \A n : Entry(p, n)' = Entry(p, n) /\ Place(p, n)' = Place(p, n)
          /\ TailNo(p)' = TailNo(p)
      BY <1>4 DEF Entry, Place
    <3>3. ASSUME NEW n, LiveOK(p, n) PROVE LiveOK(p, n)'
      BY <3>1, <3>2, <3>3 DEF LiveOK
    <3> QED BY <2>1, <3>1, <3>2, <3>3 DEF Live
  <2>5. ASSUME NEW p \in Producers PROVE Room(p)'
    BY <2>1 DEF Room, Good, TailNo, Built, IndexSize
  <2>6. ASSUME NEW p \in Producers PROVE Building(p)'
    BY <1>4, <2>1 DEF Entry, NewOK, Building
  <2> QED BY <2>2, <2>3, <2>4, <2>5, <2>6
<1> QED BY <1>2, <1>3, <1>5 DEF BlockInv

(* Other producers take from the pool and give back.                         *)
LEMMA BorrowBlocks ==
  ASSUME IInv, IInv', BlockInv, Borrow \/ Restore
  PROVE  BlockInv'
<1>1. UNCHANGED <<q, entry, blk, plan, take>>
  BY DEF Borrow, Restore
<1>2. fresh \cap free = {} /\ (fresh \cup free) \cap away = {}
  BY DEF BlockInv, Pools
<1>3. CASE Borrow
  BY <1>1, <1>2, <1>3, PoolStep DEF Borrow, Available
<1>4. CASE Restore
  BY <1>1, <1>2, <1>4, PoolStep DEF Restore
<1> QED BY <1>3, <1>4

-------------------------------------------------------------------------------
(* Steps of an enqueue.                                                      *)

(* What it leaves to the calls that dequeue, and to the other producers.     *)
Keeps(p) ==
  /\ UNCHANGED take
  /\ \A r \in Producers : q'[r].isExplicit = q[r].isExplicit /\ q'[r].head = q[r].head
  /\ \A r \in Producers \ {p} : q'[r] = q[r] /\ entry'[r] = entry[r] /\ plan'[r] = plan[r]
  /\ \A r \in Producers \ {p} : \A b \in Attached(r) : blk'[b].done = blk[b].done
  /\ \A s : Good(p, s) => Good(p, s)'
  /\ \A n : Used(p, n) => /\ Entry(p, n)' = Entry(p, n)
                          /\ blk'[Entry(p, n).block].done = blk[Entry(p, n).block].done

(* The types, at the producer.                                               *)
Typed(p) ==
  /\ DOMAIN entry' = Producers
  /\ entry'[p] \in [0 .. IndexSize(p) - 1 -> [key : Int, block : Blocks \cup {NoBlock}]]
  /\ q'[p].ring \in Seq(Blocks)
  /\ plan'[p].pc # "idle" =>
       /\ plan'[p].pc \in {"grow", "block", "inject", "fill"}
       /\ plan'[p].n \in Nat \ {0} /\ plan'[p].need \in Int
       /\ plan'[p].new \in Seq(Blocks) /\ plan'[p].start \in Seq(Blocks)
  /\ blk' \in [Blocks -> [cell : [0 .. BLOCK_SIZE - 1 -> Cells], done : 0 .. BLOCK_SIZE]]
  /\ fresh' \subseteq Blocks /\ free' \subseteq Blocks /\ away' \subseteq Blocks

(* What an enqueue leaves alone stays what it was.                           *)
LEMMA KeepsRem ==
  ASSUME NEW p, Keeps(p)
  PROVE  /\ \A r \in Producers : \A n : Rem(r, n)' = Rem(r, n)
         /\ \A r \in Producers : IndexSize(r)' = IndexSize(r)
         /\ \A r \in Producers \ {p} :
              /\ TailNo(r)' = TailNo(r) /\ Built(r)' = Built(r)
              /\ \A n : Entry(r, n)' = Entry(r, n) /\ Place(r, n)' = Place(r, n)
              /\ \A s : Good(r, s)' <=> Good(r, s)
<1>1. \A r \in Producers : q'[r].head = q[r].head /\ IndexSize(r)' = IndexSize(r)
  BY DEF Keeps, IndexSize
<1>2. \A r \in Producers, c \in Consumers : Pending(r, c)' = Pending(r, c)
  BY DEF Keeps, Pending, Span, Number
<1>3. \A r \in Producers : \A n : Rem(r, n)' = Rem(r, n)
  BY <1>1, <1>2 DEF Rem
<1>4. ASSUME NEW r \in Producers \ {p}
      PROVE  /\ TailNo(r)' = TailNo(r) /\ Built(r)' = Built(r)
             /\ \A n : Entry(r, n)' = Entry(r, n) /\ Place(r, n)' = Place(r, n)
             /\ \A s : Good(r, s)' <=> Good(r, s)
  <2>1. q'[r] = q[r] /\ entry'[r] = entry[r] /\ plan'[r] = plan[r] /\ IndexSize(r)' = IndexSize(r)
    BY <1>1 DEF Keeps
  <2> QED BY <2>1 DEF TailNo, Built, Entry, Place, Good
<1> QED BY <1>1, <1>3, <1>4

(* A step of an enqueue has to be checked at its producer only.              *)
LEMMA EnqueueStep ==
  ASSUME IInv, IInv', BlockInv, NEW p \in Producers, Keeps(p), Typed(p), Pools',
         Live(p)', Room(p)', Building(p)'
  PROVE  BlockInv'
<1>1. /\ \A r \in Producers : \A n : Rem(r, n)' = Rem(r, n)
      /\ \A r \in Producers : IndexSize(r)' = IndexSize(r)
  BY KeepsRem
<1>2. ASSUME NEW r \in Producers \ {p}
      PROVE  /\ TailNo(r)' = TailNo(r) /\ Built(r)' = Built(r)
             /\ \A n : Entry(r, n)' = Entry(r, n) /\ Place(r, n)' = Place(r, n)
             /\ \A s : Good(r, s)' <=> Good(r, s)
             /\ q'[r] = q[r] /\ entry'[r] = entry[r] /\ plan'[r] = plan[r]
             /\ \A b \in Attached(r) : blk'[b].done = blk[b].done
  BY KeepsRem DEF Keeps
<1>3. Structure'
  <2>1. Structure
    BY DEF BlockInv
  <2>2. ASSUME NEW r \in Producers
        PROVE  /\ IndexSize(r)' \in Nat \ {0}
               /\ q'[r].isExplicit => Cardinality(Blocks) <= IndexSize(r)'
    BY <1>1, <2>1 DEF Structure, Keeps
  <2>3. ASSUME NEW r \in Producers
        PROVE  /\ entry'[r] \in [0 .. IndexSize(r)' - 1 -> [key : Int, block : Blocks \cup {NoBlock}]]
               /\ q'[r].ring \in Seq(Blocks)
               /\ plan'[r].pc # "idle" =>
                    /\ plan'[r].pc \in {"grow", "block", "inject", "fill"}
                    /\ plan'[r].n \in Nat \ {0} /\ plan'[r].need \in Int
                    /\ plan'[r].new \in Seq(Blocks) /\ plan'[r].start \in Seq(Blocks)
    <3>1. IndexSize(r)' = IndexSize(r)
      BY <1>1
    <3>2. CASE r = p
      BY <3>1, <3>2 DEF Typed
    <3>3. CASE r # p
      BY <1>2, <2>1, <3>1, <3>3 DEF Structure
    <3> QED BY <3>2, <3>3
  <2>4. /\ DOMAIN entry' = Producers
        /\ blk' \in [Blocks -> [cell : [0 .. BLOCK_SIZE - 1 -> Cells], done : 0 .. BLOCK_SIZE]]
        /\ fresh' \subseteq Blocks /\ free' \subseteq Blocks /\ away' \subseteq Blocks
    BY DEF Typed
  <2> QED BY <2>2, <2>3, <2>4 DEF Structure
<1>4. ASSUME NEW r \in Producers, NEW n, Used(r, n)
      PROVE  /\ Entry(r, n)' = Entry(r, n)
             /\ blk'[Entry(r, n).block].done = blk[Entry(r, n).block].done
  BY <1>2, <1>4, UsedEntry DEF Keeps
<1>5. ASSUME NEW d \in Consumers PROVE CallOK(d)'
  <2>1. take'[d] = take[d]
    BY DEF Keeps
  <2>2. \A r \in Producers : q'[r].isExplicit = q[r].isExplicit /\ q'[r].head >= q[r].head
    BY Basics DEF Keeps
  <2>3. \A r \in Producers : \A s : Good(r, s) => Good(r, s)'
    <3> SUFFICES ASSUME NEW r \in Producers, NEW s, Good(r, s) PROVE Good(r, s)'
      OBVIOUS
    <3>1. CASE r = p
      BY <3>1 DEF Keeps
    <3>2. CASE r # p
      BY <1>2, <3>2
    <3> QED BY <3>1, <3>2
  <2>4. take[d].pc = "release" => blk'[take[d].block].done = blk[take[d].block].done
    <3> SUFFICES ASSUME take[d].pc = "release"
                 PROVE  blk'[take[d].block].done = blk[take[d].block].done
      OBVIOUS
    <3>1. Used(take[d].prod, Number(d)) /\ take[d].prod \in Producers
      BY CallUses, CallAt DEF Working
    <3>2. Entry(take[d].prod, Number(d)).block = take[d].block
      BY DEF BlockInv, CallOK
    <3> QED BY <1>4, <3>1, <3>2
  <2>5. \A r \in Producers : \A n : Rem(r, n)' \subseteq Rem(r, n)
    BY <1>1
  <2> QED BY <1>4, <2>1, <2>2, <2>3, <2>4, <2>5, OtherCall
<1>6. ASSUME NEW d \in Consumers, NEW e \in Consumers, d # e PROVE Apart(d, e)'
  <2>1. Apart(d, e) /\ UNCHANGED take
    BY <1>6 DEF BlockInv, Keeps
  <2> QED BY <2>1 DEF Apart, Pending, Span, Number
<1>7. ASSUME NEW r \in Producers \ {p} PROVE Live(r)' /\ Room(r)' /\ Building(r)'
  <2>1. Live(r)'
    <3> SUFFICES ASSUME NEW n \in Nat, n <= TailNo(r), Rem(r, n) # {}
                 PROVE  LiveOK(r, n)'
      BY <1>1, <1>2 DEF Live
    <3>1. LiveOK(r, n) /\ Used(r, n)
      BY DEF BlockInv, Live, Used
    <3>2. Entry(r, n)' = Entry(r, n) /\ Rem(r, n)' = Rem(r, n)
          /\ blk'[Entry(r, n).block].done = blk[Entry(r, n).block].done
      BY <1>1, <1>4, <3>1
    <3>3. q'[r] = q[r] /\ TailNo(r)' = TailNo(r) /\ Place(r, n)' = Place(r, n)
      BY <1>2
    <3> QED BY <3>1, <3>2, <3>3 DEF LiveOK
  <2>2. Room(r)'
    BY <1>1, <1>2 DEF BlockInv, Room
  <2>3. Building(r)'
    <3>1. Building(r)
      BY DEF BlockInv
    <3>2. /\ TailNo(r)' = TailNo(r) /\ Built(r)' = Built(r) /\ IndexSize(r)' = IndexSize(r)
          /\ q'[r] = q[r] /\ plan'[r] = plan[r]
          /\ \A n : Entry(r, n)' = Entry(r, n)
      BY <1>1, <1>2
    <3>3. ASSUME plan[r].pc # "idle", NEW j \in 1 .. Built(r) PROVE NewOK(r, j)'
      BY <1>2, <3>2, <3>3, NewFacts DEF NewOK
    <3> QED BY <3>1, <3>2, <3>3 DEF Building
  <2> QED BY <2>1, <2>2, <2>3
<1> QED BY <1>3, <1>5, <1>6, <1>7 DEF BlockInv

(* The live blocks stay live when the tail does not move.                    *)
LEMMA LiveSame ==
  ASSUME IInv, BlockInv, NEW p \in Producers, Keeps(p), TailNo(p)' = TailNo(p),
         q[p].isExplicit => \A n : Used(p, n) =>
           Place(p, n)' >= 1 /\ q'[p].ring[Place(p, n)'] = q[p].ring[Place(p, n)],
         ~q[p].isExplicit => q'[p].ring = q[p].ring
  PROVE  Live(p)'
<1>1. /\ \A n : Rem(p, n)' = Rem(p, n)
      /\ q'[p].isExplicit = q[p].isExplicit
  BY KeepsRem DEF Keeps
<1> SUFFICES ASSUME NEW n \in Nat, n <= TailNo(p), Rem(p, n) # {}
             PROVE  LiveOK(p, n)'
  BY <1>1 DEF Live
<1>2. LiveOK(p, n) /\ Used(p, n)
  BY DEF BlockInv, Live, Used
<1>3. Entry(p, n)' = Entry(p, n)
      /\ blk'[Entry(p, n).block].done = blk[Entry(p, n).block].done
  BY <1>2 DEF Keeps
<1>4. CASE q[p].isExplicit
  BY <1>1, <1>2, <1>3, <1>4 DEF LiveOK
<1>5. CASE ~q[p].isExplicit
  BY <1>1, <1>2, <1>3, <1>5 DEF LiveOK
<1> QED BY <1>4, <1>5

-------------------------------------------------------------------------------
(* The call goes on.                                                         *)
LEMMA PlanGoes ==
  ASSUME IInv, NEW p \in Producers, plan[p].pc # "idle", NEW l, NEW new, Plan(p, l, new)
  PROVE  /\ plan'[p].pc = l /\ plan'[p].new = new /\ plan'[p].n = plan[p].n
         /\ plan'[p].need = plan[p].need /\ plan'[p].start = plan[p].start
         /\ plan'[p].front = plan[p].front
         /\ l # "idle" => Built(p)' = Len(new)
         /\ \A r \in Producers \ {p} : plan'[r] = plan[r]
<1>1. PlanOK(plan[p]) /\ DOMAIN plan = Producers
  BY DEF IInv, TypeOK
<1>2. plan[p] \in [pc : {plan[p].pc}, n : Nat, new : {plan[p].new}, need : {plan[p].need},
                   start : {plan[p].start}, front : {plan[p].front}, used : {plan[p].used}]
  BY <1>1 DEF PlanOK, NoCall
<1>3. plan'[p] = [plan[p] EXCEPT !.pc = l, !.new = new]
      /\ \A r \in Producers \ {p} : plan'[r] = plan[r]
  BY <1>1 DEF Plan
<1>4. /\ plan'[p].pc = l /\ plan'[p].new = new /\ plan'[p].n = plan[p].n
      /\ plan'[p].need = plan[p].need /\ plan'[p].start = plan[p].start
      /\ plan'[p].front = plan[p].front
  BY <1>2, <1>3
<1> QED BY <1>3, <1>4 DEF Built

(* The call is over.                                                         *)
LEMMA ReturnGoes ==
  ASSUME IInv, NEW p \in Producers, Return(p)
  PROVE  /\ plan'[p].pc = "idle" /\ Built(p)' = 0
         /\ \A r \in Producers \ {p} : plan'[r] = plan[r]
<1>1. DOMAIN plan = Producers
  BY Basics
<1>2. plan'[p] = NoCall /\ \A r \in Producers \ {p} : plan'[r] = plan[r]
  BY <1>1 DEF Return
<1> QED BY <1>2 DEF NoCall, Built

(* A step that leaves queue and index alone.                                 *)
LEMMA Still ==
  ASSUME IInv, BlockInv, NEW p \in Producers, UNCHANGED <<q, entry, take, blk>>,
         \A r \in Producers \ {p} : plan'[r] = plan[r]
  PROVE  /\ Keeps(p) /\ IndexSize(p)' = IndexSize(p) /\ TailNo(p)' = TailNo(p)
         /\ \A n : Entry(p, n)' = Entry(p, n)
<1>1. IndexSize(p)' = IndexSize(p) /\ TailNo(p)' = TailNo(p)
  BY DEF IndexSize, TailNo
<1>2. \A n : Entry(p, n)' = Entry(p, n)
  BY <1>1 DEF Entry
<1>3. \A s : Good(p, s) => Good(p, s)'
  BY <1>1 DEF Good
<1> QED BY <1>1, <1>2, <1>3 DEF Keeps

(* A call begins.                                                            *)
LEMMA BeginBlocks ==
  ASSUME IInv, IInv', BlockInv, NEW p \in Producers, NEW n \in Sizes, Begin(p, n)
  PROVE  BlockInv'
<1>1. UNCHANGED <<q, entry, blk, fresh, free, away, take>>
  BY DEF Begin, pool
<1>2. plan[p].pc = "idle" /\ DOMAIN plan = Producers
  BY Basics DEF Begin, At
<1>3. /\ plan'[p] = [pc |-> "grow", n |-> n, new |-> <<>>,
                     need |-> BlockNo(q[p].tail + n - 1) - BlockNo(q[p].tail - 1),
                     start |-> q[p].ring, front |-> q[p].front, used |-> q[p].used]
      /\ \A r \in Producers \ {p} : plan'[r] = plan[r]
  BY <1>2 DEF Begin
<1>4. /\ plan'[p].pc = "grow" /\ plan'[p].n = n /\ plan'[p].new = <<>>
      /\ plan'[p].need = BlockNo(q[p].tail + n - 1) - TailNo(p)
      /\ plan'[p].start = q[p].ring /\ plan'[p].front = q[p].front
  BY <1>3 DEF TailNo
<1>5. Built(p) = 0 /\ Built(p)' = 0
  BY <1>2, <1>4 DEF Built
<1>6. Keeps(p) /\ IndexSize(p)' = IndexSize(p) /\ TailNo(p)' = TailNo(p)
      /\ \A m : Entry(p, m)' = Entry(p, m)
  BY <1>1, <1>3, Still
<1>7. n \in Nat \ {0}
  BY QueueAssumption
<1>8. plan'[p].need \in Int
  <2>1. q[p].tail + n - 1 \in Int /\ TailNo(p) \in Int
    BY <1>7, Basics
  <2>2. BlockNo(q[p].tail + n - 1) \in Int
    BY <2>1, BlockNumbers
  <2> QED BY <1>4, <2>1, <2>2
<1>9. Structure /\ Pools /\ Room(p)
  BY DEF BlockInv
<1>10. q[p].ring \in Seq(Blocks)
  BY <1>9 DEF Structure
<1>11. Typed(p)
  BY <1>1, <1>4, <1>7, <1>8, <1>9, <1>10 DEF Typed, Structure
<1>12. Pools'
  <2>1. \A r \in Producers : Attached(r)' = Attached(r)
    BY <1>1 DEF Attached
  <2> QED BY <1>1, <1>9, <2>1 DEF Pools
<1>13. Live(p)'
  <2>1. \A m : Place(p, m)' = Place(p, m)
    BY <1>1, <1>5, <1>6 DEF Place
  <2>2. \A m : Used(p, m) /\ q[p].isExplicit => Place(p, m) >= 1
    BY UsedPlace, Lengths
  <2> QED BY <1>1, <1>6, <2>1, <2>2, LiveSame
<1>14. Room(p)'
  <2>1. \A s : Good(p, s) => Good(p, s)'
    BY <1>6 DEF Keeps
  <2> QED BY <1>1, <1>2, <1>4, <1>5, <1>6, <1>9, <2>1 DEF Room
<1>15. Building(p)'
  <2>1. q[p].isExplicit => q[p].front = (TailNo(p) + 1) % IndexSize(p)
    BY <1>5, <1>9, Basics DEF Room
  <2>2. Len(q[p].ring) \in Nat
    BY <1>10
  <2>3. q[p].ring = <<>> => Len(q[p].ring) = 0
    OBVIOUS
  <2>4. \A k \in 1 .. 0 : FALSE
    OBVIOUS
  <2>5. Len(q[p].ring) - 0 = Len(q[p].ring)
    BY <2>2
  <2>6. q'[p] = q[p] /\ 0 <= Len(q[p].ring)
    BY <1>1, <2>2
  <2> QED BY <1>4, <1>5, <1>6, <2>1, <2>3, <2>4, <2>5, <2>6 DEF Building
<1> QED BY <1>6, <1>11, <1>12, <1>13, <1>14, <1>15, EnqueueStep

-------------------------------------------------------------------------------
(* Only the published slot changes.                                          *)
LEMMA LastOnly ==
  ASSUME IInv, NEW p \in Producers, NEW v, q' = [q EXCEPT ![p].last = v]
  PROVE  /\ \A r \in Producers \ {p} : q'[r] = q[r]
         /\ q'[p].last = v
         /\ q'[p].isExplicit = q[p].isExplicit /\ q'[p].tail = q[p].tail
         /\ q'[p].head = q[p].head /\ q'[p].front = q[p].front /\ q'[p].ring = q[p].ring
         /\ q'[p].used = q[p].used
         /\ IndexSize(p)' = IndexSize(p) /\ TailNo(p)' = TailNo(p)
<1>1. DOMAIN q = Producers /\ QueueOK(q[p])
  BY DEF IInv, TypeOK
<1>2. q'[p] = [q[p] EXCEPT !.last = v] /\ \A r \in Producers \ {p} : q'[r] = q[r]
  BY <1>1
<1>3. /\ q'[p].last = v
      /\ q'[p].isExplicit = q[p].isExplicit /\ q'[p].tail = q[p].tail
      /\ q'[p].head = q[p].head /\ q'[p].front = q[p].front /\ q'[p].ring = q[p].ring
      /\ q'[p].used = q[p].used
  BY <1>1, <1>2 DEF QueueOK
<1> QED BY <1>2, <1>3 DEF IndexSize, TailNo

(* The slot of a number whose entry has it as key is a good one to start from. *)
LEMMA GoodSlot ==
  ASSUME BlockInv, NEW p \in Producers, NEW n \in Int, Entry(p, n).key = n
  PROVE  Good(p, n % IndexSize(p))
BY SlotIn DEF Good, Entry

(* Going on from a slot.                                                     *)
LEMMA NextSlot ==
  ASSUME BlockInv, NEW p \in Producers, NEW n \in Int, NEW k \in Int
  PROVE  Slot(p, (n % IndexSize(p)) + k) = (n + k) % IndexSize(p)
<1>1. PICK S \in Nat \ {0} : S = IndexSize(p)
  BY DEF BlockInv, Structure
<1>2. ((n % S) + k) % S = (n + k) % S
  BY Congruent
<1> QED BY <1>1, <1>2 DEF Slot

(* What is attached is a block.                                              *)
LEMMA AttachedBlocks ==
  ASSUME BlockInv, NEW p \in Producers, NEW b \in Attached(p)
  PROVE  b \in Blocks
<1>1. q[p].ring \in Seq(Blocks)
  BY Lengths
<1>2. entry[p] \in [0 .. IndexSize(p) - 1 -> [key : Int, block : Blocks \cup {NoBlock}]]
  BY DEF BlockInv, Structure
<1>3. CASE q[p].isExplicit
  BY <1>1, <1>3 DEF Attached, ToSet
<1>4. CASE ~q[p].isExplicit
  BY <1>2, <1>4 DEF Attached
<1> QED BY <1>3, <1>4

(* The blocks count as full, and the index shows them.                       *)
LEMMA ShowBlocksBlocks ==
  ASSUME IInv, IInv', BlockInv, NEW p \in Producers, ShowBlocks(p)
  PROVE  BlockInv'
<1> DEFINE new == plan[p].new
<1>1. /\ plan[p].pc \in {"grow", "inject"} /\ Len(new) = plan[p].need /\ plan[p].pc # "idle"
      /\ Plan(p, "fill", new) /\ UNCHANGED <<entry, fresh, free, away, take>>
  BY DEF ShowBlocks, At, pool
<1>2. /\ plan'[p].pc = "fill" /\ plan'[p].new = new /\ plan'[p].n = plan[p].n
      /\ plan'[p].need = plan[p].need /\ plan'[p].start = plan[p].start
      /\ plan'[p].front = plan[p].front
      /\ \A r \in Producers \ {p} : plan'[r] = plan[r]
      /\ Built(p)' = Len(new)
  BY <1>1, PlanGoes
<1>3. Built(p) = Len(new) /\ Built(p) \in Nat /\ TailNo(p) \in Int
  BY <1>1, Lengths, Basics DEF Built
<1>4. Structure /\ Pools /\ Room(p) /\ Building(p)
  BY DEF BlockInv
<1>5. /\ plan[p].n \in Nat \ {0} /\ plan[p].need \in Int /\ new \in Seq(Blocks)
      /\ plan[p].start \in Seq(Blocks) /\ q[p].ring \in Seq(Blocks)
      /\ entry[p] \in [0 .. IndexSize(p) - 1 -> [key : Int, block : Blocks \cup {NoBlock}]]
      /\ DOMAIN entry = Producers
      /\ blk \in [Blocks -> [cell : [0 .. BLOCK_SIZE - 1 -> Cells], done : 0 .. BLOCK_SIZE]]
      /\ fresh \subseteq Blocks /\ free \subseteq Blocks /\ away \subseteq Blocks
  BY <1>1, <1>4 DEF Structure
<1> HIDE DEF new
<1>6. CASE ~(q[p].isExplicit /\ new # <<>>)
  <2>1. UNCHANGED <<q, blk>>
    BY <1>6 DEF ShowBlocks, new
  <2>2. Keeps(p) /\ IndexSize(p)' = IndexSize(p) /\ TailNo(p)' = TailNo(p)
        /\ \A m : Entry(p, m)' = Entry(p, m)
    BY <1>1, <1>2, <2>1, Still
  <2>3. Typed(p)
    BY <1>1, <1>2, <1>5, <2>1 DEF Typed
  <2>4. Pools'
    <3>1. \A r \in Producers : Attached(r)' = Attached(r)
      BY <1>1, <2>1 DEF Attached
    <3> QED BY <1>1, <1>4, <3>1 DEF Pools
  <2>5. Live(p)'
    <3>1. \A m : Place(p, m)' = Place(p, m)
      BY <1>2, <1>3, <2>1, <2>2 DEF Place
    <3>2. \A m : Used(p, m) /\ q[p].isExplicit => Place(p, m) >= 1
      BY UsedPlace, Lengths
    <3> QED BY <2>1, <2>2, <3>1, <3>2, LiveSame
  <2>6. Room(p)'
    <3>1. \A s : Good(p, s) => Good(p, s)'
      BY <2>2 DEF Keeps
    <3> QED BY <1>1, <1>2, <1>3, <1>4, <2>1, <2>2, <3>1 DEF Room
  <2>7. Building(p)'
    <3>1. ASSUME NEW k \in 1 .. Built(p) PROVE NewOK(p, k)'
      <4>1. NewOK(p, k) /\ ~q[p].isExplicit
        BY <1>1, <1>3, <1>6, NewFacts
      <4> QED BY <1>2, <1>3, <2>1, <2>2, <4>1 DEF NewOK, new
    <3>2. q'[p] = q[p]
      BY <2>1
    <3> QED BY <1>1, <1>2, <1>3, <1>4, <2>2, <3>1, <3>2 DEF Building
  <2> QED BY <2>2, <2>3, <2>4, <2>5, <2>6, <2>7, EnqueueStep
<1>7. CASE q[p].isExplicit /\ new # <<>>
  <2>1. /\ blk' = [b \in Blocks |-> IF b \in ToSet(new) THEN [blk[b] EXCEPT !.done = 0] ELSE blk[b]]
        /\ q' = [q EXCEPT ![p].last = Slot(p, q[p].front - 1)]
    BY <1>7 DEF ShowBlocks, new
  <2>2. /\ \A r \in Producers \ {p} : q'[r] = q[r]
        /\ q'[p].last = Slot(p, q[p].front - 1)
        /\ q'[p].isExplicit = q[p].isExplicit /\ q'[p].tail = q[p].tail
        /\ q'[p].head = q[p].head /\ q'[p].front = q[p].front /\ q'[p].ring = q[p].ring
        /\ IndexSize(p)' = IndexSize(p) /\ TailNo(p)' = TailNo(p)
    BY <2>1, LastOnly
  <2>3. /\ \A m : Entry(p, m)' = Entry(p, m)
        /\ \A s : Good(p, s)' <=> Good(p, s)
        /\ \A m : Place(p, m)' = Place(p, m)
    BY <1>1, <1>2, <1>3, <2>2 DEF Entry, Good, Place
  <2>4. /\ blk' \in [Blocks -> [cell : [0 .. BLOCK_SIZE - 1 -> Cells], done : 0 .. BLOCK_SIZE]]
        /\ \A b \in ToSet(new) : b \in Blocks => blk'[b].done = 0
        /\ \A b \in Blocks : b \notin ToSet(new) => blk'[b].done = blk[b].done
    <3>1. 0 \in 0 .. BLOCK_SIZE
      BY BlockNumbers
    <3>2. \A b \in Blocks : /\ [blk[b] EXCEPT !.done = 0]
                                 \in [cell : [0 .. BLOCK_SIZE - 1 -> Cells], done : 0 .. BLOCK_SIZE]
                            /\ [blk[b] EXCEPT !.done = 0].done = 0
      BY <1>5, <3>1
    <3>3. \A b \in Blocks : blk[b] \in [cell : [0 .. BLOCK_SIZE - 1 -> Cells], done : 0 .. BLOCK_SIZE]
      BY <1>5
    <3>4. \A b \in Blocks : blk'[b] \in [cell : [0 .. BLOCK_SIZE - 1 -> Cells], done : 0 .. BLOCK_SIZE]
      BY <2>1, <3>2, <3>3
    <3>5. blk' = [b \in Blocks |-> blk'[b]]
      BY <2>1
    <3>6. blk' \in [Blocks -> [cell : [0 .. BLOCK_SIZE - 1 -> Cells], done : 0 .. BLOCK_SIZE]]
      BY <3>4, <3>5
    <3>7. \A b \in ToSet(new) : b \in Blocks => blk'[b].done = 0
      BY <2>1, <3>2
    <3>8. \A b \in Blocks : b \notin ToSet(new) => blk'[b].done = blk[b].done
      BY <2>1
    <3> QED BY <3>6, <3>7, <3>8
  <2>5. ASSUME NEW k \in 1 .. Built(p) PROVE new[k] \in ToSet(new) /\ new[k] \in Blocks
    <3>1. k \in DOMAIN new /\ new \in Seq(Blocks)
      BY <1>3, <1>5
    <3> QED BY <3>1 DEF ToSet
  <2>6. ASSUME NEW b \in ToSet(new) PROVE \E k \in 1 .. Built(p) : b = new[k]
    BY <1>3, <1>5 DEF ToSet
  <2>7. ASSUME NEW b \in ToSet(new)
        PROVE  /\ \A r \in Producers \ {p} : b \notin Attached(r)
               /\ \A m : Used(p, m) => b # Entry(p, m).block
    <3>1. PICK k \in 1 .. Built(p) : b = new[k]
      BY <2>6
    <3>2. b \in Attached(p)
      BY <1>1, <3>1, NewFacts DEF new
    <3>3. \A m : Used(p, m) => b # Entry(p, m).block
      BY <1>1, <3>1, NewApart DEF new
    <3> QED BY <1>4, <3>2, <3>3 DEF Pools
  <2>8. Keeps(p)
    <3>1. ASSUME NEW r \in Producers \ {p}, NEW b \in Attached(r) PROVE blk'[b].done = blk[b].done
      BY <2>4, <2>7, AttachedBlocks
    <3>2. ASSUME NEW m, Used(p, m)
          PROVE  blk'[Entry(p, m).block].done = blk[Entry(p, m).block].done
      BY <2>4, <2>7, <3>2, UsedEntry
    <3>3. \A r \in Producers : q'[r].isExplicit = q[r].isExplicit /\ q'[r].head = q[r].head
      BY <2>2
    <3>4. \A r \in Producers \ {p} : q'[r] = q[r] /\ entry'[r] = entry[r] /\ plan'[r] = plan[r]
      BY <1>1, <1>2, <2>2
    <3> QED BY <1>1, <2>3, <3>1, <3>2, <3>3, <3>4 DEF Keeps
  <2>9. Typed(p)
    BY <1>1, <1>2, <1>5, <2>2, <2>4 DEF Typed
  <2>10. Pools'
    <3>1. \A r \in Producers : Attached(r)' = Attached(r)
      BY <1>1, <2>2 DEF Attached
    <3> QED BY <1>1, <1>4, <3>1 DEF Pools
  <2>11. Live(p)'
    <3>1. \A m : Used(p, m) => Place(p, m) >= 1
      BY <1>7, UsedPlace, Lengths
    <3> QED BY <1>7, <2>2, <2>3, <2>8, <3>1, LiveSame
  <2>12. q'[p].last = (TailNo(p) + Built(p)) % IndexSize(p) /\ Good(p, q'[p].last)
    <3>1. Built(p) \in 1 .. Built(p)
      BY <1>3, <1>5, <1>7
    <3>2. Entry(p, TailNo(p) + Built(p)).key = TailNo(p) + Built(p)
      BY <1>1, <3>1, NewFacts DEF NewOK
    <3>3. PICK x \in Int : x = TailNo(p) + Built(p)
      BY <1>3
    <3>4. q[p].front = (x + 1) % IndexSize(p)
      BY <1>4, <1>7, <3>3 DEF Room
    <3>5. Slot(p, ((x + 1) % IndexSize(p)) + (-1)) = ((x + 1) + (-1)) % IndexSize(p)
      <4>1. PICK y \in Int, k \in Int : y = x + 1 /\ k = -1
        OBVIOUS
      <4>2. Slot(p, (y % IndexSize(p)) + k) = (y + k) % IndexSize(p)
        BY NextSlot
      <4> QED BY <4>1, <4>2
    <3>6. PICK f \in Int : f = q[p].front
      BY <3>4, SlotIn
    <3>7. f + (-1) = f - 1 /\ (x + 1) + (-1) = x
      OBVIOUS
    <3>8. q'[p].last = x % IndexSize(p)
      BY <2>2, <3>4, <3>5, <3>6, <3>7
    <3>9. Good(p, x % IndexSize(p))
      BY <3>2, <3>3, GoodSlot
    <3> QED BY <3>3, <3>8, <3>9
  <2>13. Room(p)'
    <3>1. Good(p, TailNo(p) % IndexSize(p))'
      BY <1>4, <2>2, <2>3 DEF Room
    <3>2. Good(p, q[p].last)'
      BY <2>3, <2>12
    <3>3. Built(p)' = Built(p)
      BY <1>2, <1>3
    <3> QED BY <1>4, <1>7, <2>2, <3>1, <3>2, <3>3 DEF Room
  <2>14. Building(p)'
    <3>1. ASSUME NEW k \in 1 .. Built(p) PROVE NewOK(p, k)'
      <4>1. NewOK(p, k)
        BY <1>1, NewFacts
      <4>2. blk'[new[k]].done = 0
        BY <2>4, <2>5
      <4> QED BY <1>2, <1>3, <2>2, <2>3, <4>1, <4>2 DEF NewOK, new
    <3> QED BY <1>1, <1>2, <1>3, <1>4, <2>2, <2>3, <3>1 DEF Building
  <2> QED BY <2>8, <2>9, <2>10, <2>11, <2>13, <2>14, EnqueueStep
<1> QED BY <1>6, <1>7

-------------------------------------------------------------------------------
(* An entry is written.                                                      *)
LEMMA OneEntry ==
  ASSUME BlockInv, NEW p \in Producers, NEW s \in 0 .. IndexSize(p) - 1,
         NEW e \in [key : Int, block : Blocks \cup {NoBlock}],
         entry' = [entry EXCEPT ![p][s] = e]
  PROVE  /\ DOMAIN entry' = Producers
         /\ \A r \in Producers \ {p} : entry'[r] = entry[r]
         /\ entry'[p] \in [0 .. IndexSize(p) - 1 -> [key : Int, block : Blocks \cup {NoBlock}]]
         /\ entry'[p][s] = e
         /\ \A u \in 0 .. IndexSize(p) - 1 : u # s => entry'[p][u] = entry[p][u]
<1>1. DOMAIN entry = Producers
      /\ entry[p] \in [0 .. IndexSize(p) - 1 -> [key : Int, block : Blocks \cup {NoBlock}]]
  BY DEF BlockInv, Structure
<1>2. entry'[p] = [entry[p] EXCEPT ![s] = e] /\ DOMAIN entry' = Producers
      /\ \A r \in Producers \ {p} : entry'[r] = entry[r]
  BY <1>1
<1>3. entry'[p][s] = e /\ \A u \in DOMAIN entry[p] : u # s => entry'[p][u] = entry[p][u]
  BY <1>1, <1>2
<1>4. entry'[p] \in [0 .. IndexSize(p) - 1 -> [key : Int, block : Blocks \cup {NoBlock}]]
  BY <1>1, <1>2
<1> QED BY <1>1, <1>2, <1>3, <1>4

(* The next entry is unused and gets the next number.                        *)
LEMMA InsertKeyBlocks ==
  ASSUME IInv, IInv', BlockInv, NEW p \in Producers, ~q[p].isExplicit, InsertKey(p)
  PROVE  BlockInv'
<1> DEFINE new == plan[p].new
<1>1. /\ plan[p].pc = "grow" /\ plan[p].pc # "idle"
      /\ Plan(p, "block", new) /\ UNCHANGED <<blk, fresh, free, away, take>>
  BY DEF InsertKey, InsertKey_Overwrites, Growing, At, pool
<1>2. /\ plan'[p].pc = "block" /\ plan'[p].new = new /\ plan'[p].n = plan[p].n
      /\ plan'[p].need = plan[p].need /\ plan'[p].start = plan[p].start
      /\ \A r \in Producers \ {p} : plan'[r] = plan[r]
      /\ Built(p)' = Len(new)
  BY <1>1, PlanGoes
<1>3. Built(p) = Len(new) /\ Built(p) \in Nat /\ TailNo(p) \in Int
  BY <1>1, Lengths, Basics DEF Built
<1>4. Structure /\ Pools /\ Room(p) /\ Building(p)
  BY DEF BlockInv
<1>5. /\ plan[p].n \in Nat \ {0} /\ plan[p].need \in Int /\ new \in Seq(Blocks)
      /\ plan[p].start \in Seq(Blocks) /\ q[p].ring \in Seq(Blocks)
      /\ entry[p] \in [0 .. IndexSize(p) - 1 -> [key : Int, block : Blocks \cup {NoBlock}]]
      /\ DOMAIN entry = Producers
      /\ blk \in [Blocks -> [cell : [0 .. BLOCK_SIZE - 1 -> Cells], done : 0 .. BLOCK_SIZE]]
      /\ fresh \subseteq Blocks /\ free \subseteq Blocks /\ away \subseteq Blocks
  BY <1>1, <1>4 DEF Structure
<1> HIDE DEF new
<1>6. PICK x \in Int : x = TailNo(p) + Built(p) + 1
  BY <1>3
<1>7. PICK s \in 0 .. IndexSize(p) - 1 : s = x % IndexSize(p)
  BY SlotIn
<1>8. Slot(p, q[p].last + 1) = s
  <2>1. PICK y \in Int, k \in Int : y = TailNo(p) + Built(p) /\ k = 1
    BY <1>3
  <2>2. q[p].last = y % IndexSize(p)
    BY <1>1, <1>4, <2>1 DEF Room
  <2>3. Slot(p, (y % IndexSize(p)) + k) = (y + k) % IndexSize(p)
    BY NextSlot
  <2>4. y + k = x
    BY <1>6, <2>1
  <2> QED BY <1>7, <2>1, <2>2, <2>3, <2>4
<1>9. entry[p][s].block = NoBlock
  BY <1>8 DEF InsertKey
<1>10. NewKey(p) = x
  BY <1>3, <1>6 DEF NewKey, TailNo, new
<1>11. entry' = [entry EXCEPT ![p][s] = [key |-> x, block |-> NoBlock]]
  <2>1. entry' = [entry EXCEPT ![p][s].key = x]
    BY <1>8, <1>10 DEF InsertKey, InsertKey_Overwrites
  <2>2. entry[p][s] \in [key : Int, block : Blocks \cup {NoBlock}]
    BY <1>5
  <2>3. [entry[p][s] EXCEPT !.key = x] = [key |-> x, block |-> NoBlock]
    BY <1>9, <2>2
  <2> QED BY <2>1, <2>3
<1>12. /\ DOMAIN entry' = Producers
       /\ \A r \in Producers \ {p} : entry'[r] = entry[r]
       /\ entry'[p] \in [0 .. IndexSize(p) - 1 -> [key : Int, block : Blocks \cup {NoBlock}]]
       /\ entry'[p][s] = [key |-> x, block |-> NoBlock]
       /\ \A u \in 0 .. IndexSize(p) - 1 : u # s => entry'[p][u] = entry[p][u]
  <2> DEFINE e == [key |-> x, block |-> NoBlock]
  <2>1. e \in [key : Int, block : Blocks \cup {NoBlock}]
    OBVIOUS
  <2> HIDE DEF e
  <2> QED BY <1>11, <2>1, OneEntry DEF e
<1>13. /\ \A r \in Producers \ {p} : q'[r] = q[r]
       /\ q'[p].last = s
       /\ q'[p].isExplicit = q[p].isExplicit /\ q'[p].tail = q[p].tail
       /\ q'[p].head = q[p].head /\ q'[p].front = q[p].front /\ q'[p].ring = q[p].ring
       /\ IndexSize(p)' = IndexSize(p) /\ TailNo(p)' = TailNo(p)
  BY <1>8, LastOnly DEF InsertKey, InsertKey_Overwrites
<1>14. /\ \A u \in 0 .. IndexSize(p) - 1 : entry'[p][u].block = entry[p][u].block
       /\ \A u \in 0 .. IndexSize(p) - 1 : entry[p][u].block # NoBlock => entry'[p][u] = entry[p][u]
  BY <1>9, <1>12
<1>15. \A u : Good(p, u) => Good(p, u)'
  BY <1>7, <1>12, <1>13 DEF Good
<1>16. ASSUME NEW m \in Int, Entry(p, m).block \in Blocks
       PROVE  Entry(p, m)' = Entry(p, m)
  BY <1>13, <1>14, <1>16, SlotIn, QueueAssumption DEF Entry
<1>17. Keeps(p)
  <2>1. \A m : Used(p, m) => Entry(p, m)' = Entry(p, m)
    BY <1>16, UsedEntry
  <2>2. \A r \in Producers : q'[r].isExplicit = q[r].isExplicit /\ q'[r].head = q[r].head
    BY <1>13
  <2> QED BY <1>1, <1>2, <1>12, <1>13, <1>15, <2>1, <2>2 DEF Keeps
<1>18. Typed(p)
  BY <1>1, <1>2, <1>5, <1>12, <1>13 DEF Typed
<1>19. Pools'
  <2>1. \A r \in Producers \ {p} : Attached(r)' = Attached(r)
    BY <1>12, <1>13 DEF Attached
  <2>2. Attached(p)' = Attached(p)
    BY <1>5, <1>12, <1>13, <1>14 DEF Attached
  <2>3. \A r \in Producers : Attached(r)' = Attached(r)
    BY <2>1, <2>2
  <2> QED BY <1>1, <1>4, <2>3 DEF Pools
<1>20. Live(p)'
  BY <1>13, <1>17, LiveSame
<1>21. Room(p)'
  <2>1. Good(p, q[p].last)' /\ Good(p, TailNo(p) % IndexSize(p))'
    <3>1. Good(p, q[p].last)'
      BY <1>7, <1>12, <1>13 DEF Good
    <3>2. PICK t : t = TailNo(p) % IndexSize(p)
      OBVIOUS
    <3>3. Good(p, t)'
      BY <1>4, <1>15, <3>2 DEF Room
    <3> QED BY <1>13, <3>1, <3>2, <3>3
  <2>2. q'[p].last = (TailNo(p) + Built(p) + 1) % IndexSize(p)
    BY <1>6, <1>7, <1>13
  <2>3. entry'[p][q'[p].last].key = TailNo(p) + Built(p) + 1 /\ entry'[p][q'[p].last].block = NoBlock
    BY <1>6, <1>12, <1>13
  <2>4. \A t, u \in 0 .. IndexSize(p) - 1 :
          entry'[p][t].block = entry'[p][u].block /\ entry'[p][t].block # NoBlock => t = u
    BY <1>4, <1>14 DEF Room
  <2>5. Built(p)' = Built(p)
    BY <1>2, <1>3
  <2>6. /\ plan'[p].pc = "block" /\ q'[p].isExplicit = FALSE
        /\ IndexSize(p)' = IndexSize(p) /\ TailNo(p)' = TailNo(p)
    BY <1>2, <1>13
  <2> QED BY <2>1, <2>2, <2>3, <2>4, <2>5, <2>6 DEF Room
<1>22. Building(p)'
  <2>1. ASSUME NEW k \in 1 .. Built(p) PROVE NewOK(p, k)'
    <3>1. NewOK(p, k) /\ new[k] \in Blocks /\ TailNo(p) + k \in Int
      BY <1>1, NewFacts DEF new
    <3>2. Entry(p, TailNo(p) + k).block \in Blocks
      BY <3>1 DEF NewOK, new
    <3>3. Entry(p, TailNo(p) + k)' = Entry(p, TailNo(p) + k)
      BY <1>13, <1>16, <3>1, <3>2 DEF Entry
    <3> QED BY <1>1, <1>2, <1>3, <1>13, <3>1, <3>3 DEF NewOK, new
  <2> QED BY <1>1, <1>2, <1>3, <1>4, <1>13, <2>1 DEF Building
<1> QED BY <1>17, <1>18, <1>19, <1>20, <1>21, <1>22, EnqueueStep

-------------------------------------------------------------------------------
(* A block of the pool is nobody's.                                          *)
LEMMA FromPool ==
  ASSUME BlockInv, NEW b \in Available
  PROVE  /\ b \in Blocks /\ b \notin away /\ \A r \in Producers : b \notin Attached(r)
         /\ Requisition(b) => /\ b \notin fresh' /\ b \notin free' /\ away' = away
                              /\ fresh' \subseteq fresh /\ free' \subseteq free
<1>1. b \in fresh \cup free /\ Structure /\ Pools
  BY DEF Available, BlockInv
<1>2. b \in Blocks /\ b \notin away /\ \A r \in Producers : b \notin Attached(r)
  BY <1>1 DEF Structure, Pools
<1> QED BY <1>2 DEF Requisition

(* One count is set.                                                         *)
LEMMA OneCount ==
  ASSUME BlockInv, NEW b \in Blocks, NEW n \in 0 .. BLOCK_SIZE, blk' = [blk EXCEPT ![b].done = n]
  PROVE  /\ blk' \in [Blocks -> [cell : [0 .. BLOCK_SIZE - 1 -> Cells], done : 0 .. BLOCK_SIZE]]
         /\ blk'[b].done = n /\ \A d \in Blocks \ {b} : blk'[d].done = blk[d].done
<1>1. blk \in [Blocks -> [cell : [0 .. BLOCK_SIZE - 1 -> Cells], done : 0 .. BLOCK_SIZE]]
  BY DEF BlockInv, Structure
<1>2. [blk[b] EXCEPT !.done = n] \in [cell : [0 .. BLOCK_SIZE - 1 -> Cells], done : 0 .. BLOCK_SIZE]
      /\ [blk[b] EXCEPT !.done = n].done = n
  BY <1>1
<1>3. blk' = [blk EXCEPT ![b] = [blk[b] EXCEPT !.done = n]]
  OBVIOUS
<1> QED BY <1>1, <1>2, <1>3

(* The new block goes into the entry.                                        *)
LEMMA InstallBlockBlocks ==
  ASSUME IInv, IInv', BlockInv, NEW p \in Producers, ~q[p].isExplicit, InstallBlock(p)
  PROVE  BlockInv'
<1> DEFINE new == plan[p].new
<1>1. /\ plan[p].pc = "block" /\ plan[p].pc # "idle" /\ UNCHANGED <<q, take>>
  BY DEF InstallBlock, At
<1>2. PICK b \in Available :
        /\ Requisition(b)
        /\ blk' = [blk EXCEPT ![b].done = 0]
        /\ entry' = [entry EXCEPT ![p][q[p].last].block = b]
        /\ Plan(p, "grow", Append(new, b))
  BY ZenonT(60) DEF InstallBlock
<1>3. /\ plan'[p].pc = "grow" /\ plan'[p].new = Append(new, b) /\ plan'[p].n = plan[p].n
      /\ plan'[p].need = plan[p].need /\ plan'[p].start = plan[p].start
      /\ \A r \in Producers \ {p} : plan'[r] = plan[r]
      /\ Built(p)' = Len(Append(new, b))
  <2> DEFINE grown == Append(new, b)
  <2>1. Plan(p, "grow", grown)
    BY <1>2
  <2> HIDE DEF grown, new
  <2>2. /\ plan'[p].pc = "grow" /\ plan'[p].new = grown /\ plan'[p].n = plan[p].n
        /\ plan'[p].need = plan[p].need /\ plan'[p].start = plan[p].start
        /\ \A r \in Producers \ {p} : plan'[r] = plan[r]
        /\ Built(p)' = Len(grown)
    BY <1>1, <2>1, PlanGoes
  <2> QED BY <2>2 DEF grown
<1>4. Structure /\ Pools /\ Room(p) /\ Building(p)
  BY DEF BlockInv
<1>5. /\ plan[p].n \in Nat \ {0} /\ plan[p].need \in Int /\ new \in Seq(Blocks)
      /\ plan[p].start \in Seq(Blocks) /\ q[p].ring \in Seq(Blocks)
      /\ entry[p] \in [0 .. IndexSize(p) - 1 -> [key : Int, block : Blocks \cup {NoBlock}]]
      /\ fresh \subseteq Blocks /\ free \subseteq Blocks /\ away \subseteq Blocks
  BY <1>1, <1>4 DEF Structure
<1>6. Built(p) = Len(new) /\ Built(p) \in Nat /\ TailNo(p) \in Int
  BY <1>1, Lengths, Basics DEF Built
<1>7. /\ b \in Blocks /\ b \notin away /\ \A r \in Producers : b \notin Attached(r)
      /\ b \notin fresh' /\ b \notin free' /\ away' = away
      /\ fresh' \subseteq fresh /\ free' \subseteq free
  BY <1>2, FromPool
<1>8. /\ Append(new, b) \in Seq(Blocks) /\ Built(p)' = Built(p) + 1
      /\ \A k \in 1 .. Built(p) : Append(new, b)[k] = new[k]
      /\ Append(new, b)[Built(p) + 1] = b
  BY <1>3, <1>5, <1>6, <1>7
<1> HIDE DEF new
<1>9. PICK x \in Int : x = TailNo(p) + Built(p) + 1
  BY <1>6
<1>10. PICK s \in 0 .. IndexSize(p) - 1 : s = x % IndexSize(p)
  BY SlotIn
<1>11. q[p].last = s /\ entry[p][s].key = x /\ entry[p][s].block = NoBlock
  BY <1>1, <1>4, <1>9, <1>10 DEF Room
<1>12. entry' = [entry EXCEPT ![p][s] = [key |-> x, block |-> b]]
  <2>1. entry' = [entry EXCEPT ![p][s].block = b]
    BY <1>2, <1>11
  <2>2. entry[p][s] \in [key : Int, block : Blocks \cup {NoBlock}]
    BY <1>5
  <2>3. [entry[p][s] EXCEPT !.block = b] = [key |-> x, block |-> b]
    BY <1>11, <2>2
  <2> QED BY <2>1, <2>3
<1>13. /\ DOMAIN entry' = Producers
       /\ \A r \in Producers \ {p} : entry'[r] = entry[r]
       /\ entry'[p] \in [0 .. IndexSize(p) - 1 -> [key : Int, block : Blocks \cup {NoBlock}]]
       /\ entry'[p][s] = [key |-> x, block |-> b]
       /\ \A u \in 0 .. IndexSize(p) - 1 : u # s => entry'[p][u] = entry[p][u]
  <2> DEFINE e == [key |-> x, block |-> b]
  <2>1. e \in [key : Int, block : Blocks \cup {NoBlock}]
    BY <1>7
  <2> HIDE DEF e
  <2> QED BY <1>12, <2>1, OneEntry DEF e
<1>14. IndexSize(p)' = IndexSize(p) /\ TailNo(p)' = TailNo(p)
  BY <1>1 DEF IndexSize, TailNo
<1>15. /\ blk' \in [Blocks -> [cell : [0 .. BLOCK_SIZE - 1 -> Cells], done : 0 .. BLOCK_SIZE]]
       /\ blk'[b].done = 0 /\ \A d \in Blocks \ {b} : blk'[d].done = blk[d].done
  <2>1. 0 \in 0 .. BLOCK_SIZE
    BY BlockNumbers
  <2> QED BY <1>2, <1>7, <2>1, OneCount
<1>16. \A u : Good(p, u) => Good(p, u)'
  BY <1>11, <1>13, <1>14 DEF Good
<1>17. ASSUME NEW m \in Int, Entry(p, m).block \in Blocks
       PROVE  Entry(p, m)' = Entry(p, m)
  <2>1. m % IndexSize(p) \in 0 .. IndexSize(p) - 1
    BY SlotIn
  <2>2. m % IndexSize(p) # s
    BY <1>11, <1>17, QueueAssumption DEF Entry
  <2> QED BY <1>13, <1>14, <2>1, <2>2 DEF Entry
<1>18. Keeps(p)
  <2>1. ASSUME NEW m, Used(p, m)
        PROVE  /\ Entry(p, m)' = Entry(p, m)
               /\ blk'[Entry(p, m).block].done = blk[Entry(p, m).block].done
    BY <1>7, <1>15, <1>17, <2>1, UsedEntry
  <2>2. ASSUME NEW r \in Producers \ {p}, NEW d \in Attached(r) PROVE blk'[d].done = blk[d].done
    BY <1>7, <1>15, AttachedBlocks
  <2> QED BY <1>1, <1>3, <1>13, <1>16, <2>1, <2>2 DEF Keeps
<1>19. Typed(p)
  <2>1. fresh' \subseteq Blocks /\ free' \subseteq Blocks /\ away' \subseteq Blocks
    BY <1>5, <1>7
  <2>2. q'[p].ring \in Seq(Blocks) /\ plan'[p].new \in Seq(Blocks)
    BY <1>1, <1>3, <1>5, <1>8
  <2> QED BY <1>3, <1>5, <1>13, <1>15, <2>1, <2>2 DEF Typed
<1>20. Pools'
  <2>1. ASSUME NEW r \in Producers \ {p} PROVE Attached(r)' = Attached(r)
    <3>1. q'[r] = q[r] /\ entry'[r] = entry[r]
      BY <1>1, <1>13
    <3> QED BY <3>1 DEF Attached
  <2>2. Attached(p)' \subseteq Attached(p) \cup {b}
    <3>1. DOMAIN entry[p] = 0 .. IndexSize(p) - 1 /\ DOMAIN entry'[p] = 0 .. IndexSize(p) - 1
      BY <1>5, <1>13
    <3>2. \A u \in 0 .. IndexSize(p) - 1 : entry'[p][u].block \in {entry[p][u].block, b}
      BY <1>13
    <3>3. ~q'[p].isExplicit
      BY <1>1
    <3> QED BY <3>1, <3>2, <3>3 DEF Attached
  <2>3. \A r \in Producers : Attached(r)' \cap (fresh' \cup free' \cup away') = {}
    BY <1>4, <1>7, <2>1, <2>2 DEF Pools
  <2>4. \A r, d \in Producers : r # d => Attached(r)' \cap Attached(d)' = {}
    BY <1>4, <1>7, <2>1, <2>2 DEF Pools
  <2> QED BY <1>4, <1>7, <2>3, <2>4 DEF Pools
<1>21. Live(p)'
  BY <1>1, <1>14, <1>18, LiveSame
<1>22. Room(p)'
  <2>1. Good(p, q[p].last)' /\ Good(p, TailNo(p) % IndexSize(p))'
    BY <1>1, <1>4, <1>14, <1>16 DEF Room
  <2>2. q'[p].last = (TailNo(p)' + Built(p)') % IndexSize(p)'
    <3>1. TailNo(p)' + Built(p)' = x
      BY <1>6, <1>8, <1>9, <1>14
    <3> QED BY <1>1, <1>10, <1>11, <1>14, <3>1
  <2>3. ASSUME NEW t \in 0 .. IndexSize(p) - 1, NEW u \in 0 .. IndexSize(p) - 1,
               entry'[p][t].block = entry'[p][u].block, entry'[p][t].block # NoBlock
        PROVE  t = u
    <3>1. ASSUME NEW v \in 0 .. IndexSize(p) - 1, v # s PROVE entry'[p][v].block # b
      BY <1>7, <1>13, <3>1, EntryAttached, QueueAssumption
    <3>2. entry'[p][s].block = b
      BY <1>13
    <3>3. CASE t = s \/ u = s
      BY <2>3, <3>1, <3>2, <3>3
    <3>4. CASE t # s /\ u # s
      BY <1>4, <1>13, <2>3, <3>4 DEF Room
    <3> QED BY <3>3, <3>4
  <2>4. plan'[p].pc = "grow" /\ ~q'[p].isExplicit
    BY <1>1, <1>3
  <2> QED BY <1>14, <2>1, <2>2, <2>3, <2>4 DEF Room
<1>23. Building(p)'
  <2>1. ASSUME NEW k \in 1 .. Built(p) + 1 PROVE NewOK(p, k)'
    <3>1. CASE k = Built(p) + 1
      <4>1. TailNo(p) + k = x
        BY <1>6, <1>9, <3>1
      <4>2. Entry(p, TailNo(p) + k)' = [key |-> x, block |-> b]
        BY <1>10, <1>13, <1>14, <4>1 DEF Entry
      <4>3. plan'[p].new[k] = b
        BY <1>3, <1>8, <3>1
      <4> QED BY <1>1, <1>14, <1>15, <4>1, <4>2, <4>3 DEF NewOK
    <3>2. CASE k # Built(p) + 1
      <4>1. k \in 1 .. Built(p)
        BY <1>6, <3>2
      <4>2. NewOK(p, k) /\ new[k] \in Blocks /\ TailNo(p) + k \in Int /\ new[k] \in Attached(p)
        BY <1>1, <4>1, NewFacts DEF new
      <4>3. PICK y \in Int : y = TailNo(p) + k
        BY <4>2
      <4>4. Entry(p, y).key = y /\ Entry(p, y).block = new[k] /\ blk[new[k]].done = 0
        BY <4>2, <4>3 DEF NewOK, new
      <4>5. Entry(p, y)' = Entry(p, y)
        BY <1>17, <4>2, <4>4
      <4>6. blk'[new[k]].done = 0 /\ plan'[p].new[k] = new[k]
        BY <1>3, <1>7, <1>8, <1>15, <4>1, <4>2, <4>4
      <4>7. Entry(p, TailNo(p) + k)' = Entry(p, y) /\ TailNo(p)' + k = y
        BY <1>14, <4>3, <4>5 DEF Entry
      <4> QED BY <1>1, <4>4, <4>6, <4>7 DEF NewOK
    <3> QED BY <3>1, <3>2
  <2>2. plan'[p].need = BlockNo(q'[p].tail + plan'[p].n - 1) - TailNo(p)'
    BY <1>1, <1>3, <1>4, <1>14 DEF Building
  <2>3. plan'[p].start = q'[p].ring
    BY <1>1, <1>3, <1>4 DEF Building
  <2>4. plan'[p].pc = "grow" /\ ~q'[p].isExplicit
    BY <1>1, <1>3
  <2> QED BY <1>8, <2>1, <2>2, <2>3, <2>4 DEF Building
<1> QED BY <1>18, <1>19, <1>20, <1>21, <1>22, <1>23, EnqueueStep

-------------------------------------------------------------------------------
(* A failed enqueue takes its entries and its blocks back.                   *)
LEMMA ImplicitUndoBlocks ==
  ASSUME IInv, IInv', BlockInv, NEW p \in Producers, ~q[p].isExplicit, ImplicitUndo(p)
  PROVE  BlockInv'
<1> DEFINE new == plan[p].new
           gone == ToSet(new)
<1>1. /\ plan[p].pc \in {"grow", "block"} /\ plan[p].pc # "idle"
      /\ Return(p) /\ UNCHANGED <<blk, fresh, away, take>> /\ free' = free \cup gone
  BY DEF ImplicitUndo, Growing, At, AddToFreeList
<1>2. /\ plan'[p].pc = "idle" /\ Built(p)' = 0
      /\ \A r \in Producers \ {p} : plan'[r] = plan[r]
  BY <1>1, ReturnGoes
<1>3. Built(p) = Len(new) /\ Built(p) \in Nat /\ TailNo(p) \in Int
  BY <1>1, Lengths, Basics DEF Built
<1>4. Structure /\ Pools /\ Room(p) /\ Building(p)
  BY DEF BlockInv
<1>5. /\ new \in Seq(Blocks) /\ q[p].ring \in Seq(Blocks)
      /\ entry[p] \in [0 .. IndexSize(p) - 1 -> [key : Int, block : Blocks \cup {NoBlock}]]
      /\ DOMAIN entry = Producers
      /\ blk \in [Blocks -> [cell : [0 .. BLOCK_SIZE - 1 -> Cells], done : 0 .. BLOCK_SIZE]]
      /\ fresh \subseteq Blocks /\ free \subseteq Blocks /\ away \subseteq Blocks
  BY <1>1, <1>4 DEF Structure
<1>6. entry' = [entry EXCEPT ![p] = [s \in DOMAIN @ |->
                  IF @[s].block \in gone THEN [@[s] EXCEPT !.block = NoBlock] ELSE @[s]]]
  BY DEF ImplicitUndo
<1>7. q' = [q EXCEPT ![p].last =
               Slot(p, @ - (Len(new) + (IF plan[p].pc = "block" THEN 1 ELSE 0)))]
  BY DEF ImplicitUndo, At
<1>8. ASSUME NEW b \in gone PROVE \E k \in 1 .. Built(p) : b = new[k]
  BY <1>3, <1>5 DEF ToSet
<1> HIDE DEF new, gone
<1>9. ASSUME NEW b \in gone
      PROVE  b \in Blocks /\ b \in Attached(p) /\ \A m : Used(p, m) => b # Entry(p, m).block
  BY <1>1, <1>8, NewFacts, NewApart DEF new
<1>10. PICK t \in 0 .. IndexSize(p) - 1 : t = TailNo(p) % IndexSize(p)
  BY <1>3, SlotIn
<1>11. q' = [q EXCEPT ![p].last = t]
  <2>1. PICK k \in Int : k = Len(new) + (IF plan[p].pc = "block" THEN 1 ELSE 0)
    BY <1>3
  <2>2. PICK y \in Int, j \in Int : y = TailNo(p) + k /\ j = -k
    BY <1>3, <2>1
  <2>3. q[p].last = y % IndexSize(p)
    <3>1. CASE plan[p].pc = "block"
      BY <1>3, <1>4, <2>1, <2>2, <3>1 DEF Room
    <3>2. CASE plan[p].pc # "block"
      BY <1>3, <1>4, <2>1, <2>2, <3>2 DEF Room
    <3> QED BY <3>1, <3>2
  <2>4. Slot(p, (y % IndexSize(p)) + j) = (y + j) % IndexSize(p)
    BY NextSlot
  <2>5. y + j = TailNo(p)
    BY <1>3, <2>2
  <2>6. PICK l \in Int : l = q[p].last
    BY <2>3, SlotIn
  <2>7. l + j = l - k
    BY <2>2
  <2>8. Slot(p, q[p].last - k) = t
    BY <1>10, <2>3, <2>4, <2>5, <2>6, <2>7
  <2> QED BY <1>7, <2>1, <2>8
<1>12. /\ \A r \in Producers \ {p} : q'[r] = q[r]
       /\ q'[p].last = t
       /\ q'[p].isExplicit = q[p].isExplicit /\ q'[p].tail = q[p].tail
       /\ q'[p].head = q[p].head /\ q'[p].ring = q[p].ring
       /\ IndexSize(p)' = IndexSize(p) /\ TailNo(p)' = TailNo(p)
  BY <1>11, LastOnly
<1>13. /\ DOMAIN entry' = Producers /\ \A r \in Producers \ {p} : entry'[r] = entry[r]
       /\ entry'[p] = [s \in 0 .. IndexSize(p) - 1 |->
            IF entry[p][s].block \in gone THEN [entry[p][s] EXCEPT !.block = NoBlock]
            ELSE entry[p][s]]
  BY <1>5, <1>6
<1>14. ASSUME NEW s \in 0 .. IndexSize(p) - 1
       PROVE  /\ entry'[p][s] \in [key : Int, block : Blocks \cup {NoBlock}]
              /\ entry'[p][s].key = entry[p][s].key
              /\ entry[p][s].block \in gone => entry'[p][s].block = NoBlock
              /\ entry[p][s].block \notin gone => entry'[p][s] = entry[p][s]
  <2>1. entry[p][s] \in [key : Int, block : Blocks \cup {NoBlock}]
    BY <1>5
  <2>2. CASE entry[p][s].block \in gone
    BY <1>13, <2>1, <2>2
  <2>3. CASE entry[p][s].block \notin gone
    BY <1>13, <2>1, <2>3
  <2> QED BY <2>2, <2>3
<1>15. entry'[p] \in [0 .. IndexSize(p) - 1 -> [key : Int, block : Blocks \cup {NoBlock}]]
  BY <1>13, <1>14
<1>16. \A u : Good(p, u) => Good(p, u)'
  BY <1>12, <1>14 DEF Good
<1>17. Keeps(p)
  <2>1. ASSUME NEW m, Used(p, m)
        PROVE  Entry(p, m)' = Entry(p, m)
    BY <1>9, <1>12, <1>14, <2>1, UsedEntry DEF Entry
  <2>2. \A r \in Producers : q'[r].isExplicit = q[r].isExplicit /\ q'[r].head = q[r].head
    BY <1>12
  <2> QED BY <1>1, <1>2, <1>12, <1>13, <1>16, <2>1, <2>2 DEF Keeps
<1>18. Typed(p)
  <2>1. free' \subseteq Blocks
    BY <1>1, <1>5, <1>9
  <2> QED BY <1>1, <1>2, <1>5, <1>12, <1>13, <1>15, <2>1 DEF Typed
<1>19. Pools'
  <2>1. ASSUME NEW r \in Producers \ {p} PROVE Attached(r)' = Attached(r)
    BY <1>12, <1>13 DEF Attached
  <2>2. Attached(p)' \subseteq Attached(p) \ gone
    BY <1>5, <1>12, <1>13, <1>14 DEF Attached
  <2>3. gone \subseteq Attached(p)
    BY <1>9
  <2>4. \A r \in Producers : Attached(r)' \cap (fresh' \cup free' \cup away') = {}
    BY <1>1, <1>4, <2>1, <2>2, <2>3 DEF Pools
  <2>5. \A r, d \in Producers : r # d => Attached(r)' \cap Attached(d)' = {}
    BY <1>4, <2>1, <2>2 DEF Pools
  <2>6. fresh' \cap free' = {} /\ (fresh' \cup free') \cap away' = {}
    BY <1>1, <1>4, <2>3 DEF Pools
  <2> QED BY <2>4, <2>5, <2>6 DEF Pools
<1>20. Live(p)'
  BY <1>12, <1>17, LiveSame
<1>21. Room(p)'
  <2>1. Good(p, t)'
    BY <1>4, <1>10, <1>16 DEF Room
  <2>2. Good(p, q[p].last)' /\ Good(p, TailNo(p) % IndexSize(p))'
    BY <1>10, <1>12, <2>1
  <2>3. TailNo(p) + 0 = TailNo(p)
    BY <1>3
  <2>4. q'[p].last = (TailNo(p)' + Built(p)') % IndexSize(p)'
    BY <1>2, <1>10, <1>12, <2>3
  <2>5. \A s, u \in 0 .. IndexSize(p) - 1 :
          entry'[p][s].block = entry'[p][u].block /\ entry'[p][s].block # NoBlock => s = u
    BY <1>4, <1>14 DEF Room
  <2>6. plan'[p].pc = "idle" /\ ~q'[p].isExplicit
    BY <1>2, <1>12
  <2> QED BY <1>12, <2>2, <2>4, <2>5, <2>6 DEF Room
<1>22. Building(p)'
  BY <1>2 DEF Building
<1> QED BY <1>17, <1>18, <1>19, <1>20, <1>21, <1>22, EnqueueStep

-------------------------------------------------------------------------------
(* Behind the tail block nothing was dequeued.                               *)
LEMMA Whole ==
  ASSUME IInv, BlockInv, NEW p \in Producers, NEW n \in Int, n > TailNo(p)
  PROVE  Cardinality(Rem(p, n)) = BLOCK_SIZE
<1>1. \A i \in Rem(p, n) : i \in Int /\ BlockNo(i) = n
  BY DEF Rem
<1>2. ASSUME NEW i \in Int, BlockNo(i) = n PROVE i \in Rem(p, n)
  <2>1. q[p].tail \in Nat /\ q[p].head \in Nat /\ q[p].head <= q[p].tail /\ TailNo(p) \in Int
    BY Basics
  <2>2. PICK t \in Int : t = q[p].tail - 1
    BY <2>1
  <2>3. i <= t => BlockNo(i) <= BlockNo(t)
    BY BlockNumbers
  <2>4. BlockNo(t) = TailNo(p)
    BY <2>2 DEF TailNo
  <2>5. i >= q[p].head
    BY <1>2, <2>1, <2>2, <2>3, <2>4
  <2> QED BY <1>2, <2>5 DEF Rem
<1> QED BY <1>1, <1>2, Countable

(* Elements are written into cells.                                          *)
LEMMA CellsWritten ==
  ASSUME IInv, BlockInv, NEW p \in Producers, plan[p].pc # "idle", Fill(p)
  PROVE  /\ blk' \in [Blocks -> [cell : [0 .. BLOCK_SIZE - 1 -> Cells], done : 0 .. BLOCK_SIZE]]
         /\ \A b \in Blocks : blk'[b].done = blk[b].done
<1> DEFINE ids == q[p].tail .. (q[p].tail + plan[p].n - 1)
           at(b, o) == {i \in ids : BlockOf(p, i) = b /\ i % BLOCK_SIZE = o}
           new(b, o) == IF at(b, o) = {} THEN blk[b].cell[o]
                        ELSE <<p, CHOOSE i \in at(b, o) : TRUE>>
<1>1. blk \in [Blocks -> [cell : [0 .. BLOCK_SIZE - 1 -> Cells], done : 0 .. BLOCK_SIZE]]
  BY DEF BlockInv, Structure
<1>2. blk' = [b \in Blocks |-> [blk[b] EXCEPT !.cell = [o \in DOMAIN @ |-> new(b, o)]]]
  BY DEF Fill
<1>3. ASSUME NEW b \in Blocks, NEW o \in 0 .. BLOCK_SIZE - 1
      PROVE  new(b, o) \in Cells
  <2>1. CASE at(b, o) = {}
    BY <1>1, <2>1
  <2>2. CASE at(b, o) # {}
    <3>1. at(b, o) \subseteq Nat
      BY Basics DEF BlockInv, Structure
    <3> HIDE DEF at
    <3>2. (CHOOSE i \in at(b, o) : TRUE) \in at(b, o)
      BY <2>2
    <3>3. PICK i \in Nat : i = CHOOSE j \in at(b, o) : TRUE
      BY <3>1, <3>2
    <3>4. new(b, o) = <<p, i>>
      BY <2>2, <3>3
    <3> QED BY <3>4 DEF Cells
  <2> QED BY <2>1, <2>2
<1> HIDE DEF new
<1>4. ASSUME NEW b \in Blocks
      PROVE  /\ blk'[b] \in [cell : [0 .. BLOCK_SIZE - 1 -> Cells], done : 0 .. BLOCK_SIZE]
             /\ blk'[b].done = blk[b].done
  BY <1>1, <1>2, <1>3
<1>5. blk' = [b \in Blocks |-> blk'[b]]
  BY <1>2
<1> QED BY <1>4, <1>5

(* The elements are there when the tail shows them.                          *)
LEMMA FillBlocks ==
  ASSUME IInv, IInv', BlockInv, NEW p \in Producers, Fill(p)
  PROVE  BlockInv'
<1> DEFINE new == plan[p].new
<1>1. /\ plan[p].pc = "fill" /\ plan[p].pc # "idle"
      /\ Return(p) /\ UNCHANGED <<entry, fresh, free, away, take>>
  BY DEF Fill, At, pool
<1>2. /\ plan'[p].pc = "idle" /\ Built(p)' = 0
      /\ \A r \in Producers \ {p} : plan'[r] = plan[r]
  BY <1>1, ReturnGoes
<1>3. Built(p) = Len(new) /\ Built(p) \in Nat /\ TailNo(p) \in Int
  BY <1>1, Lengths, Basics DEF Built
<1>4. Structure /\ Pools /\ Room(p) /\ Building(p)
  BY DEF BlockInv
<1>5. /\ plan[p].n \in Nat \ {0} /\ new \in Seq(Blocks) /\ q[p].ring \in Seq(Blocks)
      /\ q[p].tail \in Nat
  BY <1>1, <1>4, Basics DEF Structure
<1>6. /\ blk' \in [Blocks -> [cell : [0 .. BLOCK_SIZE - 1 -> Cells], done : 0 .. BLOCK_SIZE]]
      /\ \A b \in Blocks : blk'[b].done = blk[b].done
  BY <1>1, CellsWritten
<1> HIDE DEF new
<1>7. /\ \A r \in Producers \ {p} : q'[r] = q[r]
      /\ q'[p].isExplicit = q[p].isExplicit /\ q'[p].tail = q[p].tail + plan[p].n
      /\ q'[p].head = q[p].head /\ q'[p].last = q[p].last /\ q'[p].front = q[p].front
      /\ q'[p].ring = IF q[p].isExplicit \/ new = <<>> THEN q[p].ring ELSE <<Last(new)>>
  BY DEF IInv, TypeOK, Fill, new, QueueOK
<1>8. IndexSize(p)' = IndexSize(p) /\ TailNo(p)' = TailNo(p) + Built(p)
  <2>1. Built(p) = BlockNo(q[p].tail + plan[p].n - 1) - TailNo(p)
    BY <1>1, <1>4 DEF Building
  <2>2. PICK t \in Int : t = q[p].tail + plan[p].n - 1
    BY <1>5
  <2>3. BlockNo(t) \in Int
    BY BlockNumbers
  <2>4. TailNo(p)' = BlockNo(t)
    <3>1. q'[p].tail - 1 = t
      <4>1. PICK a \in Int, m \in Int : a = q[p].tail /\ m = plan[p].n
        BY <1>5
      <4>2. q'[p].tail = a + m /\ t = a + m - 1
        BY <1>7, <2>2, <4>1
      <4> QED BY <4>2
    <3>2. TailNo(p)' = BlockNo(q'[p].tail - 1)
      BY DEF TailNo
    <3> QED BY <3>1, <3>2
  <2>5. IndexSize(p)' = IndexSize(p)
    BY <1>7 DEF IndexSize
  <2> QED BY <1>3, <2>1, <2>2, <2>3, <2>4, <2>5
<1>9. /\ \A m : Entry(p, m)' = Entry(p, m)
      /\ \A u : Good(p, u)' <=> Good(p, u)
  BY <1>1, <1>8 DEF Entry, Good
<1>10. Keeps(p)
  <2>1. ASSUME NEW m, Used(p, m)
        PROVE  blk'[Entry(p, m).block].done = blk[Entry(p, m).block].done
    BY <1>6, <2>1, UsedEntry
  <2>2. ASSUME NEW r \in Producers \ {p}, NEW b \in Attached(r)
        PROVE  blk'[b].done = blk[b].done
    BY <1>6, AttachedBlocks
  <2>3. \A r \in Producers : q'[r].isExplicit = q[r].isExplicit /\ q'[r].head = q[r].head
    BY <1>7
  <2> QED BY <1>1, <1>2, <1>7, <1>9, <2>1, <2>2, <2>3 DEF Keeps
<1>11. new # <<>> => new[Built(p)] \in Blocks /\ Last(new) = new[Built(p)] /\ Built(p) \in 1 .. Built(p)
  BY <1>3, <1>5 DEF Last
<1>12. Typed(p)
  <2>1. q'[p].ring \in Seq(Blocks)
    <3>1. CASE q[p].isExplicit \/ new = <<>>
      BY <1>5, <1>7, <3>1
    <3>2. CASE ~(q[p].isExplicit \/ new = <<>>)
      BY <1>7, <1>11, <3>2
    <3> QED BY <3>1, <3>2
  <2>2. /\ DOMAIN entry' = Producers
        /\ entry'[p] \in [0 .. IndexSize(p) - 1 -> [key : Int, block : Blocks \cup {NoBlock}]]
        /\ fresh' \subseteq Blocks /\ free' \subseteq Blocks /\ away' \subseteq Blocks
    BY <1>1, <1>4 DEF Structure
  <2> QED BY <1>2, <1>6, <2>1, <2>2 DEF Typed
<1>13. Pools'
  <2>1. ASSUME NEW r \in Producers PROVE Attached(r)' = Attached(r)
    BY <1>1, <1>7 DEF Attached
  <2> QED BY <1>1, <1>4, <2>1 DEF Pools
<1>14. Live(p)'
  <2> SUFFICES ASSUME NEW n \in Nat, n <= TailNo(p)', Rem(p, n)' # {}
               PROVE  LiveOK(p, n)'
    BY DEF Live
  <2>1. Rem(p, n)' = Rem(p, n)
    BY <1>10, KeepsRem
  <2>2. Len(q[p].ring) \in Nat
    BY <1>5
  <2>3. CASE n <= TailNo(p)
    <3>1. LiveOK(p, n)
      BY <2>1, <2>3 DEF BlockInv, Live
    <3>2. blk'[Entry(p, n).block].done = blk[Entry(p, n).block].done
      BY <1>6, <3>1 DEF LiveOK
    <3>3. CASE q[p].isExplicit
      <4>1. q'[p].ring = q[p].ring
        BY <1>7, <3>3
      <4>2. Place(p, n)' = Place(p, n)
        BY <1>2, <1>3, <1>8, <2>2, <4>1 DEF Place
      <4> QED BY <1>7, <1>9, <2>1, <3>1, <3>2, <3>3, <4>1, <4>2 DEF LiveOK
    <3>4. CASE ~q[p].isExplicit
      <4>1. n = TailNo(p)' => n = TailNo(p) /\ q'[p].ring = q[p].ring
        BY <1>3, <1>7, <1>8, <1>11, <2>3
      <4> QED BY <1>7, <1>9, <2>1, <3>1, <3>2, <3>4, <4>1 DEF LiveOK
    <3> QED BY <3>3, <3>4
  <2>4. CASE ~(n <= TailNo(p))
    <3>1. PICK k \in 1 .. Built(p) : n = TailNo(p) + k
      <4>1. n - TailNo(p) \in 1 .. Built(p) /\ n = TailNo(p) + (n - TailNo(p))
        BY <1>3, <1>8, <2>4
      <4> QED BY <4>1
    <3>2. NewOK(p, k) /\ new[k] \in Blocks
      BY <1>1, NewFacts DEF new
    <3>3. Entry(p, n).key = n /\ Entry(p, n).block = new[k] /\ blk[new[k]].done = 0
      BY <1>1, <3>1, <3>2 DEF NewOK, new
    <3>4. Cardinality(Rem(p, n)) = BLOCK_SIZE
      BY <1>3, <2>4, Whole
    <3>5. blk'[Entry(p, n).block].done = BLOCK_SIZE - Cardinality(Rem(p, n)')
      <4>1. BLOCK_SIZE - BLOCK_SIZE = 0
        BY BlockNumbers
      <4> QED BY <1>6, <2>1, <3>2, <3>3, <3>4, <4>1
    <3>6. CASE q[p].isExplicit
      <4>1. q'[p].ring = q[p].ring
        BY <1>7, <3>6
      <4>2. Place(p, n)' = Len(q[p].ring) - Built(p) + k
        <5>1. PICK L \in Nat, B \in Nat, T \in Int :
                L = Len(q[p].ring) /\ B = Built(p) /\ T = TailNo(p)
          BY <1>3, <2>2
        <5>2. k \in Nat
          BY <1>3
        <5>3. L - 0 - ((T + B) - (T + k)) = L - B + k
          BY <5>2, ShortPlace
        <5>4. Built(p)' = 0 /\ TailNo(p)' = T + B /\ n = T + k
          BY <1>2, <1>8, <3>1, <5>1
        <5>5. Place(p, n)' = L - 0 - ((T + B) - (T + k))
          BY <4>1, <5>1, <5>4 DEF Place
        <5>6. Place(p, n)' = L - B + k
          BY <5>3, <5>5
        <5> QED BY <5>1, <5>6
      <4>3. Built(p) <= Len(q[p].ring)
        BY <1>1, <1>4, <3>6 DEF Building
      <4>4. Len(q[p].ring) - Built(p) + k >= 1
        BY <1>3, <2>2, <4>3
      <4>5. q[p].ring[Len(q[p].ring) - Built(p) + k] = new[k]
        BY <3>2, <3>6 DEF NewOK, new
      <4> QED BY <1>7, <1>9, <3>2, <3>3, <3>5, <3>6, <4>1, <4>2, <4>4, <4>5 DEF LiveOK
    <3>7. CASE ~q[p].isExplicit
      <4>1. n = TailNo(p)' => Len(q'[p].ring) = 1 /\ q'[p].ring[1] = new[k]
        <5>1. SUFFICES ASSUME n = TailNo(p)' PROVE Len(q'[p].ring) = 1 /\ q'[p].ring[1] = new[k]
          OBVIOUS
        <5>2. k = Built(p) /\ Len(new) # 0
          BY <1>3, <1>8, <3>1, <5>1
        <5>3. new # <<>>
          BY <5>2
        <5>4. PICK b : b = Last(new)
          OBVIOUS
        <5>5. q'[p].ring = <<b>>
          BY <1>7, <3>7, <5>3, <5>4
        <5>6. b = new[k]
          BY <1>11, <5>2, <5>3, <5>4
        <5> QED BY <5>5, <5>6
      <4> QED BY <1>7, <1>9, <3>2, <3>3, <3>5, <3>7, <4>1 DEF LiveOK
    <3> QED BY <3>6, <3>7
  <2> QED BY <2>3, <2>4
<1>15. Room(p)'
  <2>1. TailNo(p)' + Built(p)' = TailNo(p) + Built(p) /\ TailNo(p)' = TailNo(p) + Built(p)
    BY <1>2, <1>3, <1>8
  <2>2. Good(p, (TailNo(p) + Built(p)) % IndexSize(p))
    <3>1. CASE Built(p) = 0
      BY <1>3, <1>4, <3>1 DEF Room
    <3>2. CASE Built(p) # 0
      BY <1>1, <1>3, <3>2, NewFacts, GoodSlot DEF NewOK
    <3> QED BY <3>1, <3>2
  <2>3. Good(p, TailNo(p) % IndexSize(p))'
    BY <1>8, <1>9, <2>1, <2>2
  <2>4. Good(p, q[p].last)'
    BY <1>4, <1>7, <1>9 DEF Room
  <2>5. q[p].isExplicit => /\ q'[p].front = (TailNo(p)' + Built(p)' + 1) % IndexSize(p)'
                           /\ q'[p].ring = q[p].ring
    BY <1>4, <1>7, <1>8, <2>1 DEF Room
  <2>6. ~q[p].isExplicit => q'[p].last = (TailNo(p)' + Built(p)') % IndexSize(p)'
    BY <1>1, <1>4, <1>7, <1>8, <2>1 DEF Room
  <2> QED BY <1>1, <1>2, <1>4, <1>7, <1>8, <2>3, <2>4, <2>5, <2>6 DEF Room
<1>16. Building(p)'
  BY <1>2 DEF Building
<1> QED BY <1>10, <1>12, <1>13, <1>14, <1>15, <1>16, EnqueueStep

-------------------------------------------------------------------------------
(* Blocks that follow one another in a ring are as many as there are, at most. *)
Distinct(r) == \A i, j \in 1 .. Len(r) : r[i] = r[j] => i = j

(* A ring has at most as many blocks as the index has slots.                 *)
LEMMA RingFits ==
  ASSUME BlockInv, NEW p \in Producers, q[p].isExplicit, NEW r \in Seq(Blocks), Distinct(r)
  PROVE  Len(r) \in Nat /\ Len(r) <= IndexSize(p) /\ IndexSize(p) \in Nat \ {0}
<1>1. Len(r) \in Nat /\ r \in [1 .. Len(r) -> Blocks]
  OBVIOUS
<1>2. r \in Injection(1 .. Len(r), Blocks)
  BY <1>1 DEF Distinct, Injection, IsInjective
<1>3. IsFiniteSet(Blocks)
  BY QueueAssumption
<1>4. Cardinality(1 .. Len(r)) <= Cardinality(Blocks)
  BY <1>2, <1>3, FS_Injection
<1>5. Cardinality(1 .. Len(r)) = Len(r)
  BY <1>1, FS_Interval, SMTT(60)
<1>6. Cardinality(Blocks) <= IndexSize(p) /\ IndexSize(p) \in Nat \ {0} /\ Cardinality(Blocks) \in Nat
  BY <1>3, FS_CardinalityType DEF BlockInv, Structure
<1> QED BY <1>1, <1>4, <1>5, <1>6

(* An explicit producer gets one more block: behind the tail block, or (d = 1) *)
(* the next one of its ring.                                                   *)
Joins(p, b, ring, d) ==
  /\ q[p].isExplicit /\ Len(ring) = Len(q[p].ring) + 1 - d /\ Distinct(ring) /\ ring[Len(ring)] = b
  /\ \A j \in 1 + d .. Len(q[p].ring) : ring[j - d] = q[p].ring[j]
  /\ Built(p) + d <= Len(q[p].ring)
  /\ \A m : Used(p, m) => Place(p, m) >= 1 + d
Counts(p) ==
  /\ blk' \in [Blocks -> [cell : [0 .. BLOCK_SIZE - 1 -> Cells], done : 0 .. BLOCK_SIZE]]
  /\ \A r \in Producers \ {p} : \A c \in Attached(r) : blk'[c].done = blk[c].done
  /\ \A m : Used(p, m) => blk'[Entry(p, m).block].done = blk[Entry(p, m).block].done
  /\ fresh' \subseteq Blocks /\ free' \subseteq Blocks /\ away' \subseteq Blocks

(* The front, the ring and the entry change.                                 *)
LEMMA EnterOnly ==
  ASSUME IInv, NEW p \in Producers, NEW l, NEW b, NEW ring, NEW used, Enter(p, l, b, ring, used)
  PROVE  /\ \A r \in Producers \ {p} : q'[r] = q[r]
         /\ q'[p].isExplicit = q[p].isExplicit /\ q'[p].tail = q[p].tail
         /\ q'[p].head = q[p].head /\ q'[p].last = q[p].last
         /\ q'[p].front = Slot(p, q[p].front + 1) /\ q'[p].ring = ring
         /\ q[p].isExplicit => q'[p].isExplicit
<1>1. DOMAIN q = Producers /\ QueueOK(q[p])
  BY DEF IInv, TypeOK
<1>2. PICK f : f = Slot(p, q[p].front + 1)
  OBVIOUS
<1>3. q' = [q EXCEPT ![p].front = f, ![p].ring = ring, ![p].used = used]
  BY <1>2 DEF Enter
<1>4. q'[p] = [q[p] EXCEPT !.front = f, !.ring = ring, !.used = used]
      /\ \A r \in Producers \ {p} : q'[r] = q[r]
  BY <1>1, <1>3
<1>5. /\ q'[p].isExplicit = q[p].isExplicit /\ q'[p].tail = q[p].tail
      /\ q'[p].head = q[p].head /\ q'[p].last = q[p].last
      /\ q'[p].front = f /\ q'[p].ring = ring
  BY <1>1, <1>4 DEF QueueOK
<1> QED BY <1>2, <1>4, <1>5

(* A block enters the ring and the index.                                    *)
LEMMA EnterBlocks ==
  ASSUME IInv, IInv', BlockInv, NEW p \in Producers,
         plan[p].pc \in {"grow", "inject"},
         NEW l \in {"grow", "inject"}, NEW b \in Blocks, NEW ring \in Seq(Blocks), NEW used,
         Enter(p, l, b, ring, used), UNCHANGED take,
         NEW d \in {0, 1}, Joins(p, b, ring, d), Counts(p), Pools'
  PROVE  BlockInv'
<1> DEFINE new == plan[p].new
<1>1. plan[p].pc # "idle" /\ Plan(p, l, Append(new, b)) /\ l # "idle"
  BY DEF Enter
<1>2. /\ plan'[p].pc = l /\ plan'[p].new = Append(new, b) /\ plan'[p].n = plan[p].n
      /\ plan'[p].need = plan[p].need /\ plan'[p].start = plan[p].start
      /\ plan'[p].front = plan[p].front
      /\ \A r \in Producers \ {p} : plan'[r] = plan[r]
      /\ Built(p)' = Len(Append(new, b))
  <2> DEFINE grown == Append(new, b)
  <2>1. Plan(p, l, grown)
    BY <1>1
  <2> HIDE DEF grown, new
  <2>2. /\ plan'[p].pc = l /\ plan'[p].new = grown /\ plan'[p].n = plan[p].n
        /\ plan'[p].need = plan[p].need /\ plan'[p].start = plan[p].start
        /\ plan'[p].front = plan[p].front
        /\ \A r \in Producers \ {p} : plan'[r] = plan[r]
        /\ Built(p)' = Len(grown)
    BY <1>1, <2>1, PlanGoes
  <2> QED BY <2>2 DEF grown
<1>3. Structure /\ Room(p) /\ Building(p)
  BY DEF BlockInv
<1>4. /\ plan[p].n \in Nat \ {0} /\ plan[p].need \in Int /\ new \in Seq(Blocks)
      /\ plan[p].start \in Seq(Blocks) /\ q[p].ring \in Seq(Blocks)
  BY <1>1, <1>3 DEF Structure
<1>5. q[p].isExplicit
  BY DEF Joins
<1>6. /\ Distinct(ring) /\ ring[Len(ring)] = b
      /\ \A j \in 1 + d .. Len(q[p].ring) : ring[j - d] = q[p].ring[j]
  BY DEF Joins
<1>7. PICK B \in Nat, L \in Nat, T \in Int :
        B = Built(p) /\ B = Len(new) /\ L = Len(q[p].ring) /\ T = TailNo(p)
  BY <1>1, Lengths, Basics DEF Built
<1>8. /\ Append(new, b) \in Seq(Blocks) /\ Built(p)' = B + 1
      /\ \A k \in 1 .. B : Append(new, b)[k] = new[k]
      /\ Append(new, b)[B + 1] = b
  BY <1>2, <1>4, <1>7
<1> HIDE DEF new
<1>9. PICK x \in Int : x = T + B + 1
  BY <1>7
<1>10. PICK s \in 0 .. IndexSize(p) - 1 : s = x % IndexSize(p)
  BY SlotIn
<1>11. q[p].front = s /\ NewKey(p) = x
  <2>1. q[p].front = (TailNo(p) + Built(p) + 1) % IndexSize(p)
    BY <1>5, <1>3 DEF Room
  <2>2. NewKey(p) = TailNo(p) + Len(new) + 1
    BY DEF NewKey, TailNo, new
  <2> QED BY <1>7, <1>9, <1>10, <2>1, <2>2
<1>12. /\ DOMAIN entry' = Producers
       /\ \A r \in Producers \ {p} : entry'[r] = entry[r]
       /\ entry'[p] \in [0 .. IndexSize(p) - 1 -> [key : Int, block : Blocks \cup {NoBlock}]]
       /\ entry'[p][s] = [key |-> x, block |-> b]
       /\ \A u \in 0 .. IndexSize(p) - 1 : u # s => entry'[p][u] = entry[p][u]
  <2> DEFINE e == [key |-> x, block |-> b]
  <2>1. e \in [key : Int, block : Blocks \cup {NoBlock}]
    OBVIOUS
  <2>2. entry' = [entry EXCEPT ![p][s] = e]
    BY <1>11 DEF Enter
  <2> HIDE DEF e
  <2> QED BY <2>1, <2>2, OneEntry DEF e
<1>13. /\ \A r \in Producers \ {p} : q'[r] = q[r]
       /\ q'[p].isExplicit = q[p].isExplicit /\ q'[p].tail = q[p].tail
       /\ q'[p].head = q[p].head /\ q'[p].last = q[p].last
       /\ q'[p].front = Slot(p, s + 1) /\ q'[p].ring = ring
  BY <1>11, EnterOnly
<1>14. IndexSize(p)' = IndexSize(p) /\ TailNo(p)' = T
  BY <1>7, <1>13 DEF IndexSize, TailNo
<1>15. PICK R \in Nat, S \in Nat \ {0}, e \in Int :
         /\ R = Len(ring) /\ S = IndexSize(p) /\ e = d
         /\ R <= S /\ e >= 0 /\ e <= 1 /\ R = L + 1 - e /\ B + e <= L
  <2>1. Len(ring) \in Nat /\ IndexSize(p) \in Nat \ {0} /\ Len(ring) <= IndexSize(p)
    BY <1>5, <1>6, RingFits
  <2>2. Len(ring) = L + 1 - d /\ B + d <= L
    BY <1>7 DEF Joins
  <2>3. d \in Int /\ d >= 0 /\ d <= 1
    OBVIOUS
  <2> QED BY <2>1, <2>2, <2>3
<1>16. R <= S /\ e >= 0 /\ e <= 1 /\ R = L + 1 - e /\ B + e <= L
  BY <1>15
<1>17. ASSUME NEW m \in Int, m < x, x - m <= L - d
       PROVE  m % IndexSize(p) \in 0 .. IndexSize(p) - 1 /\ m % IndexSize(p) # s
              /\ Entry(p, m)' = Entry(p, m)
  <2>1. x - m < S
    BY <1>15, <1>16, <1>17, SMTT(60)
  <2>2. m % IndexSize(p) # x % IndexSize(p)
    BY <1>15, <1>17, <2>1, SlotsApart
  <2>3. m % IndexSize(p) \in 0 .. IndexSize(p) - 1
    BY SlotIn
  <2> QED BY <1>10, <1>12, <1>14, <2>2, <2>3 DEF Entry
<1>18. ASSUME NEW m, Used(p, m)
       PROVE  /\ m \in Nat /\ m <= T /\ Place(p, m) = L - B - (T - m) /\ Place(p, m) >= 1 + d
              /\ Place(p, m) \in 1 + d .. L
              /\ Entry(p, m)' = Entry(p, m)
  <2>1. m \in Nat /\ m <= T /\ Place(p, m) \in 1 .. L
    BY <1>5, <1>7, <1>18, UsedPlace
  <2>2. Place(p, m) = L - B - (T - m)
    BY <1>7 DEF Place
  <2>3. Place(p, m) >= 1 + d
    BY <1>18 DEF Joins
  <2>4. m < x /\ x - m <= L - d
    BY <1>9, <1>15, <2>1, <2>2, <2>3
  <2> QED BY <1>17, <2>1, <2>2, <2>3, <2>4
<1>19. \A u : Good(p, u) => Good(p, u)'
  <2>1. Good(p, s)'
    BY <1>10, <1>12, <1>14 DEF Good
  <2>2. \A u : u # s /\ Good(p, u) => Good(p, u)'
    BY <1>12, <1>14 DEF Good
  <2> QED BY <2>1, <2>2
<1>20. Keeps(p)
  <2>1. \A r \in Producers : q'[r].isExplicit = q[r].isExplicit /\ q'[r].head = q[r].head
    BY <1>13
  <2> QED BY <1>2, <1>12, <1>13, <1>18, <1>19, <2>1 DEF Keeps, Counts
<1>21. Typed(p)
  <2>1. q'[p].ring \in Seq(Blocks) /\ plan'[p].new \in Seq(Blocks)
    BY <1>2, <1>8, <1>13
  <2> QED BY <1>2, <1>4, <1>12, <2>1 DEF Typed, Counts
<1>22. Live(p)'
  <2>1. ASSUME NEW m, Used(p, m)
        PROVE  Place(p, m)' >= 1 /\ q'[p].ring[Place(p, m)'] = q[p].ring[Place(p, m)]
    <3>1. PICK j \in 1 + d .. L : j = Place(p, m)
      BY <1>18, <2>1
    <3>2. Place(p, m)' = Len(ring) - (B + 1) - (T - m)
      BY <1>8, <1>13, <1>14 DEF Place
    <3>3. Place(p, m)' = j - d
      <4>1. m \in Nat /\ j = L - B - (T - m)
        BY <1>18, <2>1, <3>1
      <4>2. PICK t \in Int : t = T - m
        BY <4>1
      <4>3. Place(p, m)' = R - (B + 1) - t /\ j = L - B - t
        BY <1>15, <3>2, <4>1, <4>2
      <4>4. R - (B + 1) - t = (L - B - t) - e
        BY <1>16
      <4> QED BY <1>15, <4>3, <4>4
    <3>4. ring[j - d] = q[p].ring[j]
      BY <1>6, <1>7, <3>1
    <3> QED BY <1>13, <3>1, <3>3, <3>4
  <2>2. TailNo(p)' = TailNo(p)
    BY <1>7, <1>14
  <2> QED BY <1>5, <1>20, <2>1, <2>2, LiveSame
<1>23. Room(p)'
  <2>1. Good(p, q[p].last)' /\ Good(p, TailNo(p) % IndexSize(p))'
    BY <1>3, <1>7, <1>13, <1>14, <1>19 DEF Room
  <2>2. q'[p].front = (T + (B + 1) + 1) % IndexSize(p)
    <3>1. PICK k \in Int : k = 1
      OBVIOUS
    <3>2. Slot(p, (x % IndexSize(p)) + k) = (x + k) % IndexSize(p)
      BY NextSlot
    <3>3. x + k = T + (B + 1) + 1
      BY <1>7, <1>9, <3>1
    <3> QED BY <1>10, <1>13, <3>1, <3>2, <3>3
  <2>3. q'[p].isExplicit /\ q'[p].ring = ring
    BY <1>5, <1>13
  <2>4. q'[p].front = (TailNo(p)' + Built(p)' + 1) % IndexSize(p)'
    BY <1>8, <1>14, <2>2
  <2> QED BY <1>6, <2>1, <2>3, <2>4 DEF Room, Distinct
<1>24. Building(p)'
  <2>1. ASSUME NEW k \in 1 .. B + 1 PROVE NewOK(p, k)'
    <3>1. CASE k = B + 1
      <4>1. T + k = x
        BY <1>7, <1>9, <3>1
      <4>2. Entry(p, T + k)' = [key |-> x, block |-> b]
        BY <1>10, <1>12, <1>14, <4>1 DEF Entry
      <4>3. plan'[p].new[k] = b
        BY <1>2, <1>8, <3>1
      <4>4. Len(ring) - (B + 1) + k = Len(ring)
        BY <1>15, <3>1
      <4>5. ring[Len(ring) - (B + 1) + k] = b
        BY <1>6, <4>4
      <4>6. Entry(p, TailNo(p) + k)' = [key |-> x, block |-> b] /\ TailNo(p)' + k = x
        BY <1>14, <4>1, <4>2 DEF Entry
      <4>7. plan'[p].pc # "fill" /\ q'[p].ring = ring /\ q'[p].isExplicit
        BY <1>5, <1>2, <1>13
      <4> QED BY <1>8, <4>3, <4>5, <4>6, <4>7 DEF NewOK
    <3>2. CASE k # B + 1
      <4>1. k \in 1 .. B
        BY <3>2
      <4>2. NewOK(p, k)
        BY <1>1, <1>7, <4>1, NewFacts
      <4>3. PICK y \in Int : y = T + k
        BY <1>7
      <4>4. Entry(p, y).key = y /\ Entry(p, y).block = new[k] /\ q[p].ring[L - B + k] = new[k]
        BY <1>5, <1>7, <4>2, <4>3 DEF NewOK, new
      <4>5. Entry(p, y)' = Entry(p, y)
        <5>1. y < x /\ x - y <= L - e
          <6>1. T + k < T + B + 1 /\ (T + B + 1) - (T + k) <= B
            BY <4>1
          <6>2. B <= L - e
            BY <1>16
          <6>3. (T + B + 1) - (T + k) <= L - e
            BY <4>1, <6>1, <6>2
          <6> QED BY <1>9, <4>3, <6>1, <6>3
        <5> QED BY <1>15, <1>17, <5>1
      <4>6. plan'[p].new[k] = new[k]
        BY <1>2, <1>8, <4>1
      <4>7. Entry(p, TailNo(p) + k)' = Entry(p, y) /\ TailNo(p)' + k = y
        BY <1>14, <4>3, <4>5 DEF Entry
      <4>8. ring[Len(ring) - (B + 1) + k] = new[k]
        <5>1. PICK j \in 1 + d .. L : j = L - B + k
          BY <1>15, <1>16, <4>1
        <5>2. ring[j - d] = q[p].ring[j]
          BY <1>6, <1>7
        <5>3. Len(ring) - (B + 1) + k = j - d
          BY <1>15, <1>16, <4>1, <5>1
        <5> QED BY <4>4, <5>1, <5>2, <5>3
      <4>9. plan'[p].pc # "fill" /\ q'[p].ring = ring /\ q'[p].isExplicit
        BY <1>5, <1>2, <1>13
      <4> QED BY <1>8, <4>4, <4>6, <4>7, <4>8, <4>9 DEF NewOK
    <3> QED BY <3>1, <3>2
  <2>2. plan'[p].need = BlockNo(q'[p].tail + plan'[p].n - 1) - TailNo(p)'
    BY <1>1, <1>2, <1>3, <1>7, <1>13, <1>14 DEF Building
  <2>3. plan'[p].front = (TailNo(p)' + 1) % IndexSize(p)'
    BY <1>5, <1>1, <1>2, <1>3, <1>7, <1>14 DEF Building
  <2>4. B + 1 <= Len(ring)
    BY <1>15, <1>16
  <2>5. plan'[p].start = <<>> => B + 1 = Len(ring)
    <3>1. plan[p].start = <<>> => B = L
      BY <1>5, <1>1, <1>3, <1>7 DEF Building
    <3>2. B = L => B + 1 = R
      BY <1>16
    <3> QED BY <1>2, <1>15, <3>1, <3>2
  <2>6. plan'[p].start # <<>> /\ B + 1 < Len(ring)
          => ring[Len(ring) - (B + 1)] = plan'[p].start[Len(plan'[p].start)]
    <3>1. SUFFICES ASSUME plan[p].start # <<>>, B + 1 < Len(ring)
                   PROVE  ring[Len(ring) - (B + 1)] = plan[p].start[Len(plan[p].start)]
      BY <1>2
    <3>2. B < L
      BY <1>7, <1>15, <3>1, SMTT(60)
    <3>3. q[p].ring[L - B] = plan[p].start[Len(plan[p].start)]
      BY <1>5, <1>1, <1>3, <1>7, <3>1, <3>2 DEF Building
    <3>4. PICK j \in 1 + d .. L : j = L - B
      BY <1>15, <1>16, <3>1
    <3>5. ring[j - d] = q[p].ring[j]
      BY <1>6, <1>7
    <3>6. Len(ring) - (B + 1) = j - d
      BY <1>15, <1>16, <3>4
    <3> QED BY <3>3, <3>4, <3>5, <3>6
  <2>7. /\ plan'[p].pc # "fill" /\ plan'[p].pc # "block" /\ q'[p].ring = ring
        /\ q'[p].isExplicit
    BY <1>5, <1>2, <1>13
  <2> QED BY <1>8, <2>1, <2>2, <2>3, <2>4, <2>5, <2>6, <2>7 DEF Building
<1> QED BY <1>20, <1>21, <1>22, <1>23, <1>24, EnqueueStep

-------------------------------------------------------------------------------
(* What the steps of an explicit producer find.                              *)
LEMMA RingFacts ==
  ASSUME IInv, BlockInv, NEW p \in Producers, q[p].isExplicit
  PROVE  /\ q[p].ring \in Seq(Blocks) /\ Distinct(q[p].ring) /\ Attached(p) = ToSet(q[p].ring)
         /\ plan[p].pc # "idle" => /\ Built(p) = Len(plan[p].new)
                                   /\ Built(p) <= Len(q[p].ring)
<1>1. q[p].ring \in Seq(Blocks) /\ Attached(p) = ToSet(q[p].ring)
  BY Lengths DEF Attached
<1>2. Distinct(q[p].ring)
  BY DEF BlockInv, Room, Distinct
<1>3. plan[p].pc # "idle" => Built(p) = Len(plan[p].new) /\ Built(p) <= Len(q[p].ring)
  BY DEF BlockInv, Building, Built
<1> QED BY <1>1, <1>2, <1>3

(* The block comes from the pool and goes behind the tail block.             *)
LEMMA InjectJoins ==
  ASSUME IInv, BlockInv, NEW p \in Producers, q[p].isExplicit, InjectBlock(p)
  PROVE  \E b \in Available, ring \in Seq(Blocks) :
           /\ Requisition(b) /\ blk' = [blk EXCEPT ![b].done = BLOCK_SIZE]
           /\ Enter(p, "inject", b, ring, q[p].used + 1)
           /\ Joins(p, b, ring, 0) /\ ToSet(ring) = Attached(p) \cup {b}
<1>1. /\ plan[p].pc \in {"grow", "inject"} /\ plan[p].pc # "idle" /\ UNCHANGED take
  BY DEF InjectBlock, Injecting, Growing, At
<1>2. PICK b \in Available :
        /\ Requisition(b)
        /\ blk' = [blk EXCEPT ![b].done = BLOCK_SIZE]
        /\ Enter(p, "inject", b, Append(q[p].ring, b), q[p].used + 1)
  BY DEF InjectBlock
<1>3. /\ b \in Blocks /\ b \notin away /\ \A r \in Producers : b \notin Attached(r)
      /\ b \notin fresh' /\ b \notin free' /\ away' = away
      /\ fresh' \subseteq fresh /\ free' \subseteq free
  BY <1>2, FromPool
<1>4. /\ q[p].ring \in Seq(Blocks) /\ Distinct(q[p].ring) /\ Attached(p) = ToSet(q[p].ring)
      /\ Built(p) <= Len(q[p].ring)
  BY <1>1, RingFacts
<1>5. PICK L \in Nat : L = Len(q[p].ring)
  BY <1>4
<1>6. PICK ring \in Seq(Blocks) : ring = Append(q[p].ring, b)
  BY <1>3, <1>4, AppendProperties
<1>7. /\ Len(ring) = L + 1 /\ ring[L + 1] = b /\ \A j \in 1 .. L : ring[j] = q[p].ring[j]
  BY <1>3, <1>4, <1>5, <1>6, AppendProperties
<1>8. \A j \in 1 .. L : q[p].ring[j] # b
  BY <1>3, <1>4, <1>5 DEF ToSet
<1>9. Distinct(ring)
  <2> SUFFICES ASSUME NEW i \in 1 .. L + 1, NEW j \in 1 .. L + 1, ring[i] = ring[j]
               PROVE  i = j
    BY <1>7 DEF Distinct
  <2>1. CASE i = L + 1 \/ j = L + 1
    BY <1>7, <1>8, <2>1
  <2>2. CASE i # L + 1 /\ j # L + 1
    <3>1. i \in 1 .. L /\ j \in 1 .. L
      BY <2>2
    <3>2. q[p].ring[i] = q[p].ring[j]
      BY <1>7, <3>1
    <3> QED BY <1>4, <1>5, <3>1, <3>2 DEF Distinct
  <2> QED BY <2>1, <2>2
<1>10. Joins(p, b, ring, 0)
  <2>1. Len(ring) = L + 1 - 0 /\ Built(p) + 0 <= L /\ ring[Len(ring)] = b
    BY <1>4, <1>5, <1>7, Lengths
  <2>2. \A j \in 1 + 0 .. L : ring[j - 0] = q[p].ring[j]
    BY <1>7
  <2>3. \A m : Used(p, m) => Place(p, m) >= 1 + 0
    BY UsedPlace, Lengths
  <2> QED BY <1>5, <1>9, <2>1, <2>2, <2>3 DEF Joins
<1>11. ToSet(ring) = Attached(p) \cup {b}
  <2>1. ASSUME NEW c \in ToSet(ring) PROVE c \in ToSet(q[p].ring) \cup {b}
    <3>1. PICK j \in 1 .. L + 1 : c = ring[j]
      BY <1>7 DEF ToSet
    <3>2. CASE j = L + 1
      BY <1>7, <3>1, <3>2
    <3>3. CASE j # L + 1
      <4>1. j \in 1 .. L /\ c = q[p].ring[j]
        BY <1>7, <3>1, <3>3
      <4> QED BY <1>4, <1>5, <4>1 DEF ToSet
    <3> QED BY <3>2, <3>3
  <2>2. ASSUME NEW c \in ToSet(q[p].ring) PROVE c \in ToSet(ring)
    BY <1>4, <1>5, <1>7 DEF ToSet
  <2>3. b \in ToSet(ring)
    BY <1>7 DEF ToSet
  <2> QED BY <1>4, <2>1, <2>2, <2>3
<1>12. Enter(p, "inject", b, ring, q[p].used + 1)
  BY <1>2, <1>6
<1> QED BY <1>2, <1>10, <1>11, <1>12

LEMMA InjectBlockBlocks ==
  ASSUME IInv, IInv', BlockInv, NEW p \in Producers, q[p].isExplicit, InjectBlock(p)
  PROVE  BlockInv'
<1>1. /\ plan[p].pc \in {"grow", "inject"} /\ plan[p].pc # "idle" /\ UNCHANGED take
  BY DEF InjectBlock, Injecting, Growing, At
<1>2. PICK b \in Available, ring \in Seq(Blocks) :
        /\ Requisition(b) /\ blk' = [blk EXCEPT ![b].done = BLOCK_SIZE]
        /\ Enter(p, "inject", b, ring, q[p].used + 1)
        /\ Joins(p, b, ring, 0) /\ ToSet(ring) = Attached(p) \cup {b}
  BY InjectJoins
<1>3. /\ b \in Blocks /\ b \notin away /\ \A r \in Producers : b \notin Attached(r)
      /\ b \notin fresh' /\ b \notin free' /\ away' = away
      /\ fresh' \subseteq fresh /\ free' \subseteq free
  BY <1>2, FromPool
<1>4. /\ blk' \in [Blocks -> [cell : [0 .. BLOCK_SIZE - 1 -> Cells], done : 0 .. BLOCK_SIZE]]
      /\ \A c \in Blocks \ {b} : blk'[c].done = blk[c].done
  <2>1. BLOCK_SIZE \in 0 .. BLOCK_SIZE
    BY BlockNumbers
  <2> QED BY <1>2, <1>3, <2>1, OneCount
<1>5. Counts(p)
  <2>1. ASSUME NEW r \in Producers \ {p}, NEW c \in Attached(r) PROVE blk'[c].done = blk[c].done
    BY <1>3, <1>4, AttachedBlocks
  <2>2. ASSUME NEW m, Used(p, m)
        PROVE  blk'[Entry(p, m).block].done = blk[Entry(p, m).block].done
    BY <1>3, <1>4, <2>2, UsedEntry
  <2>3. fresh' \subseteq Blocks /\ free' \subseteq Blocks /\ away' \subseteq Blocks
    BY <1>3 DEF BlockInv, Structure
  <2> QED BY <1>4, <2>1, <2>2, <2>3 DEF Counts
<1>6. /\ \A r \in Producers \ {p} : q'[r] = q[r] /\ entry'[r] = entry[r]
      /\ q'[p].isExplicit /\ q'[p].ring = ring
  <2>1. /\ \A r \in Producers \ {p} : q'[r] = q[r]
        /\ q'[p].isExplicit /\ q'[p].ring = ring
    BY <1>2, EnterOnly
  <2>2. \A r \in Producers \ {p} : entry'[r] = entry[r]
    BY <1>2 DEF Enter, BlockInv, Structure
  <2> QED BY <2>1, <2>2
<1>7. Pools'
  <2>1. ASSUME NEW r \in Producers \ {p} PROVE Attached(r)' = Attached(r)
    BY <1>6 DEF Attached
  <2>2. Attached(p)' \subseteq Attached(p) \cup {b}
    BY <1>2, <1>6 DEF Attached
  <2>3. Pools
    BY DEF BlockInv
  <2>4. \A r \in Producers : Attached(r)' \cap (fresh' \cup free' \cup away') = {}
    BY <1>3, <2>1, <2>2, <2>3 DEF Pools
  <2>5. \A r, d \in Producers : r # d => Attached(r)' \cap Attached(d)' = {}
    BY <1>3, <2>1, <2>2, <2>3 DEF Pools
  <2> QED BY <1>3, <2>3, <2>4, <2>5 DEF Pools
<1> QED BY <1>1, <1>2, <1>3, <1>5, <1>7, EnterBlocks

(* The block is the next one of the ring, which was dequeued.                *)
LEMMA ReuseJoins ==
  ASSUME IInv, BlockInv, NEW p \in Producers, q[p].isExplicit, ReuseAhead(p)
  PROVE  \E b \in Blocks, ring \in Seq(Blocks) :
           /\ blk[b].done = BLOCK_SIZE /\ Enter(p, "grow", b, ring, q[p].used)
           /\ Joins(p, b, ring, 1) /\ ToSet(ring) = Attached(p)
<1> DEFINE r == q[p].ring
<1>1. /\ plan[p].pc \in {"grow", "inject"} /\ plan[p].pc # "idle"
      /\ UNCHANGED <<blk, fresh, free, away, take>>
      /\ r # <<>> /\ blk[r[1]].done = BLOCK_SIZE /\ r[1] \notin ToSet(plan[p].new)
      /\ Enter(p, "grow", r[1], Append(Tail(r), r[1]), q[p].used)
  BY DEF ReuseAhead, CanReuse, Growing, At, pool
<1>2. /\ r \in Seq(Blocks) /\ Distinct(r) /\ Attached(p) = ToSet(r)
      /\ Built(p) = Len(plan[p].new) /\ Built(p) <= Len(r) /\ Built(p) \in Nat
  BY <1>1, RingFacts, Lengths
<1> HIDE DEF r
<1>3. PICK L \in Nat \ {0} : L = Len(r)
  BY <1>1, <1>2
<1>4. PICK b \in Blocks : b = r[1]
  BY <1>2, <1>3
<1>5. PICK ring \in Seq(Blocks) : ring = Append(Tail(r), b)
  BY <1>1, <1>2, HeadTailProperties, AppendProperties
<1>6. /\ Len(ring) = L /\ ring[L] = b /\ \A j \in 2 .. L : ring[j - 1] = r[j]
  <2>1. Tail(r) \in Seq(Blocks) /\ Len(Tail(r)) = L - 1
        /\ \A j \in 1 .. L - 1 : Tail(r)[j] = r[j + 1]
    BY <1>1, <1>2, <1>3, HeadTailProperties
  <2>2. Len(ring) = L - 1 + 1 /\ ring[L - 1 + 1] = b /\ \A j \in 1 .. L - 1 : ring[j] = Tail(r)[j]
    BY <1>5, <2>1, AppendProperties
  <2>3. ASSUME NEW j \in 2 .. L PROVE ring[j - 1] = r[j]
    BY <2>1, <2>2
  <2> QED BY <2>2, <2>3
<1>7. \A j \in 1 .. L : \E i \in 1 .. L : ring[j] = r[i] /\ i = (IF j = L THEN 1 ELSE j + 1)
  <2> SUFFICES ASSUME NEW j \in 1 .. L
               PROVE  \E i \in 1 .. L : ring[j] = r[i] /\ i = (IF j = L THEN 1 ELSE j + 1)
    OBVIOUS
  <2>1. CASE j = L
    BY <1>4, <1>6, <2>1
  <2>2. CASE j # L
    BY <1>6, <2>2
  <2> QED BY <2>1, <2>2
<1>8. Distinct(ring)
  <2> SUFFICES ASSUME NEW i \in 1 .. L, NEW j \in 1 .. L, ring[i] = ring[j]
               PROVE  i = j
    BY <1>6 DEF Distinct
  <2>1. PICK k \in 1 .. L : ring[i] = r[k] /\ k = (IF i = L THEN 1 ELSE i + 1)
    BY <1>7
  <2>2. PICK m \in 1 .. L : ring[j] = r[m] /\ m = (IF j = L THEN 1 ELSE j + 1)
    BY <1>7
  <2>3. k = m
    BY <1>2, <1>3, <2>1, <2>2 DEF Distinct
  <2> QED BY <2>1, <2>2, <2>3
<1>9. ToSet(ring) = ToSet(r)
  <2>1. ASSUME NEW c \in ToSet(ring) PROVE c \in ToSet(r)
    <3>1. PICK j \in 1 .. L : c = ring[j]
      BY <1>6 DEF ToSet
    <3>2. PICK i \in 1 .. L : ring[j] = r[i]
      BY <1>7
    <3> QED BY <1>2, <1>3, <3>1, <3>2 DEF ToSet
  <2>2. ASSUME NEW c \in ToSet(r) PROVE c \in ToSet(ring)
    <3>1. PICK i \in 1 .. L : c = r[i]
      BY <1>2, <1>3 DEF ToSet
    <3>2. CASE i = 1
      BY <1>4, <1>6, <3>1, <3>2 DEF ToSet
    <3>3. CASE i # 1
      BY <1>6, <3>1, <3>3 DEF ToSet
    <3> QED BY <3>2, <3>3
  <2> QED BY <2>1, <2>2
<1>10. Built(p) + 1 <= L
  <2>1. SUFFICES ASSUME Built(p) = L PROVE FALSE
    BY <1>2, <1>3
  <2>2. 1 \in 1 .. Built(p)
    BY <1>3, <2>1
  <2>3. NewOK(p, 1)
    BY <1>1, <2>2, NewFacts
  <2>4. L - L + 1 = 1
    OBVIOUS
  <2>5. r[1] = plan[p].new[1]
    BY <1>3, <2>1, <2>3, <2>4 DEF NewOK, r
  <2>6. plan[p].new[1] \in ToSet(plan[p].new)
    <3>1. plan[p].new \in Seq(Blocks)
      BY <1>1 DEF BlockInv, Structure
    <3> QED BY <1>2, <2>2, <3>1 DEF ToSet
  <2> QED BY <1>1, <2>5, <2>6
<1>11. ASSUME NEW m, Used(p, m) PROVE Place(p, m) >= 2
  <2>1. /\ m \in Nat /\ m <= TailNo(p) /\ Rem(p, m) # {}
        /\ Place(p, m) \in 1 .. L /\ r[Place(p, m)] = Entry(p, m).block
    BY <1>3, <1>11, UsedPlace DEF r
  <2>2. blk[Entry(p, m).block].done = BLOCK_SIZE - Cardinality(Rem(p, m))
    BY <2>1 DEF BlockInv, Live, LiveOK
  <2>3. Cardinality(Rem(p, m)) \in Nat \ {0}
    <3>1. PICK n \in Int : n = m
      BY <2>1
    <3>4. PICK R : R = Rem(p, m)
      OBVIOUS
    <3>2. \A i \in R : i \in Int /\ BlockNo(i) = n
      BY <3>1, <3>4 DEF Rem
    <3>3. Cardinality(R) \in 0 .. BLOCK_SIZE /\ (Cardinality(R) = 0 <=> R = {})
      BY <3>2, Countable
    <3> QED BY <2>1, <3>4, <3>3
  <2>4. blk[Entry(p, m).block].done # BLOCK_SIZE
    BY <2>2, <2>3, BlockNumbers
  <2>5. Place(p, m) # 1
    BY <1>1, <2>1, <2>4
  <2> QED BY <2>1, <2>5
<1>12. Joins(p, b, ring, 1)
  <2>1. Len(ring) = L + 1 - 1 /\ ring[Len(ring)] = b
    BY <1>6
  <2>2. \A j \in 1 + 1 .. L : ring[j - 1] = q[p].ring[j]
    BY <1>6 DEF r
  <2>3. \A m : Used(p, m) => Place(p, m) >= 1 + 1
    BY <1>11
  <2> QED BY <1>3, <1>8, <1>10, <2>1, <2>2, <2>3 DEF Joins, r
<1>13. Enter(p, "grow", b, ring, q[p].used)
  BY <1>1, <1>4, <1>5
<1> QED BY <1>1, <1>2, <1>4, <1>9, <1>12, <1>13

LEMMA ReuseAheadBlocks ==
  ASSUME IInv, IInv', BlockInv, NEW p \in Producers, q[p].isExplicit, ReuseAhead(p)
  PROVE  BlockInv'
<1>1. plan[p].pc \in {"grow", "inject"} /\ UNCHANGED <<blk, fresh, free, away, take>>
  BY DEF ReuseAhead, Growing, At, pool
<1>2. PICK b \in Blocks, ring \in Seq(Blocks) :
        /\ blk[b].done = BLOCK_SIZE /\ Enter(p, "grow", b, ring, q[p].used)
        /\ Joins(p, b, ring, 1) /\ ToSet(ring) = Attached(p)
  BY ReuseJoins
<1>3. Counts(p)
  BY <1>1 DEF Counts, BlockInv, Structure
<1>4. /\ \A d \in Producers \ {p} : q'[d] = q[d] /\ entry'[d] = entry[d]
      /\ q'[p].isExplicit /\ q'[p].ring = ring
  <2>1. /\ \A d \in Producers \ {p} : q'[d] = q[d]
        /\ q'[p].isExplicit /\ q'[p].ring = ring
    BY <1>2, EnterOnly
  <2>2. \A d \in Producers \ {p} : entry'[d] = entry[d]
    BY <1>2 DEF Enter, BlockInv, Structure
  <2> QED BY <2>1, <2>2
<1>5. Pools'
  <2>1. ASSUME NEW d \in Producers \ {p} PROVE Attached(d)' = Attached(d)
    BY <1>4 DEF Attached
  <2>2. Attached(p)' = Attached(p)
    BY <1>2, <1>4 DEF Attached
  <2>3. \A d \in Producers : Attached(d)' = Attached(d)
    BY <2>1, <2>2
  <2> QED BY <1>1, <2>3 DEF Pools, BlockInv
<1> QED BY <1>1, <1>2, <1>3, <1>5, EnterBlocks

-------------------------------------------------------------------------------
(* A ring that starts elsewhere has the same blocks.                         *)
LEMMA Rotated ==
  ASSUME NEW r \in Seq(Blocks), NEW k \in 0 .. Len(r)
  PROVE  /\ Rotate(r, k) \in Seq(Blocks) /\ Len(Rotate(r, k)) = Len(r)
         /\ \A j \in 1 .. Len(r) : Rotate(r, k)[j] = IF j <= Len(r) - k THEN r[k + j]
                                                     ELSE r[j - (Len(r) - k)]
<1> DEFINE a == SubSeq(r, k + 1, Len(r))
           b == SubSeq(r, 1, k)
<1>1. PICK L \in Nat : L = Len(r) /\ k <= L
  OBVIOUS
<1>2. a \in Seq(Blocks) /\ Len(a) = L - k /\ \A i \in 1 .. L - k : a[i] = r[k + i]
  BY <1>1, SMTT(60)
<1>3. b \in Seq(Blocks) /\ Len(b) = k /\ \A i \in 1 .. k : b[i] = r[i]
  BY <1>1
<1> HIDE DEF a, b
<1>4. /\ a \o b \in Seq(Blocks) /\ Len(a \o b) = Len(a) + Len(b)
      /\ \A i \in 1 .. Len(a) + Len(b) :
           (a \o b)[i] = IF i <= Len(a) THEN a[i] ELSE b[i - Len(a)]
  BY <1>2, <1>3, ConcatProperties
<1>5. Rotate(r, k) = a \o b
  BY DEF Rotate, a, b
<1>6. Len(a) + Len(b) = L
  BY <1>1, <1>2, <1>3
<1>7. ASSUME NEW j \in 1 .. L
      PROVE  (a \o b)[j] = IF j <= L - k THEN r[k + j] ELSE r[j - (L - k)]
  <2>1. (a \o b)[j] = IF j <= L - k THEN a[j] ELSE b[j - (L - k)]
    BY <1>2, <1>4, <1>6
  <2>2. CASE j <= L - k
    BY <1>2, <2>1, <2>2
  <2>3. CASE ~(j <= L - k)
    BY <1>1, <1>3, <2>1, <2>3
  <2> QED BY <2>2, <2>3
<1> QED BY <1>1, <1>4, <1>5, <1>6, <1>7

(* It has each of them once, too.                                            *)
LEMMA RotatedSet ==
  ASSUME NEW r \in Seq(Blocks), NEW k \in 0 .. Len(r)
  PROVE  /\ ToSet(Rotate(r, k)) = ToSet(r) /\ (Distinct(r) => Distinct(Rotate(r, k)))
<1>1. PICK L \in Nat : L = Len(r) /\ k <= L
  OBVIOUS
<1>2. PICK s \in Seq(Blocks) : s = Rotate(r, k)
  BY Rotated
<1>3. /\ Len(s) = L
      /\ \A j \in 1 .. L : s[j] = IF j <= L - k THEN r[k + j] ELSE r[j - (L - k)]
  BY <1>1, <1>2, Rotated
<1>4. \A j \in 1 .. L : \E i \in 1 .. L :
        s[j] = r[i] /\ i = IF j <= L - k THEN k + j ELSE j - (L - k)
  <2> SUFFICES ASSUME NEW j \in 1 .. L
               PROVE  \E i \in 1 .. L : s[j] = r[i] /\ i = IF j <= L - k THEN k + j ELSE j - (L - k)
    OBVIOUS
  <2>1. CASE j <= L - k
    BY <1>1, <1>3, <2>1
  <2>2. CASE ~(j <= L - k)
    <3>1. j - (L - k) \in 1 .. L
      BY <1>1, <2>2
    <3> QED BY <1>3, <2>2, <3>1
  <2> QED BY <2>1, <2>2
<1>5. ASSUME Distinct(r) PROVE Distinct(s)
  <2> SUFFICES ASSUME NEW i \in 1 .. L, NEW j \in 1 .. L, s[i] = s[j]
               PROVE  i = j
    BY <1>3 DEF Distinct
  <2>1. PICK m \in 1 .. L : s[i] = r[m] /\ m = IF i <= L - k THEN k + i ELSE i - (L - k)
    BY <1>4
  <2>2. PICK n \in 1 .. L : s[j] = r[n] /\ n = IF j <= L - k THEN k + j ELSE j - (L - k)
    BY <1>4
  <2>3. m = n
    BY <1>1, <1>5, <2>1, <2>2 DEF Distinct
  <2>4. CASE i <= L - k
    BY <1>1, <2>1, <2>2, <2>3, <2>4
  <2>5. CASE ~(i <= L - k)
    BY <1>1, <2>1, <2>2, <2>3, <2>5
  <2> QED BY <2>4, <2>5
<1>6. ASSUME NEW c \in ToSet(s) PROVE c \in ToSet(r)
  <2>1. PICK j \in 1 .. L : c = s[j]
    BY <1>3 DEF ToSet
  <2>2. PICK i \in 1 .. L : s[j] = r[i]
    BY <1>4
  <2> QED BY <1>1, <2>1, <2>2 DEF ToSet
<1>7. ASSUME NEW c \in ToSet(r) PROVE c \in ToSet(s)
  <2>1. PICK i \in 1 .. L : c = r[i]
    BY <1>1 DEF ToSet
  <2>2. PICK j \in 1 .. L : s[j] = c
    <3>1. CASE i <= k
      <4>1. PICK j \in 1 .. L : j = i + (L - k)
        <5>1. PICK m \in Nat : m = k /\ m <= L
          BY <1>1
        <5>2. i + (L - m) \in 1 .. L
          BY <3>1, <5>1
        <5> QED BY <5>1, <5>2
      <4>2. ~(j <= L - k) /\ j - (L - k) = i
        BY <1>1, <4>1
      <4> QED BY <1>3, <2>1, <4>1, <4>2
    <3>2. CASE ~(i <= k)
      <4>1. PICK j \in 1 .. L : j = i - k
        BY <1>1, <3>2
      <4>2. j <= L - k /\ k + j = i
        BY <1>1, <4>1
      <4> QED BY <1>3, <2>1, <4>1, <4>2
    <3> QED BY <3>1, <3>2
  <2>3. j \in DOMAIN s
    BY <1>3
  <2> QED BY <2>2, <2>3 DEF ToSet
<1> QED BY <1>2, <1>5, <1>6, <1>7

(* The queue of a failed enqueue.                                            *)
LEMMA UndoOnly ==
  ASSUME IInv, NEW p \in Producers, NEW f, NEW u, NEW w, NEW ring,
         q' = [q EXCEPT ![p].front = f, ![p].used = u, ![p].undone = w, ![p].ring = ring]
  PROVE  /\ \A r \in Producers \ {p} : q'[r] = q[r]
         /\ q'[p].isExplicit = q[p].isExplicit /\ q'[p].tail = q[p].tail
         /\ q'[p].head = q[p].head /\ q'[p].last = q[p].last
         /\ q'[p].front = f /\ q'[p].ring = ring
         /\ q[p].isExplicit => q'[p].isExplicit
<1>1. DOMAIN q = Producers /\ QueueOK(q[p])
  BY DEF IInv, TypeOK
<1>2. q'[p] = [q[p] EXCEPT !.front = f, !.used = u, !.undone = w, !.ring = ring]
      /\ \A r \in Producers \ {p} : q'[r] = q[r]
  BY <1>1
<1>3. /\ q'[p].isExplicit = q[p].isExplicit /\ q'[p].tail = q[p].tail
      /\ q'[p].head = q[p].head /\ q'[p].last = q[p].last
      /\ q'[p].front = f /\ q'[p].ring = ring
  BY <1>1, <1>2 DEF QueueOK
<1> QED BY <1>2, <1>3

(* A failed enqueue takes the front back and leaves its blocks ahead.        *)
LEMMA ExplicitUndoBlocks ==
  ASSUME IInv, IInv', BlockInv, NEW p \in Producers, q[p].isExplicit, ExplicitUndo(p)
  PROVE  BlockInv'
<1> DEFINE r == q[p].ring
           new == plan[p].new
           ring == IF plan[p].start = <<>> THEN (IF r = <<>> THEN r ELSE Rotate(r, 1))
                   ELSE Rotate(r, Len(r) - Len(new))
<1>0. q[p].isExplicit
  OBVIOUS
<1>1. /\ plan[p].pc # "idle" /\ plan[p].pc # "block"
      /\ UNCHANGED <<entry, blk, fresh, free, away, take>> /\ Return(p)
      /\ q' = [q EXCEPT ![p].front = plan[p].front, ![p].used = plan[p].used,
                        ![p].undone = @ \/ new # <<>>, ![p].ring = ring]
  BY DEF ExplicitUndo, Injecting, Growing, At, pool
<1>2. /\ plan'[p].pc = "idle" /\ Built(p)' = 0
      /\ \A d \in Producers \ {p} : plan'[d] = plan[d]
  BY <1>1, ReturnGoes
<1>3. /\ r \in Seq(Blocks) /\ Distinct(r) /\ Attached(p) = ToSet(r)
      /\ Built(p) = Len(new) /\ Built(p) <= Len(r)
  BY <1>0, <1>1, RingFacts
<1>4. PICK L \in Nat, B \in Nat, T \in Int :
        L = Len(r) /\ B = Built(p) /\ B = Len(new) /\ T = TailNo(p) /\ B <= L
  BY <1>3, Lengths, Basics
<1>5. Structure /\ Pools /\ Room(p) /\ Building(p)
  BY DEF BlockInv
<1> HIDE DEF r, new
<1>6. /\ ring \in Seq(Blocks) /\ Len(ring) = L /\ Distinct(ring) /\ ToSet(ring) = ToSet(r)
      /\ plan[p].start # <<>> => \A j \in B + 1 .. L : ring[j] = r[j - B]
  <2>1. CASE plan[p].start = <<>>
    <3>1. CASE r = <<>>
      BY <1>3, <1>4, <2>1, <3>1
    <3>2. CASE r # <<>>
      <4>1. 1 \in 0 .. Len(r)
        BY <1>3, <3>2
      <4>2. ring = Rotate(r, 1)
        BY <2>1, <3>2
      <4>3. /\ Rotate(r, 1) \in Seq(Blocks) /\ Len(Rotate(r, 1)) = Len(r)
            /\ Distinct(Rotate(r, 1)) /\ ToSet(Rotate(r, 1)) = ToSet(r)
        BY <1>3, <4>1, Rotated, RotatedSet
      <4> QED BY <1>4, <2>1, <4>2, <4>3
    <3> QED BY <3>1, <3>2
  <2>2. CASE plan[p].start # <<>>
    <3>1. PICK k \in 0 .. Len(r) : k = Len(r) - Len(new) /\ L - k = B
      <4>1. L - B \in 0 .. L /\ L - (L - B) = B
        BY <1>4
      <4> QED BY <1>4, <4>1
    <3>2. ring = Rotate(r, k)
      BY <2>2, <3>1
    <3>3. /\ Rotate(r, k) \in Seq(Blocks) /\ Len(Rotate(r, k)) = Len(r)
          /\ Distinct(Rotate(r, k)) /\ ToSet(Rotate(r, k)) = ToSet(r)
      BY <1>3, Rotated, RotatedSet
    <3>4. \A j \in 1 .. L : Rotate(r, k)[j] = IF j <= B THEN r[k + j] ELSE r[j - B]
      BY <1>3, <1>4, <3>1, Rotated
    <3>5. \A j \in B + 1 .. L : j \in 1 .. L /\ ~(j <= B)
      BY <1>4
    <3> QED BY <1>4, <3>2, <3>3, <3>4, <3>5
  <2> QED BY <2>1, <2>2
<1> HIDE DEF ring
<1>7. /\ \A d \in Producers \ {p} : q'[d] = q[d]
      /\ q'[p].isExplicit = q[p].isExplicit /\ q'[p].tail = q[p].tail
      /\ q'[p].head = q[p].head /\ q'[p].last = q[p].last
      /\ q'[p].front = plan[p].front /\ q'[p].ring = ring
      /\ q[p].isExplicit => q'[p].isExplicit
  BY <1>1, UndoOnly
<1>8. IndexSize(p)' = IndexSize(p) /\ TailNo(p)' = T
  BY <1>4, <1>7 DEF IndexSize, TailNo
<1>9. /\ \A m : Entry(p, m)' = Entry(p, m)
      /\ \A u : Good(p, u)' <=> Good(p, u)
  BY <1>1, <1>8 DEF Entry, Good
<1>10. Keeps(p)
  BY <1>1, <1>2, <1>7, <1>9 DEF Keeps
<1>11. Typed(p)
  BY <1>1, <1>2, <1>5, <1>6, <1>7 DEF Typed, Structure
<1>12. Pools'
  <2>1. ASSUME NEW d \in Producers \ {p} PROVE Attached(d)' = Attached(d)
    <3>1. q'[d] = q[d] /\ entry'[d] = entry[d]
      BY <1>1, <1>7
    <3> QED BY <3>1 DEF Attached
  <2>2. Attached(p)' = Attached(p)
    BY <1>0, <1>3, <1>6, <1>7 DEF Attached
  <2>3. \A d \in Producers : Attached(d)' = Attached(d)
    BY <2>1, <2>2
  <2> QED BY <1>1, <1>5, <2>3 DEF Pools
<1>13. Live(p)'
  <2>1. ASSUME NEW m, Used(p, m)
        PROVE  Place(p, m)' >= 1 /\ q'[p].ring[Place(p, m)'] = q[p].ring[Place(p, m)]
    <3>1. /\ m \in Nat /\ Place(p, m) \in 1 .. L - B /\ Place(p, m) = L - B - (T - m)
      BY <1>0, <1>4, <2>1, UsedPlace DEF Place, r
    <3>2. PICK j \in 1 .. L - B : j = Place(p, m)
      BY <3>1
    <3>3. plan[p].start # <<>>
      <4>1. SUFFICES ASSUME plan[p].start = <<>> PROVE FALSE
        OBVIOUS
      <4>2. B = L
        BY <1>0, <1>1, <1>4, <1>5, <4>1 DEF Building, r
      <4> QED BY <3>2, <4>2
    <3>4. Place(p, m)' = L - 0 - (T - m)
      BY <1>2, <1>6, <1>7, <1>8 DEF Place
    <3>5. Place(p, m)' = j + B
      BY <3>1, <3>2, <3>4
    <3>6. j + B \in B + 1 .. L /\ (j + B) - B = j /\ j + B >= 1
      BY <1>4
    <3> QED BY <1>6, <1>7, <3>2, <3>3, <3>5, <3>6 DEF r
  <2>2. TailNo(p)' = TailNo(p)
    BY <1>4, <1>8
  <2> QED BY <1>0, <1>10, <2>1, <2>2, LiveSame
<1>14. Room(p)'
  <2>1. Good(p, q[p].last)' /\ Good(p, TailNo(p) % IndexSize(p))'
    BY <1>4, <1>5, <1>7, <1>8, <1>9 DEF Room
  <2>2. q'[p].front = (TailNo(p)' + Built(p)' + 1) % IndexSize(p)'
    <3>1. plan[p].front = (TailNo(p) + 1) % IndexSize(p)
      BY <1>0, <1>1, <1>5 DEF Building
    <3>2. TailNo(p)' + Built(p)' + 1 = TailNo(p) + 1
      BY <1>2, <1>4, <1>8
    <3> QED BY <1>7, <1>8, <3>1, <3>2
  <2>3. q'[p].isExplicit /\ q'[p].ring = ring
    BY <1>0, <1>7
  <2> QED BY <1>6, <2>1, <2>2, <2>3 DEF Room, Distinct
<1>15. Building(p)'
  BY <1>2 DEF Building
<1> QED BY <1>10, <1>11, <1>12, <1>13, <1>14, <1>15, EnqueueStep

-------------------------------------------------------------------------------
(* Every step of an enqueue keeps BlockInv.                                  *)
LEMMA EnqueueBlocks ==
  ASSUME IInv, IInv', BlockInv, NEW p \in Producers,
         IF q[p].isExplicit THEN ExplicitEnqueue(p) ELSE ImplicitEnqueue(p)
  PROVE  BlockInv'
<1>1. CASE \E n \in Sizes : Begin(p, n)
  BY <1>1, BeginBlocks
<1>2. CASE ShowBlocks(p)
  BY <1>2, ShowBlocksBlocks
<1>3. CASE Fill(p)
  BY <1>3, FillBlocks
<1>4. CASE q[p].isExplicit /\ (ReuseAhead(p) \/ InjectBlock(p) \/ ExplicitUndo(p))
  BY <1>4, ReuseAheadBlocks, InjectBlockBlocks, ExplicitUndoBlocks
<1>5. CASE ~q[p].isExplicit /\ (InsertKey(p) \/ InstallBlock(p) \/ ImplicitUndo(p))
  BY <1>5, InsertKeyBlocks, InstallBlockBlocks, ImplicitUndoBlocks
<1>6. CASE q[p].isExplicit
  BY <1>1, <1>2, <1>3, <1>4, <1>6 DEF ExplicitEnqueue
<1>7. CASE ~q[p].isExplicit
  BY <1>1, <1>2, <1>3, <1>5, <1>7 DEF ImplicitEnqueue
<1> QED BY <1>6, <1>7

(* Every step of a dequeue does.                                             *)
LEMMA DequeueBlocks ==
  ASSUME IInv, IInv', BlockInv, NEW c \in Consumers, NEW P \in SUBSET Producers, TakeFrom(c, P)
  PROVE  BlockInv'
<1>1. CASE \E p \in P, max \in Sizes : Look(c, p, max)
  BY <1>1, LookBlocks
<1>2. CASE Claim(c) \/ Check(c) \/ GiveBack(c) \/ Advance(c)
  BY <1>2, ClaimBlocks, CheckBlocks, GiveBackBlocks, AdvanceBlocks
<1>3. CASE LoadLast(c) \/ LoadKey(c) \/ CopyOut(c) \/ SetEmpty(c) \/ Release(c)
  BY <1>3, LoadLastBlocks, LoadKeyBlocks, CopyOutBlocks, SetEmptyBlocks, ReleaseBlocks
<1> QED BY <1>1, <1>2, <1>3 DEF TakeFrom

(* Every step does.                                                          *)
LEMMA NextBlocks ==
  ASSUME IInv, BlockInv, [Next]_vars
  PROVE  BlockInv'
<1>1. IInv'
  BY NextIInv
<1>2. CASE \E p \in Producers : IF q[p].isExplicit THEN ExplicitEnqueue(p) ELSE ImplicitEnqueue(p)
  BY <1>1, <1>2, EnqueueBlocks
<1>3. CASE \E c \in Consumers : ImplicitDequeue(c) \/ ExplicitDequeue(c)
  BY <1>1, <1>3, DequeueBlocks DEF ImplicitDequeue, ExplicitDequeue
<1>4. CASE Borrow \/ Restore
  BY <1>1, <1>4, BorrowBlocks
<1>5. CASE UNCHANGED vars
  BY <1>1, <1>5, PoolStep DEF vars, BlockInv, Pools
<1> QED BY <1>2, <1>3, <1>4, <1>5 DEF Next

(* A block belongs to one producer, or to the pool, whatever races were lost  *)
(* and whatever enqueues failed halfway: no block is given back twice or      *)
(* while somebody still needs it (concurrentqueue.h:2592, 2745, 2851), and     *)
(* none counts more elements gone than it has.                               *)
THEOREM NobodySharesABlock == Spec => []OneOwner
<1>1. BlockInv => OneOwner
  <2> SUFFICES ASSUME BlockInv PROVE OneOwner
    OBVIOUS
  <2>1. ASSUME NEW b \in Blocks PROVE blk[b].done <= BLOCK_SIZE
    BY QueueAssumption DEF BlockInv, Structure
  <2> QED BY <2>1 DEF BlockInv, Pools, OneOwner
<1>2. Init => IInv /\ BlockInv
  BY InitIInv, InitBlocks
<1>3. IInv /\ BlockInv /\ [Next]_vars => IInv' /\ BlockInv'
  BY NextIInv, NextBlocks
<1> QED BY <1>1, <1>2, <1>3, PTL DEF Spec
-------------------------------------------------------------------------------
(* Cells.  An element is in the cell of its index from the time the tail     *)
(* shows it to the time the call that claimed it moves it out.               *)

Uncopied(p, c) ==
  {i \in Pending(p, c) : take[c].pc = "empty" => BlockNo(i) # Number(c)}
Waiting(p, i) ==
  i < q[p].tail /\ (i >= q[p].head \/ \E c \in Consumers : i \in Uncopied(p, c))
Holds(p, i, b, o) ==
  Waiting(p, i) /\ b = Entry(p, BlockNo(i)).block /\ o = i % BLOCK_SIZE
CellInv ==
  /\ \A p \in Producers : \A i \in Nat : Waiting(p, i) =>
       blk[Entry(p, BlockNo(i)).block].cell[i % BLOCK_SIZE] = <<p, i>>
  /\ \A b \in Blocks : \A o \in 0 .. BLOCK_SIZE - 1 : blk[b].cell[o] # Hole =>
       \E p \in Producers : \E i \in Nat : blk[b].cell[o] = <<p, i>> /\ Holds(p, i, b, o)

(* An index whose element is still there is in a block that is in use.       *)
LEMMA WaitingUsed ==
  ASSUME IInv, NEW p \in Producers, NEW i \in Nat, Waiting(p, i)
  PROVE  /\ i \in Int /\ BlockNo(i) \in Nat /\ BlockNo(i) <= TailNo(p)
         /\ i \in Rem(p, BlockNo(i)) /\ Used(p, BlockNo(i))
         /\ i % BLOCK_SIZE \in 0 .. BLOCK_SIZE - 1
<1>1. i \in Int /\ BlockNo(i) \in Nat /\ i % BLOCK_SIZE \in 0 .. BLOCK_SIZE - 1
  BY BlockNumbers
<1>2. BlockNo(i) <= TailNo(p)
  <2>1. q[p].tail \in Nat /\ i < q[p].tail
    BY Basics DEF Waiting
  <2>2. PICK t \in Int : t = q[p].tail - 1 /\ i <= t
    BY <2>1
  <2> QED BY <1>1, <2>2, BlockNumbers DEF TailNo
<1>3. i \in Rem(p, BlockNo(i))
  BY <1>1 DEF Waiting, Uncopied, Rem
<1> QED BY <1>1, <1>2, <1>3 DEF Used

(* A block in use is where Live says.                                        *)
LEMMA WaitingLive ==
  ASSUME IInv', BlockInv', NEW p \in Producers, NEW i \in Nat, Waiting(p, i)'
  PROVE  BlockNo(i) \in Nat /\ BlockNo(i) <= TailNo(p)' /\ LiveOK(p, BlockNo(i))'
<1>1. i \in Int /\ BlockNo(i) \in Nat
  BY BlockNumbers
<1>2. BlockNo(i) <= TailNo(p)'
  <2>1. q'[p].tail \in Nat /\ i < q'[p].tail
    BY DEF Waiting, IInv, TypeOK, QueueOK
  <2>2. PICK t \in Int : t = q'[p].tail - 1 /\ i <= t
    BY <2>1
  <2> QED BY <1>1, <2>2, BlockNumbers DEF TailNo
<1>3. i \in Rem(p, BlockNo(i))'
  BY <1>1 DEF Waiting, Uncopied, Rem
<1> QED BY <1>1, <1>2, <1>3 DEF BlockInv, Live

(* A step that leaves the cells alone, the elements that are there, and the   *)
(* entries of the blocks up to the tail block.                               *)
LEMMA CellStep ==
  ASSUME IInv, IInv', BlockInv, BlockInv', CellInv,
         \A r \in Producers : q'[r].tail = q[r].tail,
         \A r \in Producers : \A i \in Nat : Waiting(r, i)' <=> Waiting(r, i),
         \A b \in Blocks : blk'[b].cell = blk[b].cell,
         \A r \in Producers : \A n \in Nat :
           n <= TailNo(r) /\ LiveOK(r, n)' => Entry(r, n)'.block = Entry(r, n).block
  PROVE  CellInv'
<1>1. ASSUME NEW p \in Producers, NEW i \in Nat, Waiting(p, i)
      PROVE  /\ Waiting(p, i)' /\ Entry(p, BlockNo(i))'.block = Entry(p, BlockNo(i)).block
             /\ Entry(p, BlockNo(i)).block \in Blocks
  BY <1>1, WaitingLive, WaitingUsed, UsedEntry DEF TailNo
<1>2. ASSUME NEW p \in Producers, NEW i \in Nat, Waiting(p, i)'
      PROVE  blk'[Entry(p, BlockNo(i))'.block].cell[i % BLOCK_SIZE] = <<p, i>>
  <2>1. Waiting(p, i)
    BY <1>2
  <2>2. PICK b \in Blocks : b = Entry(p, BlockNo(i)).block /\ b = Entry(p, BlockNo(i))'.block
    BY <1>1, <2>1
  <2>3. blk[b].cell[i % BLOCK_SIZE] = <<p, i>>
    BY <2>1, <2>2 DEF CellInv
  <2>4. blk'[b].cell[i % BLOCK_SIZE] = <<p, i>>
    BY <2>3
  <2> QED BY <2>2, <2>4
<1>3. ASSUME NEW b \in Blocks, NEW o \in 0 .. BLOCK_SIZE - 1, blk'[b].cell[o] # Hole
      PROVE  \E p \in Producers : \E i \in Nat : blk'[b].cell[o] = <<p, i>> /\ Holds(p, i, b, o)'
  BY <1>1, <1>3 DEF CellInv, Holds
<1> QED BY <1>2, <1>3 DEF CellInv

(* A step of a dequeue that leaves the cells alone.                          *)
LEMMA TakeStep ==
  ASSUME IInv, IInv', BlockInv, BlockInv', CellInv, NEW c \in Consumers,
         \A r \in Producers : q'[r].tail = q[r].tail,
         \A d \in Consumers \ {c} : take'[d] = take[d],
         \A r \in Producers : \A i \in Nat :
           (i >= q'[r].head \/ i \in Uncopied(r, c)') <=> (i >= q[r].head \/ i \in Uncopied(r, c)),
         \A b \in Blocks : blk'[b].cell = blk[b].cell,
         \A r \in Producers : \A n \in Nat :
           n <= TailNo(r) /\ LiveOK(r, n)' => Entry(r, n)'.block = Entry(r, n).block
  PROVE  CellInv'
<1>1. \A d \in Consumers \ {c} : \A r \in Producers : Uncopied(r, d)' = Uncopied(r, d)
  BY DEF Uncopied, Pending, Span, Number
<1>2. ASSUME NEW r \in Producers, NEW i \in Nat PROVE Waiting(r, i)' <=> Waiting(r, i)
  BY <1>1 DEF Waiting
<1> QED BY <1>2, CellStep

(* The steps that come before a call has an index.                           *)
LEMMA EarlyCells ==
  ASSUME IInv, IInv', BlockInv, BlockInv', CellInv, NEW c \in Consumers,
         \/ \E p \in Producers, max \in Sizes : Look(c, p, max)
         \/ Claim(c) \/ Check(c) \/ GiveBack(c)
  PROVE  CellInv'
<1>1. /\ UNCHANGED <<entry, blk, plan>> /\ \A d \in Consumers \ {c} : take'[d] = take[d]
      /\ take[c].pc \notin Working /\ take'[c].pc \notin Working
  <2>1. DOMAIN take = Consumers
    BY Basics
  <2>2. TakeOK(take[c])
    BY DEF IInv, TypeOK
  <2>3. CASE \E p \in Producers, max \in Sizes : Look(c, p, max)
    BY <2>1, <2>3 DEF Look, Go, In, Working
  <2>4. CASE Claim(c)
    BY <2>1, <2>4 DEF Claim, Go, In, Working
  <2>5. CASE Check(c)
    BY <2>1, <2>5 DEF Check, Go, In, Working
  <2>6. CASE GiveBack(c)
    <3>1. UNCHANGED <<entry, blk, plan>> /\ take[c].pc = "back"
      BY <2>6 DEF GiveBack, Back, In
    <3>2. take[c] \in [pc : {"back"}, prod : Producers, excess : Nat, got : Nat]
      BY <2>2, <3>1 DEF TakeOK, NoCall
    <3>3. /\ \A d \in Consumers \ {c} : take'[d] = take[d]
          /\ take'[c].pc \in {"idle", "head"}
      BY <2>1, <2>6, <3>2 DEF GiveBack, Back, Go, NoCall
    <3>4. take[c].pc \notin Working /\ take'[c].pc \notin Working
      BY <3>1, <3>3 DEF Working
    <3> QED BY <3>1, <3>3, <3>4
  <2> QED BY <2>3, <2>4, <2>5, <2>6
<1>2. QueuesSame /\ \A r \in Producers : q'[r].head = q[r].head
  <2>1. \A r \in Producers : q[r].head \in Nat
    BY Basics
  <2>2. CASE (\E p \in Producers, max \in Sizes : Look(c, p, max)) \/ Check(c)
    <3>1. UNCHANGED <<q, plan>>
      BY <2>2 DEF Look, Check
    <3> QED BY <2>1, <3>1 DEF QueuesSame
  <2>3. CASE Claim(c) \/ GiveBack(c)
    <3>1. PICK p \in Producers : p = take[c].prod
      BY <2>3, Basics DEF Claim, GiveBack, Back, In
    <3>2. QueueOK(q[p]) /\ TakeOK(take[c])
      BY DEF IInv, TypeOK
    <3>3. \E m \in Nat : q' = [q EXCEPT ![p].opt = m] \/ q' = [q EXCEPT ![p].over = m]
      <4>1. CASE Claim(c)
        <5>1. take[c].want \in Nat
          BY <3>2, <4>1 DEF Claim, In, TakeOK, NoCall
        <5>2. q[p].opt + take[c].want \in Nat
          BY <3>2, <5>1 DEF QueueOK
        <5> QED BY <3>1, <4>1, <5>2 DEF Claim, Prod
      <4>2. CASE GiveBack(c)
        <5>1. take[c].excess \in Nat
          BY <3>2, <4>2 DEF GiveBack, Back, In, TakeOK, NoCall
        <5>2. q[p].over + take[c].excess \in Nat
          BY <3>2, <5>1 DEF QueueOK
        <5> QED BY <3>1, <4>2, <5>2 DEF GiveBack, Back, Prod
      <4> QED BY <2>3, <4>1, <4>2
    <3>4. \A r \in Producers : q'[r].head = q[r].head
      BY <3>2, <3>3, Basics DEF QueueOK
    <3> QED BY <1>1, <3>3, <3>4, CountersOnly
  <2> QED BY <2>2, <2>3
<1>3. \A r \in Producers : Uncopied(r, c)' = {} /\ Uncopied(r, c) = {}
  BY <1>1 DEF Uncopied, Pending
<1>4. \A r \in Producers : q'[r].tail = q[r].tail /\ q'[r].head = q[r].head
  BY <1>2 DEF QueuesSame
<1>5. \A r \in Producers : \A n : Entry(r, n)' = Entry(r, n)
  BY <1>1, <1>2, SameNumbers
<1> QED BY <1>1, <1>3, <1>4, <1>5, TakeStep

(* The call gets the indices the head goes past.                             *)
LEMMA AdvanceCells ==
  ASSUME IInv, IInv', BlockInv, BlockInv', CellInv, NEW c \in Consumers, Advance(c)
  PROVE  CellInv'
<1>1. /\ UNCHANGED <<entry, blk, plan>> /\ \A d \in Consumers \ {c} : take'[d] = take[d]
      /\ take'[c].pc = "last" /\ take'[c].prod = take[c].prod /\ take'[c].got = take[c].got
      /\ take'[c].index = q[take[c].prod].head
  BY Basics DEF Advance, Go, Prod
<1>2. PICK p \in Producers : p = take[c].prod
  BY Basics DEF Advance, In
<1>3. QueuesSame
  <2>1. QueueOK(q[p]) /\ TakeOK(take[c])
    BY DEF IInv, TypeOK
  <2>2. take[c].got \in Nat
    BY <2>1 DEF Advance, In, TakeOK, NoCall
  <2>3. PICK h \in Nat, g \in Nat : h = q[p].head /\ g = take[c].got
    BY <2>1, <2>2 DEF QueueOK
  <2>4. h + g \in Nat /\ h + g >= q[p].head
    BY <2>3
  <2>5. q' = [q EXCEPT ![p].head = h + g]
    BY <1>2, <2>3 DEF Advance, Prod
  <2> QED BY <1>1, <2>4, <2>5, CountersOnly
<1>4. ASSUME NEW r \in Producers, NEW i \in Nat
      PROVE  (i >= q'[r].head \/ i \in Uncopied(r, c)') <=> (i >= q[r].head \/ i \in Uncopied(r, c))
  <2>1. Uncopied(r, c) = {}
    BY DEF Uncopied, Pending, Working, Advance, In
  <2>2. QueueOK(q[p]) /\ TakeOK(take[c]) /\ DOMAIN q = Producers
    BY DEF IInv, TypeOK
  <2>3. take[c].got \in Nat
    BY <2>2 DEF Advance, In, TakeOK, NoCall
  <2>4. PICK h \in Nat, g \in Nat : h = q[p].head /\ g = take[c].got
    BY <2>2, <2>3 DEF QueueOK
  <2>5. q' = [q EXCEPT ![p].head = h + g]
    BY <1>2, <2>4 DEF Advance, Prod
  <2>6. CASE r = p
    <3>1. q'[p].head = h + g
      BY <2>2, <2>5 DEF QueueOK
    <3>2. Uncopied(p, c)' = {k \in Int : k \in h .. h + g - 1}
      BY <1>1, <1>2, <2>4 DEF Uncopied, Pending, Span, Working
    <3>3. i >= h + g \/ i \in h .. h + g - 1 <=> i >= h
      OBVIOUS
    <3> QED BY <2>1, <2>4, <2>6, <3>1, <3>2, <3>3
  <2>7. CASE r # p
    <3>1. q'[r] = q[r]
      BY <2>5, <2>7
    <3>2. Uncopied(r, c)' = {}
      BY <1>1, <1>2, <2>7 DEF Uncopied, Pending
    <3> QED BY <2>1, <3>1, <3>2
  <2> QED BY <2>6, <2>7
<1>5. \A r \in Producers : q'[r].tail = q[r].tail
  BY <1>3 DEF QueuesSame
<1>6. \A r \in Producers : \A n : Entry(r, n)' = Entry(r, n)
  BY <1>1, <1>3, SameNumbers
<1> QED BY <1>1, <1>4, <1>5, <1>6, TakeStep

(* The call looks for its block.                                             *)
LEMMA FindCells ==
  ASSUME IInv, IInv', BlockInv, BlockInv', CellInv, NEW c \in Consumers, LoadLast(c) \/ LoadKey(c)
  PROVE  CellInv'
<1>1. /\ UNCHANGED <<q, entry, blk, plan>> /\ \A d \in Consumers \ {c} : take'[d] = take[d]
      /\ take[c].pc \in {"last", "key"} /\ take'[c].pc \in {"key", "copy"}
      /\ take'[c].prod = take[c].prod /\ take'[c].got = take[c].got
      /\ take'[c].index = take[c].index
  <2>1. DOMAIN take = Consumers
    BY Basics
  <2>2. CASE LoadLast(c)
    BY <2>1, <2>2 DEF LoadLast, Go, Prod, In
  <2>3. CASE LoadKey(c)
    <3>1. take[c] \in [pc : {"key", "copy"}, prod : Producers, got : {take[c].got},
                       index : {take[c].index}, slot : {take[c].slot}]
      <4>1. TakeOK(take[c]) /\ take[c].pc = "key"
        BY <2>3 DEF IInv, TypeOK, LoadKey, In
      <4> QED BY <4>1 DEF TakeOK, NoCall
    <3> QED BY <2>1, <2>3, <3>1 DEF LoadKey, Go, Prod, In
  <2> QED BY <2>2, <2>3
<1>2. \A r \in Producers : Uncopied(r, c)' = Uncopied(r, c)
  BY <1>1 DEF Uncopied, Pending, Span, Working, Number
<1>3. \A r \in Producers : \A n : Entry(r, n)' = Entry(r, n)
  BY <1>1 DEF Entry, IndexSize
<1> QED BY <1>1, <1>2, <1>3, TakeStep

(* The call empties the cells of its part, which no other index shares.      *)
LEMMA CopyOutCells ==
  ASSUME IInv, IInv', BlockInv, BlockInv', CellInv, NEW c \in Consumers, CopyOut(c)
  PROVE  CellInv'
<1>1. take[c].pc = "copy" /\ take[c].pc \in Working /\ DOMAIN take = Consumers
  BY Basics DEF CopyOut, In, Working
<1>2. PICK p \in Producers : p = take[c].prod
  BY <1>1, CallAt
<1>3. PICK n \in Nat : n = Number(c)
  BY <1>1, CallAt
<1>4. PICK b \in Blocks : b = BlockAt(c) /\ b = Entry(p, n).block
  <2>1. take[c].slot = Number(c) % IndexSize(take[c].prod)
    BY <1>1 DEF BlockInv, CallOK, Placed
  <2>2. BlockAt(c) = Entry(p, n).block
    BY <1>2, <1>3, <2>1 DEF BlockAt, Entry, Prod
  <2> QED BY <1>1, <1>2, <1>3, <2>2, CallUses, UsedEntry
<1>5. /\ UNCHANGED <<q, entry>> /\ \A d \in Consumers \ {c} : take'[d] = take[d]
      /\ take'[c].pc = "empty" /\ take'[c].prod = p /\ take'[c].got = take[c].got
      /\ take'[c].index = take[c].index
  BY <1>1, <1>2 DEF CopyOut, Go, Prod
<1>6. /\ Used(p, n) /\ Part(c) \subseteq Pending(p, c)
      /\ \A j \in Part(c) : j \in Int /\ BlockNo(j) = n /\ j \in Span(c)
  <2>1. \A j \in Int : j \in Part(c) <=> j \in Span(c) /\ BlockNo(j) = Number(c)
    BY <1>1, CallAt, PartOf
  <2>2. \A j \in Part(c) : j \in Int
    BY <1>1, CallAt, PartOf
  <2> QED BY <1>1, <1>2, <1>3, <2>1, <2>2, CallUses
<1>7. \A j \in Int : j \in Span(c) /\ BlockNo(j) = n => j \in Part(c)
  BY <1>1, <1>3, CallAt, PartOf
<1>8. ASSUME NEW r \in Producers, NEW i \in Nat, NEW d \in Consumers, i \in Uncopied(r, d)'
      PROVE  i \in Uncopied(r, d) /\ (r = p => i \notin Part(c))
  <2>1. CASE d = c
    <3>1. r = p /\ i \in Span(c) /\ BlockNo(i) # n
      BY <1>2, <1>3, <1>5, <1>8, <2>1 DEF Uncopied, Pending, Span, Number
    <3>2. i \in Uncopied(r, c)
      BY <1>1, <1>2, <3>1 DEF Uncopied, Pending
    <3> QED BY <1>6, <2>1, <3>1, <3>2
  <2>2. CASE d # c
    <3>1. take'[d] = take[d]
      BY <1>5, <2>2
    <3>2. i \in Uncopied(r, d)
      BY <1>8, <3>1 DEF Uncopied, Pending, Span, Number
    <3>3. i \in Pending(r, d)
      BY <3>2 DEF Uncopied
    <3>4. Pending(r, c) \cap Pending(r, d) = {}
      BY <2>2 DEF BlockInv, Apart
    <3> QED BY <1>6, <3>2, <3>3, <3>4
  <2> QED BY <2>1, <2>2
<1>9. ASSUME NEW r \in Producers, NEW i \in Nat, Waiting(r, i)'
      PROVE  Waiting(r, i) /\ (r = p => i \notin Part(c))
  <2>1. CASE i >= q[r].head
    <3>1. Waiting(r, i)
      BY <1>5, <1>9, <2>1 DEF Waiting
    <3>2. r = p => i \notin Part(c)
      <4>1. \A j \in Span(c) : j \in Nat /\ j < q[p].head
        BY <1>1, <1>2, CallAt
      <4>2. q[p].head \in Nat
        BY Basics
      <4> QED BY <1>6, <2>1, <4>1, <4>2
    <3> QED BY <3>1, <3>2
  <2>2. CASE \E d \in Consumers : i \in Uncopied(r, d)'
    BY <1>5, <1>8, <1>9, <2>2 DEF Waiting
  <2> QED BY <1>5, <1>9, <2>1, <2>2 DEF Waiting
<1>10. ASSUME NEW r \in Producers, NEW i \in Nat, Waiting(r, i)
       PROVE  /\ Entry(r, BlockNo(i))' = Entry(r, BlockNo(i)) /\ Entry(r, BlockNo(i)).block \in Blocks
              /\ i % BLOCK_SIZE \in 0 .. BLOCK_SIZE - 1 /\ Used(r, BlockNo(i)) /\ i \in Int
  BY <1>5, <1>10, WaitingUsed, UsedEntry DEF Entry, IndexSize
<1> DEFINE cells == {j % BLOCK_SIZE : j \in Part(c)}
           f == [o \in DOMAIN blk[b].cell |-> IF o \in cells THEN Hole ELSE blk[b].cell[o]]
<1>11. blk \in [Blocks -> [cell : [0 .. BLOCK_SIZE - 1 -> Cells], done : 0 .. BLOCK_SIZE]]
  BY DEF BlockInv, Structure
<1>12. blk' = [blk EXCEPT ![b].cell = f]
  BY <1>4 DEF CopyOut
<1> HIDE DEF cells
<1>13. ASSUME NEW o \in 0 .. BLOCK_SIZE - 1
       PROVE  /\ blk'[b].cell[o] = IF o \in cells THEN Hole ELSE blk[b].cell[o]
              /\ \A e \in Blocks \ {b} : blk'[e].cell[o] = blk[e].cell[o]
  <2>1. f[o] = IF o \in cells THEN Hole ELSE blk[b].cell[o]
    BY <1>11
  <2> HIDE DEF f
  <2>2. blk'[b].cell = f /\ \A e \in Blocks \ {b} : blk'[e] = blk[e]
    BY <1>11, <1>12
  <2> QED BY <2>1, <2>2
<1> HIDE DEF f
<1>14. ASSUME NEW r \in Producers, NEW i \in Nat, Waiting(r, i), r = p => i \notin Part(c)
       PROVE  blk'[Entry(r, BlockNo(i)).block].cell[i % BLOCK_SIZE] = <<r, i>>
  <2>1. PICK e \in Blocks : e = Entry(r, BlockNo(i)).block
    BY <1>10, <1>14
  <2>2. i % BLOCK_SIZE \in 0 .. BLOCK_SIZE - 1 /\ Used(r, BlockNo(i)) /\ i \in Int
    BY <1>10, <1>14
  <2>3. blk[e].cell[i % BLOCK_SIZE] = <<r, i>>
    BY <1>14, <2>1 DEF CellInv
  <2>4. CASE e # b
    BY <1>13, <2>1, <2>2, <2>3, <2>4
  <2>5. CASE e = b
    <3>1. r = p /\ BlockNo(i) = n
      BY <1>4, <1>6, <2>1, <2>2, <2>5, UsedApart
    <3>2. i % BLOCK_SIZE \notin cells
      <4>1. SUFFICES ASSUME NEW j \in Part(c), i % BLOCK_SIZE = j % BLOCK_SIZE
                     PROVE  FALSE
        BY DEF cells
      <4>2. j \in Int /\ BlockNo(j) = n
        BY <1>6
      <4>3. /\ i % BLOCK_SIZE = i - BLOCK_SIZE * n /\ j % BLOCK_SIZE = j - BLOCK_SIZE * n
            /\ BLOCK_SIZE * n \in Int
        BY <2>2, <3>1, <4>2, BlockNumbers
      <4>4. i = j
        BY <2>2, <4>1, <4>2, <4>3
      <4> QED BY <1>14, <3>1, <4>4
    <3> QED BY <1>13, <2>1, <2>2, <2>3, <2>5, <3>2
  <2> QED BY <2>4, <2>5
<1>15. ASSUME NEW r \in Producers, NEW i \in Nat, Waiting(r, i)'
       PROVE  blk'[Entry(r, BlockNo(i))'.block].cell[i % BLOCK_SIZE] = <<r, i>>
  BY <1>9, <1>10, <1>14, <1>15
<1>16. ASSUME NEW e \in Blocks, NEW o \in 0 .. BLOCK_SIZE - 1, blk'[e].cell[o] # Hole
       PROVE  \E r \in Producers : \E i \in Nat : blk'[e].cell[o] = <<r, i>> /\ Holds(r, i, e, o)'
  <2>1. blk'[e].cell[o] = blk[e].cell[o] /\ (e = b => o \notin cells)
    BY <1>13, <1>16
  <2>2. PICK r \in Producers, i \in Nat : blk[e].cell[o] = <<r, i>> /\ Holds(r, i, e, o)
    BY <1>16, <2>1 DEF CellInv
  <2>3. Waiting(r, i) /\ e = Entry(r, BlockNo(i)).block /\ o = i % BLOCK_SIZE
    BY <2>2 DEF Holds
  <2>4. ~(r = p /\ i \in Part(c))
    <3>1. SUFFICES ASSUME r = p, i \in Part(c) PROVE FALSE
      OBVIOUS
    <3>2. e = b
      BY <1>4, <1>6, <2>3, <3>1
    <3> QED BY <2>1, <2>3, <3>1, <3>2 DEF cells
  <2>5. Waiting(r, i)'
    <3>1. ASSUME NEW d \in Consumers, i \in Uncopied(r, d) PROVE i \in Uncopied(r, d)'
      <4>1. CASE d = c
        <5>1. r = p /\ i \in Span(c) /\ i \in Int
          BY <1>2, <3>1, <4>1 DEF Uncopied, Pending
        <5>2. BlockNo(i) # n
          BY <1>7, <2>4, <5>1
        <5> QED BY <1>3, <1>5, <4>1, <5>1, <5>2 DEF Uncopied, Pending, Span, Number, Working
      <4>2. CASE d # c
        <5>1. take'[d] = take[d]
          BY <1>5, <4>2
        <5> QED BY <3>1, <5>1 DEF Uncopied, Pending, Span, Number
      <4> QED BY <4>1, <4>2
    <3> QED BY <1>5, <2>3, <3>1 DEF Waiting
  <2>6. Entry(r, BlockNo(i))' = Entry(r, BlockNo(i))
    BY <1>10, <2>3
  <2> QED BY <2>1, <2>2, <2>3, <2>5, <2>6 DEF Holds
<1> QED BY <1>15, <1>16 DEF CellInv

(* The call counts them, and goes on or is about to release the block.       *)
LEMMA SetEmptyMoves ==
  ASSUME IInv, BlockInv, NEW c \in Consumers, SetEmpty(c)
  PROVE  /\ take[c].pc = "empty" /\ UNCHANGED <<q, entry, plan, fresh, free, away>>
         /\ \A d \in Consumers \ {c} : take'[d] = take[d]
         /\ \A r \in Producers : Pending(r, c)' = Later(r, c)
         /\ take'[c].pc # "empty"
         /\ ~q[take[c].prod].isExplicit /\ blk[take[c].block].done + Cardinality(Part(c)) = BLOCK_SIZE
              => /\ take'[c].pc = "release" /\ take'[c].prod = take[c].prod
                 /\ Number(c)' = Number(c)
<1>1. /\ take[c].pc = "empty" /\ take[c].pc \in Working /\ DOMAIN take = Consumers
      /\ UNCHANGED <<q, entry, plan, fresh, free, away>>
  BY Basics DEF SetEmpty, In, Working, pool
<1>2. IF ~q[take[c].prod].isExplicit /\ blk[take[c].block].done + Cardinality(Part(c)) = BLOCK_SIZE
        THEN take' = [take EXCEPT ![c] = [take[c] EXCEPT !.pc = "release"]] ELSE NextPart(c)
  BY DEF SetEmpty, Go, Prod
<1>3. CASE ~q[take[c].prod].isExplicit /\ blk[take[c].block].done + Cardinality(Part(c)) = BLOCK_SIZE
  <2>1. take[c] \in [pc : {"empty", "release"}, prod : Producers, got : {take[c].got},
                     index : {take[c].index}, slot : {take[c].slot}, block : {take[c].block}]
    BY <1>1 DEF IInv, TypeOK, TakeOK, NoCall
  <2>2. take' = [take EXCEPT ![c] = [take[c] EXCEPT !.pc = "release"]]
    BY <1>2, <1>3
  <2>3. /\ take'[c].pc = "release" /\ take'[c].prod = take[c].prod
        /\ take'[c].index = take[c].index /\ take'[c].got = take[c].got
        /\ \A d \in Consumers \ {c} : take'[d] = take[d]
    BY <1>1, <2>1, <2>2
  <2>4. Number(c)' = Number(c)
    BY <2>3 DEF Number
  <2>5. \A r \in Producers : Pending(r, c)' = Later(r, c)
    BY <2>3 DEF Pending, Later, Span, Number, Working
  <2> QED BY <1>1, <2>3, <2>4, <2>5
<1>4. CASE ~(~q[take[c].prod].isExplicit
             /\ blk[take[c].block].done + Cardinality(Part(c)) = BLOCK_SIZE)
  <2>1. NextPart(c)
    BY <1>2, <1>4
  <2>2. take'[c].pc # "empty"
    BY <1>1, <2>1 DEF NextPart, Go, NoCall
  <2>3. take[c].slot = Number(c) % IndexSize(take[c].prod)
    BY <1>1 DEF BlockInv, CallOK, Placed
  <2>4. /\ \A d \in Consumers \ {c} : take'[d] = take[d]
        /\ \A r \in Producers : Pending(r, c)' = Later(r, c)
    BY <1>1, <2>1, <2>3, AfterPart
  <2> QED BY <1>1, <1>4, <2>2, <2>4
<1> QED BY <1>3, <1>4

LEMMA SetEmptyCells ==
  ASSUME IInv, IInv', BlockInv, BlockInv', CellInv, NEW c \in Consumers, SetEmpty(c)
  PROVE  CellInv'
<1>1. /\ take[c].pc = "empty" /\ UNCHANGED <<q, entry>> /\ take'[c].pc # "empty"
      /\ \A d \in Consumers \ {c} : take'[d] = take[d]
      /\ \A r \in Producers : Pending(r, c)' = Later(r, c)
  BY SetEmptyMoves
<1>2. \A b \in Blocks : blk'[b].cell = blk[b].cell
  BY DEF BlockInv, Structure, SetEmpty
<1>3. \A r \in Producers : Uncopied(r, c)' = Uncopied(r, c)
  BY <1>1 DEF Uncopied, Pending, Later, Working
<1>4. \A r \in Producers : \A n : Entry(r, n)' = Entry(r, n)
  BY <1>1 DEF Entry, IndexSize
<1> QED BY <1>1, <1>2, <1>3, <1>4, TakeStep

(* An entry is written that is not one of a block up to the tail block.      *)
LEMMA EntryKept ==
  ASSUME IInv, BlockInv, NEW p \in Producers, NEW s \in 0 .. IndexSize(p) - 1,
         NEW e \in [key : Int, block : Blocks \cup {NoBlock}],
         entry' = [entry EXCEPT ![p][s] = e], e.block = NoBlock \/ e.key > TailNo(p),
         \A r \in Producers : q'[r].isExplicit = q[r].isExplicit
  PROVE  \A r \in Producers : \A n \in Nat :
           n <= TailNo(r) /\ LiveOK(r, n)' => Entry(r, n)'.block = Entry(r, n).block
<1> SUFFICES ASSUME NEW r \in Producers, NEW n \in Nat, n <= TailNo(r), LiveOK(r, n)'
             PROVE  Entry(r, n)'.block = Entry(r, n).block
  OBVIOUS
<1>1. /\ \A x \in Producers \ {p} : entry'[x] = entry[x]
      /\ entry'[p][s] = e /\ \A u \in 0 .. IndexSize(p) - 1 : u # s => entry'[p][u] = entry[p][u]
  BY OneEntry
<1>2. IndexSize(r)' = IndexSize(r) /\ n % IndexSize(r) \in 0 .. IndexSize(r) - 1
  BY SlotIn DEF IndexSize
<1>3. Entry(r, n)'.key = n /\ Entry(r, n)'.block \in Blocks /\ NoBlock \notin Blocks
  BY QueueAssumption DEF LiveOK
<1>4. TailNo(p) \in Int /\ e.key \in Int
  BY Basics
<1>5. ~(r = p /\ n % IndexSize(p) = s)
  <2>1. SUFFICES ASSUME r = p, n % IndexSize(p) = s PROVE FALSE
    OBVIOUS
  <2>2. Entry(r, n)' = e
    BY <1>1, <1>2, <2>1 DEF Entry
  <2>3. e.key = n /\ e.block # NoBlock
    BY <1>3, <2>2
  <2> QED BY <1>4, <2>1, <2>3
<1> QED BY <1>1, <1>2, <1>5 DEF Entry

(* The call releases the block.                                              *)
LEMMA ReleaseCells ==
  ASSUME IInv, IInv', BlockInv, BlockInv', CellInv, NEW c \in Consumers, Release(c)
  PROVE  CellInv'
<1>1. take[c].pc = "release" /\ take[c].pc \in Working /\ NextPart(c) /\ UNCHANGED <<q, blk>>
  BY DEF Release, GiveUp, In, Working
<1>2. PICK p \in Producers : p = take[c].prod
  BY <1>1, CallAt
<1>3. PICK s \in 0 .. IndexSize(p) - 1 : s = take[c].slot /\ s = Number(c) % IndexSize(p)
  <2>1. take[c].slot = Number(c) % IndexSize(p) /\ Number(c) \in Int
    BY <1>1, <1>2, CallAt DEF BlockInv, CallOK, Placed
  <2> QED BY <2>1, SlotIn
<1>4. PICK e \in [key : Int, block : Blocks \cup {NoBlock}] :
        e.block = NoBlock /\ entry' = [entry EXCEPT ![p][s] = e]
  <2>1. entry[p] \in [0 .. IndexSize(p) - 1 -> [key : Int, block : Blocks \cup {NoBlock}]]
    BY DEF BlockInv, Structure
  <2>2. entry' = [entry EXCEPT ![p][s].block = NoBlock]
    BY <1>2, <1>3 DEF Release, GiveUp, Prod
  <2>3. entry[p][s] \in [key : Int, block : Blocks \cup {NoBlock}]
    BY <2>1
  <2>4. PICK e : e = [entry[p][s] EXCEPT !.block = NoBlock]
    OBVIOUS
  <2>5. e \in [key : Int, block : Blocks \cup {NoBlock}] /\ e.block = NoBlock
    BY <2>3, <2>4
  <2> QED BY <2>2, <2>4, <2>5
<1>5. \A r \in Producers : \A n \in Nat :
        n <= TailNo(r) /\ LiveOK(r, n)' => Entry(r, n)'.block = Entry(r, n).block
  BY <1>1, <1>4, EntryKept
<1>6. /\ \A d \in Consumers \ {c} : take'[d] = take[d]
      /\ \A r \in Producers : Pending(r, c)' = Later(r, c)
  BY <1>1, <1>2, <1>3, AfterPart
<1>7. \A r \in Producers : Uncopied(r, c)' = Uncopied(r, c)
  <2>1. \A r \in Producers : Uncopied(r, c)' = Later(r, c)
    <3>1. DOMAIN take = Consumers
      BY Basics
    <3>2. take'[c].pc # "empty"
      BY <1>1, <3>1 DEF NextPart, Go, NoCall
    <3> QED BY <1>6, <3>2 DEF Uncopied
  <2>2. \A r \in Producers : Later(r, c) = Uncopied(r, c)
    BY <1>1 DEF Uncopied, Pending, Later
  <2> QED BY <2>1, <2>2
<1> QED BY <1>1, <1>5, <1>6, <1>7, TakeStep

(* A step of an enqueue that shows no element.                               *)
LEMMA PlanStep ==
  ASSUME IInv, IInv', BlockInv, BlockInv', CellInv, NEW p \in Producers,
         UNCHANGED take, \A r \in Producers \ {p} : q'[r] = q[r],
         q'[p].isExplicit = q[p].isExplicit, q'[p].tail = q[p].tail, q'[p].head = q[p].head,
         \A b \in Blocks : blk'[b].cell = blk[b].cell,
         \A r \in Producers : \A n \in Nat :
           n <= TailNo(r) /\ LiveOK(r, n)' => Entry(r, n)'.block = Entry(r, n).block
  PROVE  CellInv'
<1>1. \A r \in Producers : q'[r].tail = q[r].tail /\ q'[r].head = q[r].head
  OBVIOUS
<1>2. \A c \in Consumers : \A r \in Producers : Uncopied(r, c)' = Uncopied(r, c)
  BY DEF Uncopied, Pending, Span, Number
<1>3. \A r \in Producers : \A i \in Nat : Waiting(r, i)' <=> Waiting(r, i)
  BY <1>1, <1>2 DEF Waiting
<1> QED BY <1>1, <1>3, CellStep

(* The count of one block is written.                                        *)
LEMMA CountOnly ==
  ASSUME BlockInv, NEW b, NEW m, blk' = [blk EXCEPT ![b].done = m]
  PROVE  \A c \in Blocks : blk'[c].cell = blk[c].cell
<1>1. blk \in [Blocks -> [cell : [0 .. BLOCK_SIZE - 1 -> Cells], done : 0 .. BLOCK_SIZE]]
  BY DEF BlockInv, Structure
<1> QED BY <1>1

(* The key of the next entry.                                                *)
LEMMA InsertKeyCells ==
  ASSUME IInv, IInv', BlockInv, BlockInv', CellInv, NEW p \in Producers, InsertKey(p)
  PROVE  CellInv'
<1>1. UNCHANGED <<blk, take>> /\ plan[p].pc # "idle"
  BY DEF InsertKey, InsertKey_Overwrites, Growing, At
<1>2. PICK s : s = Slot(p, q[p].last + 1)
  OBVIOUS
<1>3. entry' = [entry EXCEPT ![p][s].key = NewKey(p)] /\ q' = [q EXCEPT ![p].last = s]
  BY <1>2 DEF InsertKey, InsertKey_Overwrites
<1>4. /\ \A r \in Producers \ {p} : q'[r] = q[r]
      /\ q'[p].isExplicit = q[p].isExplicit /\ q'[p].tail = q[p].tail /\ q'[p].head = q[p].head
      /\ IndexSize(p)' = IndexSize(p)
  BY <1>3, LastOnly
<1>5. \A r \in Producers : \A n \in Nat : Entry(r, n)'.block = Entry(r, n).block
  <2>1. DOMAIN entry = Producers
        /\ entry[p] \in [0 .. IndexSize(p) - 1 -> [key : Int, block : Blocks \cup {NoBlock}]]
    BY DEF BlockInv, Structure
  <2>2. /\ \A r \in Producers \ {p} : entry'[r] = entry[r]
        /\ entry'[p] = [entry[p] EXCEPT ![s].key = NewKey(p)]
    BY <1>3, <2>1
  <2>3. \A u \in DOMAIN entry[p] : entry'[p][u].block = entry[p][u].block
    BY <2>1, <2>2
  <2>4. ASSUME NEW r \in Producers, NEW n \in Nat PROVE Entry(r, n)'.block = Entry(r, n).block
    <3>1. IndexSize(r)' = IndexSize(r)
      BY <1>4 DEF IndexSize
    <3>2. n % IndexSize(r) \in 0 .. IndexSize(r) - 1
      BY SlotIn
    <3>3. CASE r = p
      BY <2>1, <2>3, <3>1, <3>2, <3>3 DEF Entry
    <3>4. CASE r # p
      BY <2>2, <3>1, <3>4 DEF Entry
    <3> QED BY <3>3, <3>4
  <2> QED BY <2>4
<1> QED BY <1>1, <1>4, <1>5, PlanStep

(* A new block goes into the next entry.                                     *)
LEMMA InstallBlockCells ==
  ASSUME IInv, IInv', BlockInv, BlockInv', CellInv, NEW p \in Producers, ~q[p].isExplicit,
         InstallBlock(p)
  PROVE  CellInv'
<1>1. plan[p].pc = "block" /\ plan[p].pc # "idle" /\ UNCHANGED <<q, take>>
  BY DEF InstallBlock, At
<1>2. PICK b \in Available :
        /\ blk' = [blk EXCEPT ![b].done = 0]
        /\ entry' = [entry EXCEPT ![p][q[p].last].block = b]
  BY ZenonT(60) DEF InstallBlock
<1>3. b \in Blocks
  BY <1>2, FromPool
<1>4. Built(p) \in Nat /\ TailNo(p) \in Int
  BY Lengths, Basics
<1>5. PICK x \in Int : x = TailNo(p) + Built(p) + 1
  BY <1>4
<1>6. PICK s \in 0 .. IndexSize(p) - 1 : s = x % IndexSize(p)
  BY <1>5, SlotIn
<1>7. q[p].last = s /\ entry[p][s].key = x
  BY <1>1, <1>5, <1>6 DEF BlockInv, Room
<1>8. PICK e \in [key : Int, block : Blocks \cup {NoBlock}] :
        e.key = x /\ entry' = [entry EXCEPT ![p][s] = e]
  <2>1. entry[p] \in [0 .. IndexSize(p) - 1 -> [key : Int, block : Blocks \cup {NoBlock}]]
    BY DEF BlockInv, Structure
  <2>2. entry[p][s] \in [key : Int, block : Blocks \cup {NoBlock}]
    BY <2>1
  <2>3. PICK e : e = [entry[p][s] EXCEPT !.block = b]
    OBVIOUS
  <2>4. e \in [key : Int, block : Blocks \cup {NoBlock}] /\ e.key = x
    BY <1>3, <1>7, <2>2, <2>3
  <2>5. entry' = [entry EXCEPT ![p][s] = e]
    BY <1>2, <1>7, <2>3
  <2> QED BY <2>4, <2>5
<1>9. e.key > TailNo(p)
  BY <1>4, <1>5, <1>8
<1>10. \A r \in Producers : \A n \in Nat :
         n <= TailNo(r) /\ LiveOK(r, n)' => Entry(r, n)'.block = Entry(r, n).block
  BY <1>1, <1>8, <1>9, EntryKept
<1>11. \A c \in Blocks : blk'[c].cell = blk[c].cell
  BY <1>2, CountOnly
<1> QED BY <1>1, <1>10, <1>11, PlanStep

(* A failed call takes its blocks out of the index again.                    *)
LEMMA ImplicitUndoCells ==
  ASSUME IInv, IInv', BlockInv, BlockInv', CellInv, NEW p \in Producers, ImplicitUndo(p)
  PROVE  CellInv'
<1>1. UNCHANGED <<blk, take>>
  BY DEF ImplicitUndo
<1>2. PICK gone : entry' = [entry EXCEPT ![p] = [s \in DOMAIN @ |->
                    IF @[s].block \in gone THEN [@[s] EXCEPT !.block = NoBlock] ELSE @[s]]]
  BY DEF ImplicitUndo
<1>3. PICK v : q' = [q EXCEPT ![p].last = v]
  BY DEF ImplicitUndo
<1>4. /\ \A r \in Producers \ {p} : q'[r] = q[r]
      /\ q'[p].isExplicit = q[p].isExplicit /\ q'[p].tail = q[p].tail /\ q'[p].head = q[p].head
      /\ IndexSize(p)' = IndexSize(p)
  BY <1>3, LastOnly
<1>5. ASSUME NEW r \in Producers, NEW n \in Nat, LiveOK(r, n)'
      PROVE  Entry(r, n)'.block = Entry(r, n).block
  <2>1. DOMAIN entry = Producers
        /\ entry[p] \in [0 .. IndexSize(p) - 1 -> [key : Int, block : Blocks \cup {NoBlock}]]
    BY DEF BlockInv, Structure
  <2>2. IndexSize(r)' = IndexSize(r)
    BY <1>4 DEF IndexSize
  <2>3. PICK s \in 0 .. IndexSize(r) - 1 : s = n % IndexSize(r)
    BY SlotIn
  <2>4. entry'[r][s].block # NoBlock
    BY <1>5, <2>2, <2>3, QueueAssumption DEF LiveOK, Entry
  <2>5. entry'[r][s].block = entry[r][s].block
    <3>1. CASE r # p
      BY <1>2, <2>1, <3>1
    <3>2. CASE r = p
      BY <1>2, <2>1, <2>4, <3>2
    <3> QED BY <3>1, <3>2
  <2> QED BY <2>2, <2>3, <2>5 DEF Entry
<1> QED BY <1>1, <1>4, <1>5, PlanStep

(* A block goes into the ring and behind the others in the index.            *)
LEMMA EnterCells ==
  ASSUME IInv, IInv', BlockInv, BlockInv', CellInv, NEW p \in Producers, q[p].isExplicit,
         ReuseAhead(p) \/ InjectBlock(p)
  PROVE  CellInv'
<1>1. plan[p].pc # "idle" /\ UNCHANGED take
  BY DEF ReuseAhead, InjectBlock, Injecting, Growing, At
<1>2. \A c \in Blocks : blk'[c].cell = blk[c].cell
  BY CountOnly DEF ReuseAhead, InjectBlock
<1>3. PICK l, b, ring, used : Enter(p, l, b, ring, used) /\ b \in Blocks
  <2>1. CASE ReuseAhead(p)
    BY <2>1 DEF ReuseAhead, CanReuse, BlockInv, Structure
  <2>2. CASE InjectBlock(p)
    BY <2>2, FromPool DEF InjectBlock
  <2> QED BY <2>1, <2>2
<1>4. /\ \A r \in Producers \ {p} : q'[r] = q[r]
      /\ q'[p].isExplicit = q[p].isExplicit /\ q'[p].tail = q[p].tail /\ q'[p].head = q[p].head
  BY <1>3, EnterOnly
<1>5. Built(p) \in Nat /\ TailNo(p) \in Int /\ Built(p) = Len(plan[p].new)
  BY <1>1, Lengths, Basics DEF Built
<1>6. PICK x \in Int : x = TailNo(p) + Built(p) + 1
  BY <1>5
<1>7. PICK s \in 0 .. IndexSize(p) - 1 : s = x % IndexSize(p)
  BY <1>6, SlotIn
<1>8. q[p].front = s /\ NewKey(p) = x
  <2>1. q[p].front = (TailNo(p) + Built(p) + 1) % IndexSize(p)
    BY DEF BlockInv, Room
  <2>2. NewKey(p) = TailNo(p) + Built(p) + 1
    BY <1>5 DEF NewKey, TailNo
  <2> QED BY <1>6, <1>7, <2>1, <2>2
<1>9. PICK e \in [key : Int, block : Blocks \cup {NoBlock}] : e = [key |-> x, block |-> b]
  BY <1>3
<1>10. entry' = [entry EXCEPT ![p][s] = e] /\ e.key > TailNo(p)
  BY <1>3, <1>5, <1>6, <1>8, <1>9 DEF Enter
<1>11. \A r \in Producers : q'[r].isExplicit = q[r].isExplicit
  BY <1>4
<1>12. \A r \in Producers : \A n \in Nat :
         n <= TailNo(r) /\ LiveOK(r, n)' => Entry(r, n)'.block = Entry(r, n).block
  BY <1>10, <1>11, EntryKept
<1> QED BY <1>1, <1>2, <1>4, <1>12, PlanStep

(* Steps that leave the entries alone.                                       *)
LEMMA BesideCells ==
  ASSUME IInv, IInv', BlockInv, BlockInv', CellInv, NEW p \in Producers,
         \/ \E n \in Sizes : Begin(p, n)
         \/ ShowBlocks(p) \/ ExplicitUndo(p)
  PROVE  CellInv'
<1>1. UNCHANGED <<entry, take>>
  BY DEF Begin, ShowBlocks, ExplicitUndo
<1>2. \A b \in Blocks : blk'[b].cell = blk[b].cell
  <2>1. CASE blk' = blk
    BY <2>1
  <2>2. CASE ShowBlocks(p) /\ blk' # blk
    <3>1. blk \in [Blocks -> [cell : [0 .. BLOCK_SIZE - 1 -> Cells], done : 0 .. BLOCK_SIZE]]
      BY DEF BlockInv, Structure
    <3>2. blk' = [b \in Blocks |-> IF b \in ToSet(plan[p].new)
                                     THEN [blk[b] EXCEPT !.done = 0] ELSE blk[b]]
      BY <2>2 DEF ShowBlocks
    <3> QED BY <3>1, <3>2
  <2> QED BY <2>1, <2>2 DEF Begin, ExplicitUndo
<1>3. /\ \A r \in Producers \ {p} : q'[r] = q[r]
      /\ q'[p].isExplicit = q[p].isExplicit /\ q'[p].tail = q[p].tail /\ q'[p].head = q[p].head
  <2>1. CASE \E n \in Sizes : Begin(p, n)
    BY <2>1 DEF Begin
  <2>2. CASE ShowBlocks(p)
    BY <2>2, LastOnly DEF ShowBlocks
  <2>3. CASE ExplicitUndo(p)
    <3>1. PICK f, u, w, ring :
            q' = [q EXCEPT ![p].front = f, ![p].used = u, ![p].undone = w, ![p].ring = ring]
      BY <2>3 DEF ExplicitUndo
    <3> QED BY <3>1, UndoOnly
  <2> QED BY <2>1, <2>2, <2>3
<1>4. \A r \in Producers : \A n : Entry(r, n)' = Entry(r, n)
  BY <1>1, <1>3 DEF IndexSize, Entry
<1> QED BY <1>1, <1>2, <1>3, <1>4, PlanStep

(* Other producers, or nobody.                                               *)
LEMMA IdleCells ==
  ASSUME CellInv, UNCHANGED <<q, entry, blk, take>>
  PROVE  CellInv'
<1>1. \A p \in Producers : \A c \in Consumers : Uncopied(p, c)' = Uncopied(p, c)
  BY DEF Uncopied, Pending, Span, Number
<1>2. \A p \in Producers : \A i : Waiting(p, i)' <=> Waiting(p, i)
  BY <1>1 DEF Waiting
<1>3. \A p \in Producers : \A n : Entry(p, n)' = Entry(p, n)
  BY DEF Entry, IndexSize
<1>4. \A p \in Producers : \A i, b, o : Holds(p, i, b, o)' <=> Holds(p, i, b, o)
  BY <1>2, <1>3 DEF Holds
<1>5. blk' = blk
  OBVIOUS
<1>6. ASSUME NEW p \in Producers, NEW i \in Nat, Waiting(p, i)'
      PROVE  blk'[Entry(p, BlockNo(i))'.block].cell[i % BLOCK_SIZE] = <<p, i>>
  BY <1>2, <1>3, <1>5, <1>6 DEF CellInv
<1>7. ASSUME NEW b \in Blocks, NEW o \in 0 .. BLOCK_SIZE - 1, blk'[b].cell[o] # Hole
      PROVE  \E p \in Producers : \E i \in Nat : blk'[b].cell[o] = <<p, i>> /\ Holds(p, i, b, o)'
  BY <1>4, <1>5, <1>7 DEF CellInv
<1> QED BY <1>6, <1>7 DEF CellInv

(* At first there is no element.                                             *)
LEMMA InitCells ==
  ASSUME Init
  PROVE  CellInv
<1>1. \A p \in Producers : \A i \in Nat : ~Waiting(p, i)
  BY DEF Init, Waiting
<1>2. \A b \in Blocks : \A o \in 0 .. BLOCK_SIZE - 1 : blk[b].cell[o] = Hole
  BY DEF Init
<1> QED BY <1>1, <1>2 DEF CellInv

(* A block that is in use, or that an enqueue got.                           *)
Held(p, n) ==
  \/ Used(p, n)
  \/ plan[p].pc # "idle" /\ \E k \in 1 .. Built(p) : n = TailNo(p) + k

(* Two blocks that one enqueue got are different.                            *)
LEMMA NewDistinct ==
  ASSUME IInv, BlockInv, NEW p \in Producers, plan[p].pc # "idle",
         NEW k \in 1 .. Built(p), NEW l \in 1 .. Built(p), plan[p].new[k] = plan[p].new[l]
  PROVE  k = l
<1>1. /\ NewOK(p, k) /\ NewOK(p, l) /\ TailNo(p) + k \in Int /\ TailNo(p) + l \in Int
      /\ plan[p].new[k] \in Blocks
  BY NewFacts
<1>2. TailNo(p) \in Int /\ Built(p) \in Nat /\ Len(q[p].ring) \in Nat
  BY Basics, Lengths
<1>3. CASE q[p].isExplicit
  <2>1. Built(p) <= Len(q[p].ring)
    BY <1>3 DEF BlockInv, Building
  <2>2. PICK i \in Int, j \in Int :
          i = Len(q[p].ring) - Built(p) + k /\ j = Len(q[p].ring) - Built(p) + l
    BY <1>2, SMTT(60)
  <2>3. i \in 1 .. Len(q[p].ring) /\ j \in 1 .. Len(q[p].ring)
    <3>1. PICK L \in Nat, B \in Nat : L = Len(q[p].ring) /\ B = Built(p)
      BY <1>2
    <3>2. k \in 1 .. B /\ l \in 1 .. B /\ B <= L /\ i = L - B + k /\ j = L - B + l
      BY <2>1, <2>2, <3>1
    <3>3. i \in 1 .. L /\ j \in 1 .. L
      BY <3>2
    <3> QED BY <3>1, <3>3
  <2>4. q[p].ring[i] = plan[p].new[k] /\ q[p].ring[j] = plan[p].new[l]
    BY <1>1, <1>3, <2>2 DEF NewOK
  <2>5. i = j
    BY <1>3, <2>3, <2>4 DEF BlockInv, Room
  <2> QED BY <1>2, <2>2, <2>5
<1>4. CASE ~q[p].isExplicit
  <2>1. PICK m \in Int, n \in Int : m = TailNo(p) + k /\ n = TailNo(p) + l
    BY <1>1
  <2>2. m % IndexSize(p) \in 0 .. IndexSize(p) - 1 /\ n % IndexSize(p) \in 0 .. IndexSize(p) - 1
    BY SlotIn
  <2>3. /\ Entry(p, m).key = m /\ Entry(p, n).key = n
        /\ Entry(p, m).block = Entry(p, n).block /\ Entry(p, m).block # NoBlock
    BY <1>1, <2>1, QueueAssumption DEF NewOK
  <2>4. m % IndexSize(p) = n % IndexSize(p)
    BY <1>4, <2>2, <2>3 DEF BlockInv, Room, Entry
  <2>5. m = n
    BY <2>3, <2>4 DEF Entry
  <2> QED BY <1>2, <2>1, <2>5
<1> QED BY <1>3, <1>4

(* No two numbers have the same block.                                       *)
LEMMA HeldApart ==
  ASSUME IInv, BlockInv, NEW p \in Producers, NEW n, Held(p, n),
         NEW r \in Producers, NEW m, Held(r, m), Entry(p, n).block = Entry(r, m).block
  PROVE  p = r /\ n = m
<1>1. ASSUME NEW x \in Producers, NEW k \in 1 .. Built(x), plan[x].pc # "idle"
      PROVE  Entry(x, TailNo(x) + k).block = plan[x].new[k] /\ plan[x].new[k] \in Attached(x)
  BY <1>1, NewFacts DEF NewOK
<1>2. CASE Used(p, n) /\ Used(r, m)
  BY <1>2, UsedApart
<1>3. CASE Used(p, n) /\ ~Used(r, m)
  BY <1>1, <1>3, NewApart DEF Held
<1>4. CASE ~Used(p, n) /\ Used(r, m)
  BY <1>1, <1>4, NewApart DEF Held
<1>5. CASE ~Used(p, n) /\ ~Used(r, m)
  BY <1>1, <1>5, NewDistinct DEF Held, BlockInv, Pools
<1> QED BY <1>2, <1>3, <1>4, <1>5

(* The call that fills knows the blocks of its elements.                     *)
LEMMA FillBlock ==
  ASSUME IInv, BlockInv, NEW p \in Producers, plan[p].pc = "fill",
         NEW i \in q[p].tail .. (q[p].tail + plan[p].n - 1)
  PROVE  /\ i \in Nat /\ BlockNo(i) \in Nat /\ Held(p, BlockNo(i))
         /\ BlockOf(p, i) = Entry(p, BlockNo(i)).block /\ Entry(p, BlockNo(i)).block \in Blocks
<1>1. Structure /\ Room(p) /\ Building(p) /\ Live(p)
  BY DEF BlockInv
<1>2. plan[p].n \in Nat \ {0} /\ q[p].tail \in Nat /\ q[p].head \in Nat /\ q[p].head <= q[p].tail
  BY <1>1, Basics DEF Structure
<1>3. i \in Nat /\ i >= q[p].head
  BY <1>2
<1>4. BlockNo(i) \in Nat
  BY <1>3, BlockNumbers
<1>5. TailNo(p) \in Int /\ Built(p) \in Nat /\ Len(q[p].ring) \in Nat /\ q[p].ring \in Seq(Blocks)
      /\ Built(p) = Len(plan[p].new)
  BY Basics, Lengths DEF Built
<1>6. TailNo(p) <= BlockNo(i) /\ BlockNo(i) <= TailNo(p) + Built(p)
  <2>0. PICK x \in Nat, y \in Nat \ {0} : x = q[p].tail /\ y = plan[p].n
    BY <1>2
  <2>1. PICK a \in Int, z \in Int : /\ a = x - 1 /\ z = x + y - 1
                                   /\ a = q[p].tail - 1 /\ z = q[p].tail + plan[p].n - 1
    BY <2>0
  <2>2. a <= i /\ i <= z
    BY <2>0, <2>1
  <2>3. BlockNo(a) <= BlockNo(i) /\ BlockNo(i) <= BlockNo(z) /\ BlockNo(z) \in Int
    <3>1. i \in Int
      BY <1>3
    <3> QED BY <2>2, <3>1, BlockNumbers
  <2>4. BlockNo(a) = TailNo(p)
    BY <2>1 DEF TailNo
  <2>5. Built(p) = BlockNo(z) - TailNo(p)
    BY <1>1, <2>1 DEF Building
  <2> QED BY <1>4, <1>5, <2>3, <2>4, <2>5
<1>7. PICK k \in Int : k = BlockNo(i) - TailNo(p) /\ k \in 0 .. Built(p) /\ BlockNo(i) = TailNo(p) + k
  BY <1>4, <1>5, <1>6
<1>8. BlockOf(p, i) = IF k = 0 THEN Last(plan[p].start) ELSE plan[p].new[k]
  BY <1>7 DEF BlockOf, TailNo
<1>9. CASE k = 0
  <2>1. BlockNo(i) = TailNo(p)
    BY <1>5, <1>7, <1>9
  <2>2. i \in Rem(p, BlockNo(i))
    BY <1>3 DEF Rem
  <2>3. Used(p, BlockNo(i)) /\ LiveOK(p, BlockNo(i))
    BY <1>1, <1>4, <1>5, <2>1, <2>2 DEF Used, Live
  <2>4. Last(plan[p].start) = Entry(p, BlockNo(i)).block
    <3>1. CASE q[p].isExplicit
      <4>1. Place(p, BlockNo(i)) >= 1 /\ q[p].ring[Place(p, BlockNo(i))] = Entry(p, BlockNo(i)).block
        BY <2>3, <3>1 DEF LiveOK
      <4>2. Place(p, BlockNo(i)) = Len(q[p].ring) - Built(p)
        <5>1. PICK L \in Nat, B \in Nat, T \in Int : L = Len(q[p].ring) /\ B = Built(p) /\ T = TailNo(p)
          BY <1>5
        <5>2. Place(p, BlockNo(i)) = L - B - (T - T)
          BY <2>1, <5>1 DEF Place
        <5>3. L - B - (T - T) = L - B
          OBVIOUS
        <5> QED BY <5>1, <5>2, <5>3
      <4>3. Built(p) < Len(q[p].ring)
        BY <1>5, <4>1, <4>2
      <4>4. plan[p].start # <<>>
        BY <1>1, <1>5, <3>1, <4>3 DEF Building
      <4>5. q[p].ring[Len(q[p].ring) - Built(p)] = plan[p].start[Len(plan[p].start)]
        BY <1>1, <3>1, <4>3, <4>4 DEF Building
      <4> QED BY <4>1, <4>2, <4>5 DEF Last
    <3>2. CASE ~q[p].isExplicit
      <4>1. q[p].ring[Len(q[p].ring)] = Entry(p, BlockNo(i)).block
        BY <2>1, <2>3, <3>2 DEF LiveOK
      <4>2. plan[p].start = q[p].ring
        BY <1>1, <3>2 DEF Building
      <4> QED BY <4>1, <4>2 DEF Last
    <3> QED BY <3>1, <3>2
  <2>5. BlockOf(p, i) = Last(plan[p].start)
    BY <1>8, <1>9
  <2> QED BY <1>3, <1>4, <2>3, <2>4, <2>5 DEF LiveOK, Held
<1>10. CASE k # 0
  <2>1. k \in 1 .. Built(p)
    BY <1>5, <1>7, <1>10
  <2>2. NewOK(p, k) /\ plan[p].new[k] \in Blocks
    BY <2>1, NewFacts
  <2>3. Held(p, BlockNo(i))
    BY <1>7, <2>1 DEF Held
  <2>4. BlockOf(p, i) = plan[p].new[k]
    BY <1>8, <1>10
  <2>5. Entry(p, BlockNo(i)).block = plan[p].new[k]
    BY <1>7, <2>2 DEF NewOK
  <2> QED BY <1>3, <1>4, <2>2, <2>3, <2>4, <2>5
<1> QED BY <1>7, <1>9, <1>10

(* The cells after a fill.                                                   *)
Filled(p) == q[p].tail .. (q[p].tail + plan[p].n - 1)
FilledAt(p, b, o) == {i \in Filled(p) : BlockOf(p, i) = b /\ i % BLOCK_SIZE = o}
LEMMA CellWritten ==
  ASSUME BlockInv, NEW p \in Producers, Fill(p), NEW b \in Blocks, NEW o \in 0 .. BLOCK_SIZE - 1
  PROVE  blk'[b].cell[o] = IF FilledAt(p, b, o) = {} THEN blk[b].cell[o]
                           ELSE <<p, CHOOSE i \in FilledAt(p, b, o) : TRUE>>
<1> DEFINE new(u) == IF FilledAt(p, b, u) = {} THEN blk[b].cell[u]
                     ELSE <<p, CHOOSE i \in FilledAt(p, b, u) : TRUE>>
<1>1. blk[b] \in [cell : [0 .. BLOCK_SIZE - 1 -> Cells], done : 0 .. BLOCK_SIZE]
      /\ DOMAIN blk[b].cell = 0 .. BLOCK_SIZE - 1
  BY DEF BlockInv, Structure
<1>2. blk'[b] = [blk[b] EXCEPT !.cell = [u \in DOMAIN @ |-> new(u)]]
  BY DEF Fill, FilledAt, Filled
<1> HIDE DEF new
<1>3. blk'[b] = [blk[b] EXCEPT !.cell = [u \in 0 .. BLOCK_SIZE - 1 |-> new(u)]]
  BY <1>1, <1>2
<1>4. PICK f : f = [u \in 0 .. BLOCK_SIZE - 1 |-> new(u)]
  OBVIOUS
<1>5. blk'[b].cell = f
  BY <1>1, <1>3, <1>4
<1>6. f[o] = new(o)
  BY <1>4
<1> QED BY <1>5, <1>6 DEF new

(* What a fill leaves in a cell that is to hold the element i of r.          *)
LEMMA CellAfter ==
  ASSUME IInv, BlockInv, NEW p \in Producers, plan[p].pc = "fill", Fill(p),
         NEW r \in Producers, NEW i \in Nat, Held(r, BlockNo(i)),
         Entry(r, BlockNo(i)).block \in Blocks
  PROVE  blk'[Entry(r, BlockNo(i)).block].cell[i % BLOCK_SIZE] =
           IF r = p /\ i \in Filled(p) THEN <<p, i>>
           ELSE blk[Entry(r, BlockNo(i)).block].cell[i % BLOCK_SIZE]
<1>1. ASSUME NEW j \in Filled(p)
      PROVE  /\ j \in Nat /\ Held(p, BlockNo(j)) /\ BlockOf(p, j) = Entry(p, BlockNo(j)).block
             /\ BlockNo(j) \in Nat
  BY FillBlock DEF Filled
<1>2. PICK b \in Blocks, o \in 0 .. BLOCK_SIZE - 1 :
        b = Entry(r, BlockNo(i)).block /\ o = i % BLOCK_SIZE
  BY BlockNumbers
<1>3. ASSUME NEW j \in FilledAt(p, b, o) PROVE r = p /\ j = i /\ j \in Filled(p)
  <2>1. j \in Filled(p) /\ BlockOf(p, j) = b /\ j % BLOCK_SIZE = o
    BY DEF FilledAt
  <2>2. r = p /\ BlockNo(j) = BlockNo(i)
    BY <1>1, <1>2, <2>1, HeldApart
  <2>3. j \in Int /\ i \in Int
    BY <1>1, <2>1
  <2>4. /\ j % BLOCK_SIZE = j - BLOCK_SIZE * BlockNo(j) /\ i % BLOCK_SIZE = i - BLOCK_SIZE * BlockNo(i)
        /\ BlockNo(i) \in Int /\ BLOCK_SIZE \in Nat
    BY <2>3, BlockNumbers
  <2>5. PICK x \in Int : x = BLOCK_SIZE * BlockNo(i)
    BY <2>4
  <2>6. j - x = i - x
    BY <1>2, <2>1, <2>2, <2>4, <2>5
  <2> QED BY <2>1, <2>2, <2>3, <2>6
<1>4. r = p /\ i \in Filled(p) => i \in FilledAt(p, b, o)
  BY <1>1, <1>2 DEF FilledAt
<1>5. blk'[b].cell[o] = IF FilledAt(p, b, o) = {} THEN blk[b].cell[o]
                        ELSE <<p, CHOOSE j \in FilledAt(p, b, o) : TRUE>>
  BY CellWritten
<1>6. blk'[b].cell[o] = IF r = p /\ i \in Filled(p) THEN <<p, i>> ELSE blk[b].cell[o]
  <2>1. CASE r = p /\ i \in Filled(p)
    BY <1>3, <1>4, <1>5, <2>1
  <2>2. CASE ~(r = p /\ i \in Filled(p))
    BY <1>3, <1>5, <2>2
  <2> QED BY <2>1, <2>2
<1> QED BY <1>2, <1>6

(* The elements go into the cells of their indices, and nowhere else.        *)
LEMMA FillCells ==
  ASSUME IInv, IInv', BlockInv, BlockInv', CellInv, NEW p \in Producers, Fill(p)
  PROVE  CellInv'
<1>1. plan[p].pc = "fill" /\ UNCHANGED <<entry, take>>
  BY DEF Fill, At
<1>2. /\ \A r \in Producers \ {p} : q'[r] = q[r]
      /\ q'[p].isExplicit = q[p].isExplicit /\ q'[p].tail = q[p].tail + plan[p].n
      /\ q'[p].head = q[p].head
  BY DEF IInv, TypeOK, Fill, QueueOK
<1>3. \A r \in Producers : \A n : Entry(r, n)' = Entry(r, n)
  BY <1>1, <1>2 DEF Entry, IndexSize
<1>4. PICK x \in Nat, y \in Nat, h \in Nat :
        x = q[p].tail /\ y = plan[p].n /\ h = q[p].head /\ h <= x
  BY <1>1, Basics DEF BlockInv, Structure
<1>5. ASSUME NEW r \in Producers, NEW i \in Nat
      PROVE  Waiting(r, i)' <=> Waiting(r, i) \/ (r = p /\ i \in Filled(p))
  <2>1. \A c \in Consumers : Uncopied(r, c)' = Uncopied(r, c)
    BY <1>1 DEF Uncopied, Pending, Span, Number
  <2>2. CASE r # p
    BY <1>2, <2>1, <2>2 DEF Waiting
  <2>3. CASE r = p
    BY <1>2, <1>4, <2>1, <2>3 DEF Filled, Waiting
  <2> QED BY <2>2, <2>3
<1>6. ASSUME NEW r \in Producers, NEW i \in Nat, Waiting(r, i)'
      PROVE  blk'[Entry(r, BlockNo(i))'.block].cell[i % BLOCK_SIZE] = <<r, i>>
  <2>1. Waiting(r, i) \/ (r = p /\ i \in Filled(p))
    BY <1>5, <1>6
  <2>2. Held(r, BlockNo(i)) /\ Entry(r, BlockNo(i)).block \in Blocks
    <3>1. CASE r = p /\ i \in Filled(p)
      BY <1>1, <3>1, FillBlock DEF Filled
    <3>2. CASE Waiting(r, i)
      BY <3>2, WaitingUsed, UsedEntry DEF Held
    <3> QED BY <2>1, <3>1, <3>2
  <2>3. blk'[Entry(r, BlockNo(i)).block].cell[i % BLOCK_SIZE] =
          IF r = p /\ i \in Filled(p) THEN <<p, i>>
          ELSE blk[Entry(r, BlockNo(i)).block].cell[i % BLOCK_SIZE]
    BY <1>1, <2>2, CellAfter
  <2>4. CASE r = p /\ i \in Filled(p)
    BY <1>3, <2>3, <2>4
  <2>5. CASE ~(r = p /\ i \in Filled(p))
    BY <1>3, <2>1, <2>3, <2>5 DEF CellInv
  <2> QED BY <2>4, <2>5
<1>7. ASSUME NEW b \in Blocks, NEW o \in 0 .. BLOCK_SIZE - 1, blk'[b].cell[o] # Hole
      PROVE  \E r \in Producers : \E i \in Nat : blk'[b].cell[o] = <<r, i>> /\ Holds(r, i, b, o)'
  <2>1. blk'[b].cell[o] = IF FilledAt(p, b, o) = {} THEN blk[b].cell[o]
                          ELSE <<p, CHOOSE i \in FilledAt(p, b, o) : TRUE>>
    BY CellWritten
  <2>2. CASE FilledAt(p, b, o) = {}
    <3>1. PICK r \in Producers, i \in Nat : blk[b].cell[o] = <<r, i>> /\ Holds(r, i, b, o)
      BY <1>7, <2>1, <2>2 DEF CellInv
    <3>2. Holds(r, i, b, o)'
      BY <1>3, <1>5, <3>1 DEF Holds
    <3> QED BY <2>1, <2>2, <3>1, <3>2
  <2>3. CASE FilledAt(p, b, o) # {}
    <3>1. PICK i : i \in FilledAt(p, b, o) /\ blk'[b].cell[o] = <<p, i>>
      BY <2>1, <2>3
    <3>2. i \in Filled(p) /\ BlockOf(p, i) = b /\ i % BLOCK_SIZE = o
      BY <3>1 DEF FilledAt
    <3>3. i \in Nat /\ b = Entry(p, BlockNo(i)).block
      BY <1>1, <3>2, FillBlock DEF Filled
    <3>4. Holds(p, i, b, o)'
      BY <1>3, <1>5, <3>2, <3>3 DEF Holds
    <3> QED BY <3>1, <3>3, <3>4
  <2> QED BY <2>2, <2>3
<1> QED BY <1>6, <1>7 DEF CellInv

(* Every step keeps the elements in their cells.                             *)
LEMMA NextCells ==
  ASSUME IInv, BlockInv, CellInv, [Next]_vars
  PROVE  CellInv'
<1>1. IInv' /\ BlockInv'
  BY NextIInv, NextBlocks
<1>2. ASSUME NEW p \in Producers,
             IF q[p].isExplicit THEN ExplicitEnqueue(p) ELSE ImplicitEnqueue(p)
      PROVE  CellInv'
  <2>1. CASE (\E n \in Sizes : Begin(p, n)) \/ ShowBlocks(p)
    BY <1>1, <2>1, BesideCells
  <2>2. CASE Fill(p)
    BY <1>1, <2>2, FillCells
  <2>3. CASE InsertKey(p)
    BY <1>1, <2>3, InsertKeyCells
  <2>4. CASE q[p].isExplicit /\ (ReuseAhead(p) \/ InjectBlock(p) \/ ExplicitUndo(p))
    BY <1>1, <2>4, EnterCells, BesideCells
  <2>5. CASE ~q[p].isExplicit /\ (InstallBlock(p) \/ ImplicitUndo(p))
    BY <1>1, <2>5, InstallBlockCells, ImplicitUndoCells
  <2>6. CASE q[p].isExplicit
    BY <1>2, <2>1, <2>2, <2>4, <2>6 DEF ExplicitEnqueue
  <2>7. CASE ~q[p].isExplicit
    BY <1>2, <2>1, <2>2, <2>3, <2>5, <2>7 DEF ImplicitEnqueue
  <2> QED BY <2>6, <2>7
<1>3. ASSUME NEW c \in Consumers, NEW P \in SUBSET Producers, TakeFrom(c, P)
      PROVE  CellInv'
  <2>1. CASE (\E p \in P, max \in Sizes : Look(c, p, max)) \/ Claim(c) \/ Check(c) \/ GiveBack(c)
    BY <1>1, <2>1, EarlyCells
  <2>2. CASE Advance(c) \/ LoadLast(c) \/ LoadKey(c)
    BY <1>1, <2>2, AdvanceCells, FindCells
  <2>3. CASE CopyOut(c) \/ SetEmpty(c) \/ Release(c)
    BY <1>1, <2>3, CopyOutCells, SetEmptyCells, ReleaseCells
  <2> QED BY <1>3, <2>1, <2>2, <2>3 DEF TakeFrom
<1>4. CASE \E c \in Consumers : ImplicitDequeue(c) \/ ExplicitDequeue(c)
  BY <1>3, <1>4 DEF ImplicitDequeue, ExplicitDequeue
<1>5. CASE Borrow \/ Restore \/ UNCHANGED vars
  BY <1>5, IdleCells DEF Borrow, Restore, vars
<1> QED BY <1>2, <1>4, <1>5 DEF Next

(* A consumer that moves elements out of a block finds there the elements of  *)
(* the very indices it claimed: the index led it to their block, nobody       *)
(* overwrote the entry, and no block was emptied, used again or filled by     *)
(* somebody else meanwhile (concurrentqueue.h:2935).                          *)
THEOREM NobodyTakesAnothersElement == Spec => []RightElement
<1>1. ASSUME IInv, BlockInv, CellInv PROVE RightElement
  <2> SUFFICES ASSUME NEW c \in Consumers, take[c].pc = "copy"
               PROVE  /\ BlockAt(c) # NoBlock
                      /\ \A i \in Part(c) : blk[BlockAt(c)].cell[i % BLOCK_SIZE] = <<Prod(c), i>>
    BY DEF RightElement, In
  <2>1. take[c].pc \in Working /\ take[c].pc # "release" /\ take[c].pc \in Placed
    BY DEF Working, Placed
  <2>2. PICK p \in Producers : p = take[c].prod
    BY <1>1, <2>1, CallAt
  <2>3. PICK n \in Nat : n = Number(c)
    BY <1>1, <2>1, CallAt
  <2>4. BlockAt(c) = Entry(p, n).block
    <3>1. take[c].slot = n % IndexSize(p)
      BY <1>1, <2>1, <2>2, <2>3 DEF BlockInv, CallOK
    <3> QED BY <2>2, <3>1 DEF BlockAt, Entry, Prod
  <2>5. Used(p, n) /\ Part(c) \subseteq Pending(p, c)
    BY <1>1, <2>1, <2>2, <2>3, CallUses
  <2>6. Entry(p, n).block \in Blocks
    BY <1>1, <2>5, UsedEntry
  <2>7. ASSUME NEW i \in Part(c)
        PROVE  blk[Entry(p, n).block].cell[i % BLOCK_SIZE] = <<p, i>>
    <3>1. i \in Int /\ i \in Span(c) /\ BlockNo(i) = n
      BY <1>1, <2>1, <2>3, CallAt, PartOf
    <3>2. i \in Nat /\ i < q[p].head /\ q[p].head \in Nat /\ q[p].tail \in Nat /\ q[p].head <= q[p].tail
      BY <1>1, <2>1, <2>2, <3>1, CallAt, Basics
    <3>3. i \in Uncopied(p, c)
      BY <2>5 DEF Uncopied
    <3>4. i < q[p].tail
      BY <3>2
    <3>5. Waiting(p, i)
      BY <3>3, <3>4 DEF Waiting
    <3> QED BY <1>1, <3>1, <3>2, <3>5 DEF CellInv
  <2> QED BY <2>2, <2>4, <2>6, <2>7, QueueAssumption DEF Prod
<1>2. Init => IInv /\ BlockInv /\ CellInv
  BY InitIInv, InitBlocks, InitCells
<1>3. IInv /\ BlockInv /\ CellInv /\ [Next]_vars => IInv' /\ BlockInv' /\ CellInv'
  BY NextIInv, NextBlocks, NextCells
<1>4. IInv /\ BlockInv /\ CellInv => RightElement
  BY <1>1
<1> QED BY <1>2, <1>3, <1>4, PTL DEF Spec
-------------------------------------------------------------------------------
(* What is kept.  Every block has an owner.  An entry of an implicit producer *)
(* that has a block has one that is in use, or that the enqueue under way got. *)
(* In the ring of an explicit producer only blocks with elements to come or   *)
(* to go are not empty, and as long as no enqueue failed halfway, it counts   *)
(* them all as used, and their entries are in the index, one after another.   *)
Owned ==
  \A b \in Blocks : b \in fresh \cup free \cup away \/ \E p \in Producers : b \in Attached(p)
ImplicitKept(p) == ~q[p].isExplicit =>
  /\ Len(q[p].ring) <= 1
  /\ \A s \in 0 .. IndexSize(p) - 1 : entry[p][s].block # NoBlock =>
       Held(p, entry[p][s].key) /\ entry[p][s].key % IndexSize(p) = s
RingNo(p, j) == TailNo(p) - (Len(q[p].ring) - Built(p) - j)
Empty(b) == blk[b].done = BLOCK_SIZE
Spent(p, j) ==
  Empty(q[p].ring[j]) \/ (RingNo(p, j) \in Nat /\ Rem(p, RingNo(p, j)) # {})
OnlyUsed(p) ==
  /\ \A j \in 1 .. Len(q[p].ring) - Built(p) : Spent(p, j)
  /\ plan[p].pc \in {"grow", "inject"} => \A k \in 1 .. Built(p) : Empty(plan[p].new[k])
InOrder(p) ==
  /\ plan[p].pc # "idle" /\ Built(p) = 0 => plan[p].used = q[p].used
  /\ q[p].undone \/ /\ q[p].used = Len(q[p].ring)
                    /\ \A m \in Int : /\ m > TailNo(p) + Built(p) - Len(q[p].ring)
                                      /\ m <= TailNo(p) + Built(p)
                                      => Entry(p, m).key = m
ExplicitKept(p) == q[p].isExplicit => OnlyUsed(p) /\ InOrder(p)
Kept(p) == ImplicitKept(p) /\ ExplicitKept(p)
KeepInv == Owned /\ \A p \in Producers : Kept(p)

(* A producer whose state a step leaves alone.                               *)
SameQueue(r) ==
  /\ q'[r].isExplicit = q[r].isExplicit /\ q'[r].tail = q[r].tail /\ q'[r].ring = q[r].ring
  /\ q'[r].used = q[r].used /\ q'[r].undone = q[r].undone
  /\ plan'[r] = plan[r] /\ entry'[r] = entry[r]
LEMMA KeptSame ==
  ASSUME IInv, BlockInv, NEW r \in Producers, Kept(r), SameQueue(r),
         \A b \in Attached(r) : blk'[b].done = blk[b].done,
         \A n : Rem(r, n) # {} => Rem(r, n)' # {},
         \A n : Used(r, n) => Used(r, n)'
  PROVE  Kept(r)'
<1>1. /\ IndexSize(r)' = IndexSize(r) /\ TailNo(r)' = TailNo(r) /\ Built(r)' = Built(r)
      /\ q'[r].isExplicit = q[r].isExplicit /\ q'[r].ring = q[r].ring
      /\ plan'[r] = plan[r] /\ entry'[r] = entry[r]
  BY DEF SameQueue, IndexSize, TailNo, Built
<1>2. \A n : Entry(r, n)' = Entry(r, n) /\ RingNo(r, n)' = RingNo(r, n)
  BY <1>1 DEF Entry, RingNo
<1>3. ImplicitKept(r)'
  BY <1>1 DEF Held, Kept, ImplicitKept
<1>4. ASSUME q[r].isExplicit PROVE OnlyUsed(r)'
  <2>1. q[r].ring \in Seq(Blocks) /\ Len(q[r].ring) \in Nat /\ Built(r) \in Nat
    BY Lengths
  <2>2. ASSUME NEW j \in 1 .. Len(q[r].ring) - Built(r) PROVE Spent(r, j)'
    <3>1. q[r].ring[j] \in Attached(r)
      BY <1>4, <2>1 DEF Attached, ToSet
    <3>2. Spent(r, j)
      BY <1>4 DEF Kept, ExplicitKept, OnlyUsed
    <3> QED BY <1>1, <1>2, <3>1, <3>2 DEF Spent, Empty
  <2>3. ASSUME plan[r].pc \in {"grow", "inject"}, NEW k \in 1 .. Built(r)
        PROVE  Empty(plan[r].new[k])'
    <3>1. plan[r].new[k] \in Attached(r)
      BY <2>3, NewFacts
    <3>2. Empty(plan[r].new[k])
      BY <1>4, <2>3 DEF Kept, ExplicitKept, OnlyUsed
    <3> QED BY <1>1, <3>1, <3>2 DEF Empty
  <2> QED BY <1>1, <2>2, <2>3 DEF OnlyUsed
<1>5. ASSUME q[r].isExplicit PROVE InOrder(r)'
  <2>1. InOrder(r)
    BY <1>5 DEF Kept, ExplicitKept
  <2>2. q'[r].used = q[r].used /\ q'[r].undone = q[r].undone
    BY DEF SameQueue
  <2> QED BY <1>1, <1>2, <2>1, <2>2 DEF InOrder
<1> QED BY <1>1, <1>3, <1>4, <1>5 DEF Kept, ExplicitKept

(* Who owns what, as long as entries and rings are the same.                 *)
LEMMA OwnedSame ==
  ASSUME Owned, \A r \in Producers : SameQueue(r),
         fresh \cup free \cup away \subseteq fresh' \cup free' \cup away'
  PROVE  Owned'
<1>1. ASSUME NEW r \in Producers PROVE Attached(r)' = Attached(r)
  BY DEF SameQueue, Attached
<1> QED BY <1>1 DEF Owned

(* A step of a dequeue that counts no element and releases no block.         *)
LEMMA TakeKept ==
  ASSUME IInv, BlockInv, KeepInv, NEW c \in Consumers, \A r \in Producers : SameQueue(r),
         UNCHANGED <<fresh, free, away>>, \A b \in Blocks : blk'[b].done = blk[b].done,
         \A d \in Consumers \ {c} : take'[d] = take[d], take[c].pc # "release",
         \A r \in Producers : \A n : Rem(r, n) # {} => Rem(r, n)' # {}
  PROVE  KeepInv'
<1>1. Owned'
  BY OwnedSame DEF KeepInv
<1>2. ASSUME NEW r \in Producers PROVE Kept(r)'
  <2>1. ASSUME NEW n, Used(r, n) PROVE Used(r, n)'
    BY <2>1 DEF SameQueue, TailNo, Number, Used
  <2>2. \A b \in Attached(r) : blk'[b].done = blk[b].done
    BY AttachedBlocks
  <2>3. Kept(r) /\ SameQueue(r)
    BY DEF KeepInv
  <2> QED BY <2>1, <2>2, <2>3, KeptSame
<1> QED BY <1>1, <1>2 DEF KeepInv

LEMMA CountersKeep ==
  ASSUME IInv, NEW p \in Producers, NEW m,
         \/ q' = [q EXCEPT ![p].opt = m] \/ q' = [q EXCEPT ![p].over = m]
         \/ q' = [q EXCEPT ![p].head = m],
         UNCHANGED <<plan, entry>>
  PROVE  /\ \A r \in Producers : SameQueue(r)
         /\ (q' # [q EXCEPT ![p].head = m] => \A r \in Producers : q'[r].head = q[r].head)
         /\ (q' = [q EXCEPT ![p].head = m] =>
               q'[p].head = m /\ \A r \in Producers \ {p} : q'[r].head = q[r].head)
<1>1. DOMAIN q = Producers /\ QueueOK(q[p])
  BY DEF IInv, TypeOK
<1>2. ASSUME NEW r \in Producers PROVE SameQueue(r)
  BY <1>1 DEF SameQueue, QueueOK
<1>3. (q' # [q EXCEPT ![p].head = m] => \A r \in Producers : q'[r].head = q[r].head)
  BY <1>1 DEF QueueOK
<1>4. (q' = [q EXCEPT ![p].head = m] =>
         q'[p].head = m /\ \A r \in Producers \ {p} : q'[r].head = q[r].head)
  BY <1>1 DEF QueueOK
<1> QED BY <1>2, <1>3, <1>4

(* The steps before a call has an index.                                     *)
LEMMA EarlyKept ==
  ASSUME IInv, BlockInv, KeepInv, NEW c \in Consumers,
         \/ \E p \in Producers, max \in Sizes : Look(c, p, max)
         \/ Claim(c) \/ Check(c) \/ GiveBack(c)
  PROVE  KeepInv'
<1>1. DOMAIN take = Consumers /\ TakeOK(take[c])
  BY Basics DEF IInv, TypeOK
<1>2. UNCHANGED <<entry, blk, plan, fresh, free, away>>
  BY DEF Look, Claim, Check, GiveBack, Back, pool
<1>3. take[c].pc \notin Working /\ take'[c].pc \notin Working
      /\ \A d \in Consumers \ {c} : take'[d] = take[d]
  <2>1. CASE \E p \in Producers, max \in Sizes : Look(c, p, max)
    BY <1>1, <2>1 DEF Look, Go, In, Working
  <2>2. CASE Claim(c)
    BY <1>1, <2>2 DEF Claim, Go, In, Working
  <2>3. CASE Check(c)
    BY <1>1, <2>3 DEF Check, Go, In, Working
  <2>4. CASE GiveBack(c)
    <3>1. take[c].pc = "back"
      BY <2>4 DEF GiveBack, Back, In
    <3>2. take[c] \in [pc : {"back"}, prod : Producers, excess : Nat, got : Nat]
      BY <1>1, <3>1 DEF TakeOK, NoCall
    <3>3. \A d \in Consumers \ {c} : take'[d] = take[d]
      BY <1>1, <2>4 DEF GiveBack, Back, Go
    <3>4. take'[c].pc \in {"idle", "head"}
      BY <1>1, <2>4, <3>2 DEF GiveBack, Back, Go, NoCall
    <3> QED BY <3>1, <3>3, <3>4 DEF Working
  <2> QED BY <2>1, <2>2, <2>3, <2>4
<1>4. \A r \in Producers : SameQueue(r) /\ q'[r].head = q[r].head
  <2>1. CASE (\E p \in Producers, max \in Sizes : Look(c, p, max)) \/ Check(c)
    BY <1>2, <2>1 DEF Look, Check, SameQueue
  <2>2. CASE Claim(c) \/ GiveBack(c)
    <3>1. PICK p \in Producers : p = take[c].prod
      BY <2>2, Basics DEF Claim, GiveBack, Back, In
    <3>2. \E m : q' = [q EXCEPT ![p].opt = m] \/ q' = [q EXCEPT ![p].over = m]
      BY <2>2, <3>1 DEF Claim, GiveBack, Back, Prod
    <3>3. PICK m : q' = [q EXCEPT ![p].opt = m] \/ q' = [q EXCEPT ![p].over = m]
      BY <3>2
    <3>4. \A r \in Producers : SameQueue(r)
      BY <1>2, <3>3, CountersKeep
    <3>5. QueueOK(q[p]) /\ DOMAIN q = Producers
      BY DEF IInv, TypeOK
    <3>6. \A r \in Producers : q'[r].head = q[r].head
      BY <3>3, <3>5 DEF QueueOK
    <3> QED BY <3>4, <3>6
  <2> QED BY <2>1, <2>2
<1>5. \A r \in Producers : Pending(r, c)' = Pending(r, c)
  BY <1>3 DEF Pending
<1>6. \A r \in Producers : \A n : Rem(r, n)' = Rem(r, n)
  BY <1>3, <1>4, <1>5, RemSame
<1>7. take[c].pc # "release"
  BY <1>3 DEF Working
<1>8. \A b \in Blocks : blk'[b].done = blk[b].done
  BY <1>2
<1> QED BY <1>2, <1>3, <1>4, <1>6, <1>7, <1>8, TakeKept

(* The call gets the indices the head goes past.                             *)
LEMMA AdvanceKept ==
  ASSUME IInv, BlockInv, KeepInv, NEW c \in Consumers, Advance(c)
  PROVE  KeepInv'
<1>1. /\ UNCHANGED <<entry, blk, plan, fresh, free, away>>
      /\ \A d \in Consumers \ {c} : take'[d] = take[d]
      /\ take'[c].pc = "last" /\ take'[c].prod = take[c].prod /\ take'[c].got = take[c].got
      /\ take'[c].index = q[take[c].prod].head /\ take[c].pc = "head"
  BY Basics DEF Advance, Go, Prod, In, pool
<1>2. PICK p \in Producers : p = take[c].prod
  BY Basics DEF Advance, In
<1>3. PICK h \in Nat, g \in Nat : h = q[p].head /\ g = take[c].got
  BY <1>1 DEF IInv, TypeOK, TakeOK, NoCall, QueueOK
<1>4. q' = [q EXCEPT ![p].head = h + g]
  BY <1>2, <1>3 DEF Advance, Prod
<1>5. /\ \A r \in Producers : SameQueue(r)
      /\ q'[p].head = h + g /\ \A r \in Producers \ {p} : q'[r].head = q[r].head
  BY <1>1, <1>4, CountersKeep
<1>6. ASSUME NEW r \in Producers, NEW n, NEW i \in Rem(r, n) PROVE i \in Rem(r, n)'
  <2>1. i \in Int /\ BlockNo(i) = n
        /\ (i >= q[r].head \/ \E d \in Consumers : i \in Pending(r, d))
    BY <1>6 DEF Rem
  <2>2. CASE \E d \in Consumers : i \in Pending(r, d)
    <3>1. PICK d \in Consumers : i \in Pending(r, d)
      BY <2>2
    <3>2. d # c
      BY <1>1, <3>1 DEF Pending, Working
    <3>3. take'[d] = take[d]
      BY <1>1, <3>2
    <3>4. i \in Pending(r, d)'
      BY <3>1, <3>3 DEF Pending, Span, Number
    <3> QED BY <2>1, <3>4 DEF Rem
  <2>3. CASE i >= q[r].head /\ r # p
    BY <1>5, <2>1, <2>3 DEF Rem
  <2>4. CASE i >= q[r].head /\ r = p
    <3>1. i >= h
      BY <1>3, <2>4
    <3>2. CASE i >= h + g
      BY <1>5, <2>1, <2>4, <3>2 DEF Rem
    <3>3. CASE ~(i >= h + g)
      <4>1. i \in h .. h + g - 1
        BY <2>1, <3>1, <3>3
      <4>2. Span(c)' = h .. h + g - 1
        BY <1>1, <1>2, <1>3 DEF Span
      <4>3. i \in Pending(p, c)'
        BY <1>1, <1>2, <2>1, <4>1, <4>2 DEF Pending, Working
      <4> QED BY <2>1, <2>4, <4>3 DEF Rem
    <3> QED BY <3>2, <3>3
  <2> QED BY <2>1, <2>2, <2>3, <2>4
<1>7. \A r \in Producers : \A n : Rem(r, n) # {} => Rem(r, n)' # {}
  BY <1>6
<1>8. take[c].pc # "release" /\ \A b \in Blocks : blk'[b].done = blk[b].done
  BY <1>1
<1> QED BY <1>1, <1>5, <1>7, <1>8, TakeKept

(* The call looks for its block and moves the elements out.                  *)
LEMMA FindKept ==
  ASSUME IInv, IInv', BlockInv, BlockInv', KeepInv, NEW c \in Consumers,
         LoadLast(c) \/ LoadKey(c) \/ CopyOut(c)
  PROVE  KeepInv'
<1>1. DOMAIN take = Consumers /\ TakeOK(take[c])
  BY Basics DEF IInv, TypeOK
<1>2. UNCHANGED <<q, entry, plan, fresh, free, away>>
  BY DEF LoadLast, LoadKey, CopyOut, pool
<1>3. /\ \A d \in Consumers \ {c} : take'[d] = take[d]
      /\ take[c].pc \in {"last", "key", "copy"} /\ take'[c].pc \in {"key", "copy", "empty"}
      /\ take'[c].prod = take[c].prod /\ take'[c].got = take[c].got
      /\ take'[c].index = take[c].index
  <2>1. CASE LoadLast(c)
    BY <1>1, <2>1 DEF LoadLast, Go, Prod, In
  <2>2. CASE LoadKey(c)
    <3>1. take[c] \in [pc : {"key", "copy"}, prod : Producers, got : {take[c].got},
                       index : {take[c].index}, slot : {take[c].slot}]
      BY <1>1, <2>2 DEF TakeOK, NoCall, LoadKey, In
    <3> QED BY <1>1, <2>2, <3>1 DEF LoadKey, Go, Prod, In
  <2>3. CASE CopyOut(c)
    BY <1>1, <2>3 DEF CopyOut, Go, Prod, In
  <2> QED BY <2>1, <2>2, <2>3
<1>4. \A b \in Blocks : blk'[b].done = blk[b].done
  BY DEF BlockInv, Structure, LoadLast, LoadKey, CopyOut
<1>5. \A r \in Producers : SameQueue(r) /\ q'[r].head = q[r].head
  BY <1>2 DEF SameQueue
<1>6. \A r \in Producers : Pending(r, c)' = Pending(r, c)
  BY <1>3 DEF Pending, Working, Span, Number
<1>7. \A r \in Producers : \A n : Rem(r, n)' = Rem(r, n)
  BY <1>3, <1>5, <1>6, RemSame
<1> QED BY <1>2, <1>3, <1>4, <1>5, <1>7, TakeKept

(* A call counts the elements of a block: with the last one the block is empty, *)
(* or about to be released.                                                   *)
LEMMA SetEmptyKept ==
  ASSUME IInv, BlockInv, KeepInv, NEW c \in Consumers, SetEmpty(c)
  PROVE  KeepInv'
<1>1. /\ take[c].pc = "empty" /\ UNCHANGED <<q, entry, plan, fresh, free, away>>
      /\ take[c].pc \in Working /\ take[c].pc # "release"
      /\ \A d \in Consumers \ {c} : take'[d] = take[d]
      /\ \A r \in Producers : Pending(r, c)' = Later(r, c)
  BY SetEmptyMoves DEF Working
<1>2. PICK p \in Producers, n \in Nat : p = take[c].prod /\ n = Number(c)
  BY <1>1, CallAt
<1>3. PICK b \in Blocks : b = take[c].block /\ Entry(p, n).block = b
  BY <1>1, <1>2 DEF BlockInv, CallOK
<1>4. PICK k \in Nat \ {0} : k = Cardinality(Part(c))
  BY <1>1, CallAt, PartOf
<1>5. /\ \A r \in Producers : \A m :
            Rem(r, m)' = IF r = p /\ m = n THEN Rem(r, m) \ Part(c) ELSE Rem(r, m)
      /\ Part(c) \subseteq Rem(p, n)
  BY <1>1, <1>2, RemWithout
<1>6. Used(p, n) /\ Rem(p, n) # {} /\ n <= TailNo(p)
  BY <1>1, <1>2, CallUses, CallAt
<1>7. blk[b].done \in 0 .. BLOCK_SIZE /\ blk[b].done = BLOCK_SIZE - Cardinality(Rem(p, n))
  BY <1>3, <1>6, SMTT(60) DEF BlockInv, Live, LiveOK, Structure
<1>8. /\ blk'[b].done = blk[b].done + k
      /\ \A e \in Blocks \ {b} : blk'[e].done = blk[e].done
  BY <1>3, <1>4 DEF BlockInv, Structure, SetEmpty
<1>9. BLOCK_SIZE \in Nat \ {0}
  BY BlockNumbers
<1>10. ~Empty(b)
  <2>1. \A i \in Rem(p, n) : i \in Int /\ BlockNo(i) = n
    BY DEF Rem
  <2>2. Cardinality(Rem(p, n)) \in 0 .. BLOCK_SIZE /\ Cardinality(Rem(p, n)) # 0
    BY <1>6, <2>1, Countable
  <2> QED BY <1>7, <1>9, <2>2 DEF Empty
<1>11. Rem(p, n)' = {} => blk[b].done + k = BLOCK_SIZE /\ blk'[b].done = BLOCK_SIZE
  <2>1. Rem(p, n)' = {} => Rem(p, n) = Part(c)
    BY <1>5
  <2> QED BY <1>4, <1>7, <1>8, <1>9, <2>1
<1>12. \A r \in Producers : SameQueue(r)
  BY <1>1 DEF SameQueue
<1>13. Owned'
  BY <1>1, <1>12, OwnedSame DEF KeepInv
<1>14. ASSUME NEW r \in Producers, NEW m, Used(r, m), ~q[r].isExplicit \/ r # p PROVE Used(r, m)'
  <2>1. TailNo(r)' = TailNo(r)
    BY <1>1 DEF TailNo
  <2>2. CASE Rem(r, m) # {}
    <3>1. CASE Rem(r, m)' # {}
      BY <1>14, <2>1, <3>1 DEF Used
    <3>2. CASE Rem(r, m)' = {}
      <4>1. r = p /\ m = n
        BY <1>5, <2>2, <3>2
      <4>2. take'[c].pc = "release" /\ take'[c].prod = p /\ Number(c)' = n
        BY <1>2, <1>3, <1>4, <1>11, <1>14, <3>2, <4>1, SetEmptyMoves
      <4> QED BY <1>14, <2>1, <4>1, <4>2 DEF Used
    <3> QED BY <3>1, <3>2
  <2>3. CASE \E d \in Consumers : take[d].pc = "release" /\ take[d].prod = r /\ Number(d) = m
    BY <1>1, <1>14, <2>1, <2>3 DEF Number, Used
  <2> QED BY <1>14, <2>2, <2>3 DEF Used
<1>15. ASSUME NEW r \in Producers \ {p} PROVE Kept(r)'
  <2>1. \A e \in Attached(r) : blk'[e].done = blk[e].done
    <3>1. b \in Attached(p)
      BY <1>3, <1>6, UsedEntry
    <3>2. Attached(r) \cap Attached(p) = {}
      BY DEF BlockInv, Pools
    <3>3. ASSUME NEW e \in Attached(r) PROVE blk'[e].done = blk[e].done
      BY <1>8, <3>1, <3>2, AttachedBlocks
    <3> QED BY <3>3
  <2>2. \A m : Rem(r, m) # {} => Rem(r, m)' # {}
    BY <1>5
  <2>3. Kept(r) /\ SameQueue(r)
    BY <1>12 DEF KeepInv
  <2>4. \A m : Used(r, m) => Used(r, m)'
    BY <1>14
  <2> QED BY <2>1, <2>2, <2>3, <2>4, KeptSame
<1>16. Kept(p) /\ IndexSize(p)' = IndexSize(p) /\ TailNo(p)' = TailNo(p) /\ Built(p)' = Built(p)
       /\ \A m : Entry(p, m)' = Entry(p, m) /\ RingNo(p, m)' = RingNo(p, m)
  BY <1>1 DEF KeepInv, IndexSize, TailNo, Built, Entry, RingNo
<1>17. ImplicitKept(p)'
  BY <1>1, <1>14, <1>16 DEF Held, Kept, ImplicitKept
<1>18. ASSUME q[p].isExplicit PROVE OnlyUsed(p)'
  <2>1. q[p].ring \in Seq(Blocks) /\ Len(q[p].ring) \in Nat /\ Built(p) \in Nat /\ TailNo(p) \in Int
    BY Lengths, Basics
  <2>2. ASSUME NEW j \in 1 .. Len(q[p].ring) - Built(p) PROVE Spent(p, j)'
    <3>1. Spent(p, j)
      BY <1>16, <1>18 DEF Kept, ExplicitKept, OnlyUsed
    <3>2. q[p].ring[j] \in Blocks
      BY <2>1
    <3>3. CASE Empty(q[p].ring[j])
      <4>1. blk'[q[p].ring[j]].done = BLOCK_SIZE
        BY <1>8, <1>10, <3>2, <3>3 DEF Empty
      <4> QED BY <1>1, <4>1 DEF Spent, Empty
    <3>4. CASE RingNo(p, j) \in Nat /\ Rem(p, RingNo(p, j)) # {} /\ RingNo(p, j) # n
      BY <1>5, <1>16, <3>4 DEF Spent
    <3>5. CASE RingNo(p, j) = n
      <4>1. CASE Rem(p, n)' # {}
        BY <1>16, <3>5, <4>1 DEF Spent
      <4>2. CASE Rem(p, n)' = {}
        <5>1. Place(p, n) = j
          BY <2>1, <3>5 DEF Place, RingNo
        <5>2. q[p].ring[j] = b
          BY <1>3, <1>6, <1>18, <5>1, UsedPlace
        <5> QED BY <1>1, <1>11, <4>2, <5>2 DEF Spent, Empty
      <4> QED BY <4>1, <4>2
    <3> QED BY <3>1, <3>3, <3>4, <3>5 DEF Spent
  <2>3. ASSUME plan[p].pc \in {"grow", "inject"}, NEW m \in 1 .. Built(p)
        PROVE  Empty(plan[p].new[m])'
    <3>1. plan[p].new[m] \in Blocks /\ plan[p].new[m] # b
      BY <1>3, <1>6, <2>3, NewFacts, NewApart
    <3>2. Empty(plan[p].new[m])
      BY <1>16, <1>18, <2>3 DEF Kept, ExplicitKept, OnlyUsed
    <3> QED BY <1>1, <1>8, <3>1, <3>2 DEF Empty
  <2> QED BY <1>1, <1>16, <2>2, <2>3 DEF OnlyUsed
<1>19. ASSUME q[p].isExplicit PROVE InOrder(p)'
  BY <1>1, <1>16, <1>19 DEF Kept, ExplicitKept, InOrder
<1>20. Kept(p)'
  BY <1>1, <1>17, <1>18, <1>19 DEF Kept, ExplicitKept
<1> QED BY <1>13, <1>15, <1>20 DEF KeepInv

(* The released block leaves the index for the free list.                    *)
LEMMA ReleaseKept ==
  ASSUME IInv, BlockInv, KeepInv, NEW c \in Consumers, Release(c)
  PROVE  KeepInv'
<1>1. /\ take[c].pc = "release" /\ take[c].pc \in Working /\ NextPart(c)
      /\ UNCHANGED <<q, blk, plan, fresh, away>> /\ free' = free \cup {take[c].block}
  BY DEF Release, GiveUp, In, Working, AddToFreeList
<1>2. PICK p \in Producers, n \in Nat : p = take[c].prod /\ n = Number(c)
  BY <1>1, CallAt
<1>3. PICK b \in Blocks : /\ b = take[c].block /\ Entry(p, n).block = b
                          /\ take[c].slot = n % IndexSize(p) /\ ~q[p].isExplicit
  BY <1>1, <1>2 DEF BlockInv, CallOK, Placed
<1>4. PICK s \in 0 .. IndexSize(p) - 1 : s = n % IndexSize(p)
  BY SlotIn
<1>5. /\ \A r \in Producers \ {p} : entry'[r] = entry[r]
      /\ \A u \in 0 .. IndexSize(p) - 1 :
           IF u = s THEN entry'[p][u].block = NoBlock ELSE entry'[p][u] = entry[p][u]
  <2>1. /\ DOMAIN entry = Producers
        /\ entry[p] \in [0 .. IndexSize(p) - 1 -> [key : Int, block : Blocks \cup {NoBlock}]]
    BY DEF BlockInv, Structure
  <2>2. entry' = [entry EXCEPT ![p][s].block = NoBlock]
    BY <1>2, <1>3, <1>4 DEF Release, GiveUp, Prod
  <2> QED BY <2>1, <2>2
<1>6. /\ \A d \in Consumers \ {c} : take'[d] = take[d]
      /\ \A r \in Producers : Pending(r, c)' = Later(r, c)
  BY <1>1, <1>2, <1>3, AfterPart
<1>7. \A r \in Producers : \A m : Rem(r, m)' = Rem(r, m)
  BY <1>1, <1>6, RemSame DEF Later, Pending
<1>8. ASSUME NEW r \in Producers, NEW m, Used(r, m), ~(r = p /\ m = n) PROVE Used(r, m)'
  <2>1. TailNo(r)' = TailNo(r)
    BY <1>1 DEF TailNo
  <2>2. CASE Rem(r, m) # {}
    BY <1>7, <1>8, <2>1, <2>2 DEF Used
  <2>3. CASE \E d \in Consumers : take[d].pc = "release" /\ take[d].prod = r /\ Number(d) = m
    <3>1. PICK d \in Consumers : take[d].pc = "release" /\ take[d].prod = r /\ Number(d) = m
      BY <2>3
    <3>2. take'[d] = take[d]
      BY <1>2, <1>6, <1>8, <3>1
    <3>3. take'[d].pc = "release" /\ take'[d].prod = r /\ Number(d)' = m
      BY <3>1, <3>2 DEF Number
    <3> QED BY <1>8, <2>1, <3>3 DEF Used
  <2> QED BY <1>8, <2>2, <2>3 DEF Used
<1>9. ASSUME NEW r \in Producers \ {p} PROVE Kept(r)'
  <2>1. SameQueue(r) /\ Kept(r)
    BY <1>1, <1>5 DEF SameQueue, KeepInv
  <2>2. \A e \in Attached(r) : blk'[e].done = blk[e].done
    BY <1>1
  <2>3. \A m : Rem(r, m) # {} => Rem(r, m)' # {}
    BY <1>7
  <2>4. \A m : Used(r, m) => Used(r, m)'
    BY <1>8
  <2> QED BY <2>1, <2>2, <2>3, <2>4, KeptSame
<1>10. IndexSize(p)' = IndexSize(p) /\ TailNo(p)' = TailNo(p) /\ Built(p)' = Built(p)
  BY <1>1 DEF IndexSize, TailNo, Built
<1>11. Kept(p)'
  <2>1. Kept(p)
    BY DEF KeepInv
  <2>2. ASSUME NEW u \in 0 .. IndexSize(p) - 1, entry'[p][u].block # NoBlock
        PROVE  Held(p, entry[p][u].key)' /\ entry'[p][u].key % IndexSize(p) = u
    <3>1. u # s /\ entry'[p][u] = entry[p][u]
      BY <1>5, <2>2
    <3>2. PICK m : m = entry[p][u].key
      OBVIOUS
    <3>3. Held(p, m) /\ m % IndexSize(p) = u
      BY <1>3, <2>1, <2>2, <3>1, <3>2 DEF Kept, ImplicitKept
    <3>4. m # n
      BY <1>4, <3>1, <3>3
    <3>5. Held(p, m)'
      BY <1>1, <1>8, <1>10, <3>3, <3>4 DEF Held
    <3>6. m = entry'[p][u].key
      BY <3>1, <3>2
    <3> QED BY <3>3, <3>5, <3>6
  <2>3. ImplicitKept(p)'
    BY <1>1, <1>3, <1>10, <2>1, <2>2 DEF Kept, ImplicitKept
  <2> QED BY <1>1, <1>3, <2>3 DEF Kept, ExplicitKept
<1>12. Owned'
  <2>1. ASSUME NEW e \in Blocks
        PROVE  e \in fresh' \cup free' \cup away' \/ \E r \in Producers : e \in Attached(r)'
    <3>1. CASE e \in fresh \cup free \cup away \/ e = b
      BY <1>1, <1>3, <3>1
    <3>2. CASE e # b /\ \E r \in Producers : e \in Attached(r)
      <4>1. PICK r \in Producers : e \in Attached(r)
        BY <3>2
      <4>2. CASE r # p
        BY <1>1, <1>5, <4>1, <4>2 DEF Attached
      <4>3. CASE r = p
        <5>1. DOMAIN entry[p] = 0 .. IndexSize(p) - 1 /\ DOMAIN entry'[p] = 0 .. IndexSize(p) - 1
          <6>1. /\ DOMAIN entry = Producers
                /\ entry[p] \in [0 .. IndexSize(p) - 1 -> [key : Int, block : Blocks \cup {NoBlock}]]
            BY DEF BlockInv, Structure
          <6>2. entry' = [entry EXCEPT ![p][s].block = NoBlock]
            BY <1>2, <1>3, <1>4 DEF Release, GiveUp, Prod
          <6> QED BY <6>1, <6>2
        <5>2. PICK u \in 0 .. IndexSize(p) - 1 : e = entry[p][u].block /\ e # NoBlock
          BY <1>3, <4>1, <4>3, <5>1 DEF Attached
        <5>3. u # s
          BY <1>3, <1>4, <3>2, <5>2 DEF Entry
        <5>4. e = entry'[p][u].block
          BY <1>5, <5>2, <5>3
        <5>5. e \in Attached(p)'
          BY <1>1, <1>3, <5>1, <5>2, <5>4 DEF Attached
        <5> QED BY <5>5
      <4> QED BY <4>2, <4>3
    <3> QED BY <3>1, <3>2 DEF KeepInv, Owned
  <2> QED BY <2>1 DEF Owned
<1> QED BY <1>9, <1>11, <1>12 DEF KeepInv

LEMMA PoolKept ==
  ASSUME IInv, BlockInv, KeepInv, Borrow \/ Restore
  PROVE  KeepInv'
<1>1. /\ UNCHANGED <<q, entry, blk, plan, take>>
      /\ fresh \cup free \cup away \subseteq fresh' \cup free' \cup away'
  BY DEF Borrow, Available, Restore
<1>2. \A r \in Producers : SameQueue(r)
  BY <1>1 DEF SameQueue
<1>3. Owned'
  BY <1>1, <1>2, OwnedSame DEF KeepInv
<1>4. ASSUME NEW r \in Producers PROVE Kept(r)'
  <2>1. SameQueue(r) /\ Kept(r) /\ \A e \in Attached(r) : blk'[e].done = blk[e].done
    BY <1>1, <1>2 DEF KeepInv
  <2>2. \A n : Rem(r, n)' = Rem(r, n)
    BY <1>1 DEF Rem, Pending, Span, Number
  <2>3. TailNo(r)' = TailNo(r) /\ \A c \in Consumers : Number(c)' = Number(c) /\ take'[c] = take[c]
    BY <1>1 DEF TailNo, Number
  <2>4. \A n : Used(r, n) => Used(r, n)'
    BY <2>2, <2>3 DEF Used
  <2>5. \A n : Rem(r, n) # {} => Rem(r, n)' # {}
    BY <2>2
  <2> QED BY <2>1, <2>4, <2>5, KeptSame
<1> QED BY <1>3, <1>4 DEF KeepInv

(* A step of the enqueue of p leaves the others alone.                       *)
Aside(p) ==
  /\ UNCHANGED take
  /\ \A r \in Producers : q'[r].isExplicit = q[r].isExplicit /\ q'[r].head = q[r].head
  /\ \A r \in Producers \ {p} : q'[r] = q[r] /\ entry'[r] = entry[r] /\ plan'[r] = plan[r]
  /\ \A r \in Producers \ {p} : \A b \in Attached(r) : blk'[b].done = blk[b].done
LEMMA AsideKept ==
  ASSUME IInv, BlockInv, KeepInv, NEW p \in Producers, Aside(p)
  PROVE  /\ \A r \in Producers : \A n : Rem(r, n)' = Rem(r, n)
         /\ \A r \in Producers : IndexSize(r)' = IndexSize(r)
         /\ TailNo(p)' = TailNo(p) => \A n : Used(p, n) => Used(p, n)'
         /\ \A r \in Producers \ {p} : Kept(r)' /\ Attached(r)' = Attached(r)
<1>1. \A r \in Producers : \A n : Rem(r, n)' = Rem(r, n)
  BY DEF Aside, Rem, Pending, Span, Number
<1>2. \A r \in Producers : IndexSize(r)' = IndexSize(r)
  BY DEF Aside, IndexSize
<1>3. ASSUME NEW r \in Producers, TailNo(r)' = TailNo(r), NEW n, Used(r, n) PROVE Used(r, n)'
  BY <1>1, <1>3 DEF Aside, Number, Used
<1>4. ASSUME NEW r \in Producers \ {p} PROVE Kept(r)' /\ Attached(r)' = Attached(r)
  <2>1. SameQueue(r) /\ TailNo(r)' = TailNo(r) /\ Attached(r)' = Attached(r)
    BY DEF Aside, SameQueue, TailNo, Attached
  <2>2. Kept(r) /\ \A b \in Attached(r) : blk'[b].done = blk[b].done
    BY DEF KeepInv, Aside
  <2>3. \A n : Rem(r, n) # {} => Rem(r, n)' # {}
    BY <1>1
  <2>4. \A n : Used(r, n) => Used(r, n)'
    BY <1>3, <2>1
  <2> QED BY <2>1, <2>2, <2>3, <2>4, KeptSame
<1> QED BY <1>1, <1>2, <1>3, <1>4

LEMMA AsideInv ==
  ASSUME IInv, BlockInv, KeepInv, NEW p \in Producers, Aside(p), Kept(p)',
         \A b \in Blocks : b \in fresh \cup free \cup away \/ b \in Attached(p) =>
           b \in fresh' \cup free' \cup away' \/ b \in Attached(p)'
  PROVE  KeepInv'
<1>1. \A r \in Producers \ {p} : Kept(r)' /\ Attached(r)' = Attached(r)
  BY AsideKept
<1>2. Owned'
  BY <1>1 DEF Owned, KeepInv
<1> QED BY <1>1, <1>2 DEF KeepInv

(* A call begins.                                                            *)
LEMMA BeginKept ==
  ASSUME IInv, BlockInv, KeepInv, NEW p \in Producers, NEW n \in Sizes, Begin(p, n)
  PROVE  KeepInv'
<1>1. UNCHANGED <<q, entry, blk, fresh, free, away, take>>
  BY DEF Begin, pool
<1>2. plan[p].pc = "idle" /\ DOMAIN plan = Producers
  BY Basics DEF Begin, At
<1>3. /\ plan'[p] = [pc |-> "grow", n |-> n, new |-> <<>>,
                     need |-> BlockNo(q[p].tail + n - 1) - BlockNo(q[p].tail - 1),
                     start |-> q[p].ring, front |-> q[p].front, used |-> q[p].used]
      /\ \A r \in Producers \ {p} : plan'[r] = plan[r]
  BY <1>2 DEF Begin
<1>4. plan'[p].pc = "grow" /\ plan'[p].new = <<>> /\ plan'[p].used = q[p].used
  BY <1>3
<1>5. Built(p) = 0 /\ Built(p)' = 0
  BY <1>2, <1>4 DEF Built
<1>6. Aside(p) /\ Attached(p)' = Attached(p) /\ TailNo(p)' = TailNo(p)
  BY <1>1, <1>3 DEF Aside, Attached, TailNo
<1>7. IndexSize(p)' = IndexSize(p) /\ (\A m : Rem(p, m)' = Rem(p, m))
      /\ \A m : Used(p, m) => Used(p, m)'
  BY <1>6, AsideKept
<1>8. \A m : Held(p, m) => Held(p, m)'
  BY <1>2, <1>7 DEF Held
<1>9. /\ \A m : Entry(p, m)' = Entry(p, m)
      /\ \A j : Spent(p, j) => Spent(p, j)'
  <2>1. \A m : Entry(p, m)' = Entry(p, m)
    BY <1>1, <1>7 DEF Entry
  <2>2. \A j : RingNo(p, j)' = RingNo(p, j)
    BY <1>1, <1>5, <1>6 DEF RingNo
  <2> QED BY <1>1, <1>7, <2>1, <2>2 DEF Spent, Empty
<1>10. Kept(p)
  BY DEF KeepInv
<1>11. ImplicitKept(p)'
  BY <1>1, <1>7, <1>8, <1>10 DEF Kept, ImplicitKept
<1>12. ASSUME q[p].isExplicit PROVE OnlyUsed(p)' /\ InOrder(p)'
  <2>1. OnlyUsed(p) /\ InOrder(p)
    BY <1>10, <1>12 DEF Kept, ExplicitKept
  <2>2. OnlyUsed(p)'
    BY <1>1, <1>5, <1>9, <2>1 DEF OnlyUsed
  <2>3. InOrder(p)'
    BY <1>1, <1>4, <1>5, <1>6, <1>9, <2>1 DEF InOrder
  <2> QED BY <2>2, <2>3
<1>13. Kept(p)'
  BY <1>1, <1>11, <1>12 DEF Kept, ExplicitKept
<1> QED BY <1>1, <1>6, <1>13, AsideInv

(* An implicit producer keeps its entries.                                   *)
LEMMA ImplicitAside ==
  ASSUME IInv, BlockInv, KeepInv, NEW p \in Producers, ~q[p].isExplicit, Aside(p),
         q'[p].tail = q[p].tail, q'[p].ring = q[p].ring,
         \A s \in 0 .. IndexSize(p) - 1 : entry'[p][s].block # NoBlock =>
           \E m : /\ entry'[p][s].key = m /\ m % IndexSize(p) = s
                  /\ Used(p, m) \/ Held(p, m)'
  PROVE  Kept(p)'
<1>1. TailNo(p)' = TailNo(p) /\ q'[p].isExplicit = q[p].isExplicit
  BY DEF TailNo, Aside
<1>2. IndexSize(p)' = IndexSize(p) /\ \A m : Used(p, m) => Held(p, m)'
  BY <1>1, AsideKept DEF Held
<1>3. ASSUME NEW s \in 0 .. IndexSize(p) - 1, entry'[p][s].block # NoBlock
      PROVE  Held(p, entry[p][s].key)' /\ entry'[p][s].key % IndexSize(p) = s
  BY <1>2, <1>3
<1>4. Len(q[p].ring) <= 1
  BY DEF KeepInv, Kept, ImplicitKept
<1> QED BY <1>1, <1>2, <1>3, <1>4 DEF Kept, ImplicitKept, ExplicitKept

(* An implicit producer writes the key of the next entry.                    *)
LEMMA InsertKeyKept ==
  ASSUME IInv, BlockInv, KeepInv, NEW p \in Producers, ~q[p].isExplicit, InsertKey(p)
  PROVE  KeepInv'
<1>1. /\ plan[p].pc = "grow" /\ plan[p].pc # "idle"
      /\ Plan(p, "block", plan[p].new) /\ UNCHANGED <<blk, fresh, free, away, take>>
  BY DEF InsertKey, InsertKey_Overwrites, Growing, At, pool
<1>2. PICK new : new = plan[p].new
  OBVIOUS
<1>3. /\ plan'[p].pc = "block" /\ plan'[p].new = new
      /\ \A r \in Producers \ {p} : plan'[r] = plan[r]
      /\ Built(p)' = Len(new)
  BY <1>1, <1>2, PlanGoes
<1>4. Built(p)' = Built(p)
  BY <1>1, <1>2, <1>3 DEF Built
<1>5. PICK s : s = Slot(p, q[p].last + 1)
  OBVIOUS
<1>6. /\ entry' = [entry EXCEPT ![p][s].key = NewKey(p)] /\ q' = [q EXCEPT ![p].last = s]
      /\ entry[p][s].block = NoBlock
  BY <1>5 DEF InsertKey, InsertKey_Overwrites
<1>7. /\ \A r \in Producers \ {p} : q'[r] = q[r]
      /\ q'[p].isExplicit = q[p].isExplicit /\ q'[p].tail = q[p].tail /\ q'[p].head = q[p].head
      /\ q'[p].ring = q[p].ring
  BY <1>6, LastOnly
<1>8. /\ DOMAIN entry = Producers
      /\ entry[p] \in [0 .. IndexSize(p) - 1 -> [key : Int, block : Blocks \cup {NoBlock}]]
  BY DEF BlockInv, Structure
<1>9. /\ \A r \in Producers \ {p} : entry'[r] = entry[r]
      /\ DOMAIN entry'[p] = DOMAIN entry[p] /\ DOMAIN entry[p] = 0 .. IndexSize(p) - 1
      /\ \A u \in 0 .. IndexSize(p) - 1 : /\ u # s => entry'[p][u] = entry[p][u]
                                          /\ entry'[p][u].block = entry[p][u].block
  BY <1>6, <1>8
<1>10. Aside(p) /\ TailNo(p)' = TailNo(p)
  BY <1>1, <1>3, <1>7, <1>9 DEF Aside, TailNo
<1>11. Attached(p)' = Attached(p)
  BY <1>7, <1>9 DEF Attached
<1>12. \A m : Used(p, m) => Used(p, m)'
  BY <1>10, AsideKept
<1>13. \A m : Held(p, m) => Held(p, m)'
  BY <1>1, <1>3, <1>4, <1>10, <1>12 DEF Held
<1>14. ASSUME NEW u \in 0 .. IndexSize(p) - 1, entry'[p][u].block # NoBlock
       PROVE  \E m : /\ entry'[p][u].key = m /\ m % IndexSize(p) = u
                     /\ Used(p, m) \/ Held(p, m)'
  <2>1. entry'[p][u] = entry[p][u]
    BY <1>6, <1>9, <1>14
  <2>2. PICK m : m = entry[p][u].key
    OBVIOUS
  <2>3. Held(p, m) /\ m % IndexSize(p) = u
    BY <1>14, <2>1, <2>2 DEF KeepInv, Kept, ImplicitKept
  <2> QED BY <1>13, <2>1, <2>2, <2>3
<1>15. Kept(p)'
  BY <1>7, <1>10, <1>14, ImplicitAside
<1> QED BY <1>1, <1>10, <1>11, <1>15, AsideInv

(* It installs the new block.                                                *)
LEMMA InstallBlockKept ==
  ASSUME IInv, BlockInv, KeepInv, NEW p \in Producers, ~q[p].isExplicit, InstallBlock(p)
  PROVE  KeepInv'
<1> DEFINE new == plan[p].new
<1>1. /\ plan[p].pc = "block" /\ plan[p].pc # "idle" /\ UNCHANGED <<q, take>>
  BY DEF InstallBlock, At
<1>2. PICK b \in Available :
        /\ Requisition(b)
        /\ blk' = [blk EXCEPT ![b].done = 0]
        /\ entry' = [entry EXCEPT ![p][q[p].last].block = b]
        /\ Plan(p, "grow", Append(new, b))
  BY ZenonT(60) DEF InstallBlock
<1>3. /\ plan'[p].pc = "grow" /\ \A r \in Producers \ {p} : plan'[r] = plan[r]
      /\ Built(p)' = Len(Append(new, b))
  <2> DEFINE grown == Append(new, b)
  <2>1. Plan(p, "grow", grown)
    BY <1>2
  <2> HIDE DEF grown, new
  <2>2. plan'[p].pc = "grow" /\ (\A r \in Producers \ {p} : plan'[r] = plan[r])
        /\ Built(p)' = Len(grown)
    BY <1>1, <2>1, PlanGoes
  <2> QED BY <2>2 DEF grown
<1>4. Structure /\ Pools /\ Room(p)
  BY DEF BlockInv
<1>5. new \in Seq(Blocks) /\ DOMAIN entry = Producers
      /\ entry[p] \in [0 .. IndexSize(p) - 1 -> [key : Int, block : Blocks \cup {NoBlock}]]
  BY <1>1, <1>4 DEF Structure
<1>6. Built(p) = Len(new) /\ Built(p) \in Nat /\ TailNo(p) \in Int
  BY <1>1, Lengths, Basics DEF Built
<1>7. /\ b \in Blocks /\ \A r \in Producers : b \notin Attached(r)
      /\ fresh' = fresh \ {b} /\ free' = free \ {b} /\ away' = away
  BY <1>2, FromPool DEF Requisition
<1>8. Built(p)' = Built(p) + 1
  BY <1>3, <1>5, <1>6, <1>7
<1> HIDE DEF new
<1>9. PICK x \in Int : x = TailNo(p) + Built(p) + 1
  BY <1>6
<1>10. PICK s \in 0 .. IndexSize(p) - 1 : s = x % IndexSize(p)
  BY SlotIn
<1>11. q[p].last = s /\ entry[p][s].key = x /\ entry[p][s].block = NoBlock
  BY <1>1, <1>4, <1>9, <1>10 DEF Room
<1>12. /\ \A r \in Producers \ {p} : entry'[r] = entry[r]
       /\ DOMAIN entry'[p] = DOMAIN entry[p] /\ DOMAIN entry[p] = 0 .. IndexSize(p) - 1
       /\ \A u \in 0 .. IndexSize(p) - 1 : u # s => entry'[p][u] = entry[p][u]
       /\ entry'[p][s].block = b /\ entry'[p][s].key = x
  BY <1>2, <1>5, <1>11
<1>13. \A e \in Blocks \ {b} : blk'[e].done = blk[e].done
  BY <1>2 DEF BlockInv, Structure
<1>14. Aside(p) /\ TailNo(p)' = TailNo(p)
  <2>1. ASSUME NEW r \in Producers, NEW e \in Attached(r) PROVE e \in Blocks \ {b}
    BY <1>7, <2>1, AttachedBlocks
  <2>2. \A r \in Producers : q'[r] = q[r]
    BY <1>1
  <2> QED BY <1>1, <1>3, <1>12, <1>13, <2>1, <2>2 DEF Aside, TailNo
<1>15. \A m : Used(p, m) => Used(p, m)'
  BY <1>14, AsideKept
<1>16. \A m : Held(p, m) \/ m = x => Held(p, m)'
  <2>1. ASSUME NEW m, NEW k \in 1 .. Built(p) + 1, m = TailNo(p) + k PROVE Held(p, m)'
    BY <1>3, <1>8, <1>14, <2>1 DEF Held
  <2>2. x = TailNo(p) + (Built(p) + 1) /\ Built(p) + 1 \in 1 .. Built(p) + 1
    BY <1>6, <1>9
  <2>3. \A k \in 1 .. Built(p) : k \in 1 .. Built(p) + 1
    BY <1>6
  <2>4. \A m : Used(p, m) => Held(p, m)'
    BY <1>15 DEF Held
  <2>5. Held(p, x)'
    BY <2>1, <2>2
  <2> QED BY <2>1, <2>3, <2>4, <2>5 DEF Held
<1>17. ASSUME NEW u \in 0 .. IndexSize(p) - 1, entry'[p][u].block # NoBlock
       PROVE  \E m : /\ entry'[p][u].key = m /\ m % IndexSize(p) = u
                     /\ Used(p, m) \/ Held(p, m)'
  <2>1. CASE u = s
    BY <1>10, <1>12, <1>16, <2>1
  <2>2. CASE u # s
    <3>1. entry'[p][u] = entry[p][u]
      BY <1>12, <2>2
    <3>2. PICK m : m = entry[p][u].key
      OBVIOUS
    <3>3. Held(p, m) /\ m % IndexSize(p) = u
      BY <1>17, <3>1, <3>2 DEF KeepInv, Kept, ImplicitKept
    <3> QED BY <1>16, <3>1, <3>2, <3>3
  <2> QED BY <2>1, <2>2
<1>18. Kept(p)'
  BY <1>1, <1>14, <1>17, ImplicitAside
<1>19. ASSUME NEW e \in Blocks, e \in fresh \cup free \cup away \/ e \in Attached(p)
       PROVE  e \in fresh' \cup free' \cup away' \/ e \in Attached(p)'
  <2>1. CASE e = b
    BY <1>1, <1>7, <1>12, <2>1, QueueAssumption DEF Attached
  <2>2. CASE e # b /\ e \in fresh \cup free \cup away
    BY <1>7, <2>2
  <2>3. CASE e # b /\ e \in Attached(p)
    BY <1>1, <1>11, <1>12, <2>3 DEF Attached
  <2> QED BY <1>19, <2>1, <2>2, <2>3
<1> QED BY <1>14, <1>18, <1>19, AsideInv

(* It gives up: the entries of the call are cleared.                         *)
LEMMA ImplicitUndoKept ==
  ASSUME IInv, BlockInv, KeepInv, NEW p \in Producers, ~q[p].isExplicit, ImplicitUndo(p)
  PROVE  KeepInv'
<1> DEFINE new == plan[p].new
           gone == ToSet(new)
<1>1. /\ plan[p].pc \in {"grow", "block"} /\ plan[p].pc # "idle"
      /\ Return(p) /\ UNCHANGED <<blk, fresh, away, take>> /\ free' = free \cup gone
  BY DEF ImplicitUndo, Growing, At, AddToFreeList
<1>2. \A r \in Producers \ {p} : plan'[r] = plan[r]
  BY <1>1, ReturnGoes
<1>3. /\ DOMAIN entry = Producers
      /\ entry[p] \in [0 .. IndexSize(p) - 1 -> [key : Int, block : Blocks \cup {NoBlock}]]
      /\ new \in Seq(Blocks)
  BY <1>1 DEF BlockInv, Structure
<1>4. entry' = [entry EXCEPT ![p] = [s \in DOMAIN @ |->
                  IF @[s].block \in gone THEN [@[s] EXCEPT !.block = NoBlock] ELSE @[s]]]
  BY DEF ImplicitUndo
<1>5. \A k \in 1 .. Built(p) : new[k] \in gone
  BY <1>1, <1>3 DEF ToSet, Built
<1>6. PICK v : q' = [q EXCEPT ![p].last = v]
  BY DEF ImplicitUndo
<1>7. /\ \A r \in Producers \ {p} : q'[r] = q[r]
      /\ q'[p].isExplicit = q[p].isExplicit /\ q'[p].tail = q[p].tail /\ q'[p].head = q[p].head
      /\ q'[p].ring = q[p].ring
  BY <1>6, LastOnly
<1> HIDE DEF gone
<1>8. /\ \A r \in Producers \ {p} : entry'[r] = entry[r]
      /\ DOMAIN entry'[p] = DOMAIN entry[p] /\ DOMAIN entry[p] = 0 .. IndexSize(p) - 1
      /\ \A u \in 0 .. IndexSize(p) - 1 :
           IF entry[p][u].block \in gone THEN entry'[p][u].block = NoBlock
                                         ELSE entry'[p][u] = entry[p][u]
  BY <1>3, <1>4
<1>9. Aside(p) /\ TailNo(p)' = TailNo(p)
  BY <1>1, <1>2, <1>7, <1>8 DEF Aside, TailNo
<1>10. ASSUME NEW u \in 0 .. IndexSize(p) - 1, entry'[p][u].block # NoBlock
       PROVE  \E m : /\ entry'[p][u].key = m /\ m % IndexSize(p) = u
                     /\ Used(p, m) \/ Held(p, m)'
  <2>1. entry'[p][u] = entry[p][u] /\ entry[p][u].block \notin gone
    BY <1>8, <1>10
  <2>2. PICK m : m = entry[p][u].key
    OBVIOUS
  <2>3. Held(p, m) /\ m % IndexSize(p) = u
    BY <1>10, <2>1, <2>2 DEF KeepInv, Kept, ImplicitKept
  <2>4. ASSUME NEW k \in 1 .. Built(p) PROVE m # TailNo(p) + k
    <3>1. SUFFICES ASSUME m = TailNo(p) + k PROVE FALSE
      OBVIOUS
    <3>2. NewOK(p, k)
      BY <1>1, NewFacts
    <3>3. Entry(p, m).block = new[k]
      BY <3>1, <3>2 DEF NewOK
    <3>4. Entry(p, m) = entry[p][u]
      BY <2>3 DEF Entry
    <3> QED BY <1>5, <2>1, <3>3, <3>4
  <2>5. Used(p, m)
    BY <2>3, <2>4 DEF Held
  <2> QED BY <2>1, <2>2, <2>3, <2>5
<1>11. Kept(p)'
  BY <1>7, <1>9, <1>10, ImplicitAside
<1>12. ASSUME NEW e \in Blocks, e \in fresh \cup free \cup away \/ e \in Attached(p)
       PROVE  e \in fresh' \cup free' \cup away' \/ e \in Attached(p)'
  <2>1. CASE e \in fresh \cup free \cup away \cup gone
    BY <1>1, <2>1
  <2>2. CASE e \in Attached(p) /\ e \notin gone
    BY <1>7, <1>8, <2>2 DEF Attached
  <2> QED BY <1>12, <2>1, <2>2
<1> QED BY <1>9, <1>11, <1>12, AsideInv

(* A block enters the ring and the index of an explicit producer.            *)
LEMMA EnterKept ==
  ASSUME IInv, BlockInv, KeepInv, NEW p \in Producers, plan[p].pc \in {"grow", "inject"},
         NEW l \in {"grow", "inject"}, NEW b \in Blocks, NEW ring \in Seq(Blocks), NEW used,
         Enter(p, l, b, ring, used), UNCHANGED take, NEW d \in {0, 1}, Joins(p, b, ring, d),
         q[p].used = Len(q[p].ring) => used = Len(ring),
         blk'[b].done = BLOCK_SIZE, \A e \in Blocks \ {b} : blk'[e].done = blk[e].done,
         \A r \in Producers \ {p} : b \notin Attached(r),
         \A e \in Blocks : e \in fresh \cup free \cup away \/ e \in Attached(p) =>
           e \in fresh' \cup free' \cup away' \/ e \in ToSet(ring)
  PROVE  KeepInv'
<1> DEFINE new == plan[p].new
<1>1. plan[p].pc # "idle" /\ Plan(p, l, Append(new, b)) /\ l # "idle"
  BY DEF Enter
<1>2. /\ plan'[p].pc = l /\ plan'[p].new = Append(new, b)
      /\ \A r \in Producers \ {p} : plan'[r] = plan[r]
      /\ Built(p)' = Len(Append(new, b))
  <2> DEFINE grown == Append(new, b)
  <2>1. Plan(p, l, grown)
    BY <1>1
  <2> HIDE DEF grown, new
  <2>2. /\ plan'[p].pc = l /\ plan'[p].new = grown
        /\ \A r \in Producers \ {p} : plan'[r] = plan[r]
        /\ Built(p)' = Len(grown)
    BY <1>1, <2>1, PlanGoes
  <2> QED BY <2>2 DEF grown
<1>3. new \in Seq(Blocks) /\ q[p].ring \in Seq(Blocks)
  BY <1>1 DEF BlockInv, Structure
<1>4. q[p].isExplicit /\ Distinct(ring)
      /\ \A j \in 1 + d .. Len(q[p].ring) : ring[j - d] = q[p].ring[j]
  BY DEF Joins
<1>5. PICK B \in Nat, L \in Nat, T \in Int :
        B = Built(p) /\ B = Len(new) /\ L = Len(q[p].ring) /\ T = TailNo(p)
  BY <1>1, Lengths, Basics DEF Built
<1>6. /\ Built(p)' = B + 1
      /\ \A k \in 1 .. B : Append(new, b)[k] = new[k]
      /\ Append(new, b)[B + 1] = b
  BY <1>2, <1>3, <1>5
<1> HIDE DEF new
<1>7. PICK x \in Int : x = T + B + 1
  BY <1>5
<1>8. PICK s \in 0 .. IndexSize(p) - 1 : s = x % IndexSize(p)
  BY SlotIn
<1>9. q[p].front = s /\ NewKey(p) = x
  <2>1. q[p].front = (TailNo(p) + Built(p) + 1) % IndexSize(p)
    BY <1>4 DEF BlockInv, Room
  <2>2. NewKey(p) = TailNo(p) + Len(new) + 1
    BY DEF NewKey, TailNo, new
  <2> QED BY <1>5, <1>7, <1>8, <2>1, <2>2
<1>10. /\ \A r \in Producers \ {p} : entry'[r] = entry[r]
       /\ entry'[p][s] = [key |-> x, block |-> b]
       /\ \A u \in 0 .. IndexSize(p) - 1 : u # s => entry'[p][u] = entry[p][u]
  <2> DEFINE e == [key |-> x, block |-> b]
  <2>1. e \in [key : Int, block : Blocks \cup {NoBlock}]
    OBVIOUS
  <2>2. entry' = [entry EXCEPT ![p][s] = e]
    BY <1>9 DEF Enter
  <2> HIDE DEF e
  <2>3. /\ \A r \in Producers \ {p} : entry'[r] = entry[r]
        /\ entry'[p][s] = e
        /\ \A u \in 0 .. IndexSize(p) - 1 : u # s => entry'[p][u] = entry[p][u]
    BY <2>1, <2>2, OneEntry
  <2> QED BY <2>3 DEF e
<1>11. /\ \A r \in Producers \ {p} : q'[r] = q[r]
       /\ q'[p].isExplicit = q[p].isExplicit /\ q'[p].tail = q[p].tail
       /\ q'[p].head = q[p].head /\ q'[p].ring = ring
  BY EnterOnly
<1>12. q'[p].used = used /\ q'[p].undone = q[p].undone
  BY DEF IInv, TypeOK, Enter, QueueOK
<1>13. Aside(p) /\ TailNo(p)' = T
  <2>1. ASSUME NEW r \in Producers \ {p}, NEW e \in Attached(r) PROVE blk'[e].done = blk[e].done
    BY AttachedBlocks
  <2> QED BY <1>2, <1>5, <1>10, <1>11, <2>1 DEF Aside, TailNo
<1>14. IndexSize(p)' = IndexSize(p) /\ \A n : Rem(p, n)' = Rem(p, n)
  BY <1>13, AsideKept
<1>15. PICK R \in Nat, S \in Nat \ {0}, e \in Int :
         /\ R = Len(ring) /\ S = IndexSize(p) /\ e = d
         /\ R <= S /\ e >= 0 /\ e <= 1 /\ R = L + 1 - e /\ B + e <= L
  <2>1. Len(ring) \in Nat /\ IndexSize(p) \in Nat \ {0} /\ Len(ring) <= IndexSize(p)
    BY <1>4, RingFits
  <2>2. Len(ring) = L + 1 - d /\ B + d <= L
    BY <1>5 DEF Joins
  <2> QED BY <2>1, <2>2, SMTT(60)
<1>16. OnlyUsed(p) /\ InOrder(p)
  BY <1>4 DEF KeepInv, Kept, ExplicitKept
<1>17. \A c \in Blocks : Empty(c) => Empty(c)'
  BY DEF Empty
<1>18. ASSUME NEW j \in 1 .. R - (B + 1) PROVE Spent(p, j)'
  <2>1. PICK i \in Int : i = j + e
    BY <1>15
  <2>2. i \in 1 .. L - B /\ i \in 1 + e .. L /\ i - e = j /\ i \in 1 .. L
    BY <1>15, <2>1
  <2>3. ring[j] = q[p].ring[i] /\ q[p].ring[i] \in Blocks
    <3>1. \A k \in 1 + e .. L : ring[k - e] = q[p].ring[k]
      BY <1>4, <1>5, <1>15
    <3> QED BY <1>3, <1>5, <2>2, <3>1, SMTT(60)
  <2>4. Spent(p, i)
    BY <1>5, <1>16, <2>2 DEF OnlyUsed
  <2>5. RingNo(p, j)' = T - (R - (B + 1) - j) /\ RingNo(p, i) = T - (L - B - i)
    BY <1>5, <1>6, <1>11, <1>13, <1>15 DEF RingNo
  <2>6. RingNo(p, j)' = RingNo(p, i)
    <3>1. T - (R - (B + 1) - j) = T - (L - B - i)
      BY <1>15, <2>1
    <3> QED BY <2>5, <3>1
  <2>7. CASE Empty(q[p].ring[i])
    BY <1>11, <1>17, <2>3, <2>7 DEF Spent, Empty
  <2>8. CASE RingNo(p, i) \in Nat /\ Rem(p, RingNo(p, i)) # {}
    BY <1>14, <2>6, <2>8 DEF Rem, Spent
  <2> QED BY <2>4, <2>7, <2>8 DEF Spent
<1>19. ASSUME NEW k \in 1 .. B + 1 PROVE Empty(plan[p].new[k])'
  <2>1. CASE k = B + 1
    BY <1>2, <1>6, <2>1 DEF Empty
  <2>2. CASE k # B + 1
    <3>1. k \in 1 .. B
      BY <2>2
    <3>2. new[k] \in Blocks /\ Empty(new[k])
      BY <1>3, <1>5, <1>16, <3>1 DEF OnlyUsed, new
    <3> QED BY <1>2, <1>6, <1>17, <3>1, <3>2 DEF Empty
  <2> QED BY <2>1, <2>2
<1>20. OnlyUsed(p)'
  BY <1>6, <1>11, <1>15, <1>18, <1>19 DEF OnlyUsed
<1>21. InOrder(p)'
  <2>1. Built(p)' # 0
    BY <1>6
  <2>2. SUFFICES ASSUME ~q[p].undone
                 PROVE  /\ used = R
                        /\ \A m \in Int : m > T + (B + 1) - R /\ m <= T + (B + 1) => Entry(p, m).key' = m
    <3>1. Len(q[p].ring)' = R
      BY <1>11, <1>15
    <3> QED BY <1>6, <1>12, <1>13, <2>1, <3>1 DEF InOrder
  <2>3. /\ used = R
        /\ \A m \in Int : m > T + B - L /\ m <= T + B => Entry(p, m).key = m
    BY <1>5, <1>15, <1>16, <2>2 DEF InOrder
  <2>4. ASSUME NEW m \in Int, m > T + (B + 1) - R, m <= T + (B + 1) PROVE Entry(p, m).key' = m
    <3>1. CASE m = x
      BY <1>8, <1>10, <1>14, <3>1 DEF Entry
    <3>2. CASE m # x
      <4>1. m < x /\ x - m < S /\ m > T + B - L /\ m <= T + B
        BY <1>7, <1>15, <2>4, <3>2
      <4>2. m % S # x % S
        BY <4>1, SlotsApart
      <4>3. PICK u \in 0 .. IndexSize(p) - 1 : u = m % IndexSize(p)
        BY SlotIn
      <4>4. entry'[p][u] = entry[p][u]
        BY <1>8, <1>10, <1>15, <4>2, <4>3
      <4>5. Entry(p, m).key = m
        BY <2>3, <4>1
      <4> QED BY <1>14, <4>3, <4>4, <4>5 DEF Entry
    <3> QED BY <3>1, <3>2
  <2> QED BY <2>3, <2>4
<1>22. Kept(p)'
  BY <1>4, <1>11, <1>20, <1>21 DEF Kept, ImplicitKept, ExplicitKept
<1>23. Attached(p)' = ToSet(ring)
  BY <1>4, <1>11 DEF Attached
<1> QED BY <1>13, <1>22, <1>23, AsideInv

LEMMA ReuseAheadKept ==
  ASSUME IInv, BlockInv, KeepInv, NEW p \in Producers, q[p].isExplicit, ReuseAhead(p)
  PROVE  KeepInv'
<1>1. plan[p].pc \in {"grow", "inject"} /\ UNCHANGED <<blk, fresh, free, away, take>>
  BY DEF ReuseAhead, Growing, At, pool
<1>2. PICK b \in Blocks, ring \in Seq(Blocks) :
        /\ blk[b].done = BLOCK_SIZE /\ Enter(p, "grow", b, ring, q[p].used)
        /\ Joins(p, b, ring, 1) /\ ToSet(ring) = Attached(p)
  BY ReuseJoins
<1>3. Len(ring) = Len(q[p].ring)
  BY <1>2, Lengths DEF Joins
<1>4. \A r \in Producers \ {p} : b \notin Attached(r)
  <2>1. Len(ring) >= 1
    BY <1>2, <1>3, Lengths DEF Joins
  <2>2. b \in Attached(p)
    BY <1>2, <2>1 DEF Joins, ToSet
  <2> QED BY <2>2 DEF BlockInv, Pools
<1> QED BY <1>1, <1>2, <1>3, <1>4, EnterKept

LEMMA InjectBlockKept ==
  ASSUME IInv, BlockInv, KeepInv, NEW p \in Producers, q[p].isExplicit, InjectBlock(p)
  PROVE  KeepInv'
<1>1. plan[p].pc \in {"grow", "inject"} /\ UNCHANGED take
  BY DEF InjectBlock, Injecting, Growing, At
<1>2. PICK b \in Available, ring \in Seq(Blocks) :
        /\ Requisition(b) /\ blk' = [blk EXCEPT ![b].done = BLOCK_SIZE]
        /\ Enter(p, "inject", b, ring, q[p].used + 1)
        /\ Joins(p, b, ring, 0) /\ ToSet(ring) = Attached(p) \cup {b}
  BY InjectJoins
<1>3. /\ b \in Blocks /\ \A r \in Producers : b \notin Attached(r)
      /\ fresh' = fresh \ {b} /\ free' = free \ {b} /\ away' = away
  BY <1>2, FromPool DEF Requisition
<1>4. blk'[b].done = BLOCK_SIZE /\ \A e \in Blocks \ {b} : blk'[e].done = blk[e].done
  <2>1. BLOCK_SIZE \in 0 .. BLOCK_SIZE
    BY BlockNumbers
  <2> QED BY <1>2, <1>3, <2>1, OneCount
<1>5. q[p].used = Len(q[p].ring) => q[p].used + 1 = Len(ring)
  BY <1>2, Lengths DEF Joins
<1>6. ASSUME NEW e \in Blocks, e \in fresh \cup free \cup away \/ e \in Attached(p)
      PROVE  e \in fresh' \cup free' \cup away' \/ e \in ToSet(ring)
  BY <1>2, <1>3, <1>6
<1> QED BY <1>1, <1>2, <1>3, <1>4, <1>5, <1>6, EnterKept

(* A failed enqueue leaves its blocks, which are empty, ahead in the ring.   *)
LEMMA ExplicitUndoKept ==
  ASSUME IInv, BlockInv, KeepInv, NEW p \in Producers, q[p].isExplicit, ExplicitUndo(p)
  PROVE  KeepInv'
<1> DEFINE r == q[p].ring
           new == plan[p].new
           ring == IF plan[p].start = <<>> THEN (IF r = <<>> THEN r ELSE Rotate(r, 1))
                   ELSE Rotate(r, Len(r) - Len(new))
<1>1. /\ plan[p].pc # "idle" /\ plan[p].pc \in {"grow", "inject"} /\ q[p].isExplicit
      /\ UNCHANGED <<entry, blk, fresh, free, away, take>> /\ Return(p)
      /\ q' = [q EXCEPT ![p].front = plan[p].front, ![p].used = plan[p].used,
                        ![p].undone = @ \/ new # <<>>, ![p].ring = ring]
  BY DEF ExplicitUndo, Injecting, Growing, At, pool
<1>2. /\ plan'[p].pc = "idle" /\ Built(p)' = 0
      /\ \A d \in Producers \ {p} : plan'[d] = plan[d]
  BY <1>1, ReturnGoes
<1>3. /\ r \in Seq(Blocks) /\ Distinct(r) /\ Attached(p) = ToSet(r)
      /\ Built(p) = Len(new) /\ Built(p) <= Len(r)
  BY <1>1, RingFacts
<1>4. PICK L \in Nat, B \in Nat, T \in Int :
        L = Len(r) /\ B = Built(p) /\ B = Len(new) /\ T = TailNo(p) /\ B <= L
  BY <1>3, Lengths, Basics
<1>5. /\ plan[p].start = <<>> => B = L
      /\ \A k \in 1 .. B : r[L - B + k] = new[k]
  <2>1. plan[p].start = <<>> => B = L
    BY <1>1, <1>4 DEF BlockInv, Building
  <2>2. \A k \in 1 .. B : NewOK(p, k)
    BY <1>1, <1>4, NewFacts
  <2> QED BY <1>1, <1>4, <2>1, <2>2 DEF NewOK
<1>6. OnlyUsed(p) /\ InOrder(p)
  BY <1>1 DEF KeepInv, Kept, ExplicitKept
<1>7. new \in Seq(Blocks) /\ \A k \in 1 .. B : Empty(new[k])
  BY <1>1, <1>4, <1>6 DEF OnlyUsed, BlockInv, Structure
<1> HIDE DEF r, new
<1>8. /\ ring \in Seq(Blocks) /\ Len(ring) = L /\ ToSet(ring) = ToSet(r)
      /\ \A j \in 1 .. L : Empty(ring[j]) \/ (j - B \in 1 .. L - B /\ ring[j] = r[j - B])
  <2>1. CASE plan[p].start = <<>>
    <3>1. \A k \in 1 .. L : Empty(r[k])
      <4>1. ASSUME NEW k \in 1 .. L PROVE r[k] = new[k] /\ k \in 1 .. B
        BY <1>5, <2>1
      <4> QED BY <1>7, <4>1
    <3>2. CASE r = <<>>
      BY <1>3, <1>4, <2>1, <3>1, <3>2
    <3>3. CASE r # <<>>
      <4>1. 1 \in 0 .. Len(r)
        BY <1>3, <3>3
      <4>2. ring = Rotate(r, 1)
        BY <2>1, <3>3
      <4>3. /\ Rotate(r, 1) \in Seq(Blocks) /\ Len(Rotate(r, 1)) = Len(r)
            /\ ToSet(Rotate(r, 1)) = ToSet(r)
        BY <1>3, <4>1, Rotated, RotatedSet
      <4>4. \A j \in 1 .. L : Rotate(r, 1)[j] = IF j <= L - 1 THEN r[1 + j] ELSE r[j - (L - 1)]
        BY <1>3, <1>4, <4>1, Rotated
      <4>5. ASSUME NEW j \in 1 .. L PROVE Empty(Rotate(r, 1)[j])
        <5>1. PICK k \in 1 .. L : Rotate(r, 1)[j] = r[k]
          <6>1. CASE j <= L - 1
            BY <4>4, <6>1
          <6>2. CASE ~(j <= L - 1)
            BY <4>4, <6>2
          <6> QED BY <6>1, <6>2
        <5> QED BY <3>1, <5>1
      <4> QED BY <1>4, <4>2, <4>3, <4>5
    <3> QED BY <3>2, <3>3
  <2>2. CASE plan[p].start # <<>>
    <3>1. PICK k \in 0 .. Len(r) : k = Len(r) - Len(new) /\ L - k = B /\ k = L - B
      <4>1. L - B \in 0 .. L /\ L - (L - B) = B
        BY <1>4
      <4> QED BY <1>4, <4>1
    <3>2. ring = Rotate(r, k)
      BY <2>2, <3>1
    <3>3. /\ Rotate(r, k) \in Seq(Blocks) /\ Len(Rotate(r, k)) = Len(r)
          /\ ToSet(Rotate(r, k)) = ToSet(r)
      BY <1>3, Rotated, RotatedSet
    <3>4. \A j \in 1 .. L : Rotate(r, k)[j] = IF j <= B THEN r[k + j] ELSE r[j - B]
      BY <1>3, <1>4, <3>1, Rotated
    <3>5. ASSUME NEW j \in 1 .. L
          PROVE  Empty(Rotate(r, k)[j]) \/ (j - B \in 1 .. L - B /\ Rotate(r, k)[j] = r[j - B])
      <4>1. CASE j <= B
        <5>1. j \in 1 .. B /\ r[L - B + j] = new[j]
          BY <1>5, <4>1
        <5> QED BY <1>7, <3>1, <3>4, <4>1, <5>1
      <4>2. CASE ~(j <= B)
        BY <3>4, <4>2
      <4> QED BY <4>1, <4>2
    <3> QED BY <1>4, <3>2, <3>3, <3>5
  <2> QED BY <2>1, <2>2
<1> HIDE DEF ring
<1>9. PICK w : w = (q[p].undone \/ new # <<>>)
  OBVIOUS
<1>10. q' = [q EXCEPT ![p].front = plan[p].front, ![p].used = plan[p].used,
                      ![p].undone = w, ![p].ring = ring]
  BY <1>1, <1>9
<1>11. /\ \A d \in Producers \ {p} : q'[d] = q[d]
       /\ q'[p].isExplicit = q[p].isExplicit /\ q'[p].tail = q[p].tail
       /\ q'[p].head = q[p].head /\ q'[p].ring = ring
       /\ q'[p].used = plan[p].used /\ q'[p].undone = w
  BY <1>10 DEF IInv, TypeOK, QueueOK
<1>13. Aside(p) /\ TailNo(p)' = T
  BY <1>1, <1>2, <1>4, <1>11 DEF Aside, TailNo
<1>14. IndexSize(p)' = IndexSize(p) /\ \A n : Rem(p, n)' = Rem(p, n)
  BY <1>13, AsideKept
<1>15. ASSUME NEW j \in 1 .. L PROVE Spent(p, j)'
  <2>1. CASE Empty(ring[j])
    BY <1>1, <1>11, <2>1 DEF Spent, Empty
  <2>2. CASE j - B \in 1 .. L - B /\ ring[j] = r[j - B]
    <3>1. PICK i \in 1 .. L - B : i = j - B
      BY <2>2
    <3>2. Spent(p, i)
      BY <1>4, <1>6, <3>1 DEF OnlyUsed, r
    <3>3. RingNo(p, j)' = RingNo(p, i)
      <4>1. RingNo(p, j)' = T - (L - 0 - j) /\ RingNo(p, i) = T - (L - B - i)
        BY <1>2, <1>4, <1>8, <1>11, <1>13 DEF RingNo, r
      <4>2. T - (L - 0 - j) = T - (L - B - i)
        BY <3>1
      <4> QED BY <4>1, <4>2
    <3>4. CASE Empty(r[i])
      BY <1>1, <1>11, <2>2, <3>1, <3>4 DEF Spent, Empty
    <3>5. CASE RingNo(p, i) \in Nat /\ Rem(p, RingNo(p, i)) # {}
      BY <1>14, <3>3, <3>5 DEF Rem, Spent
    <3> QED BY <3>2, <3>4, <3>5 DEF Spent, r
  <2> QED BY <1>8, <2>1, <2>2
<1>16. OnlyUsed(p)'
  BY <1>2, <1>8, <1>11, <1>15 DEF OnlyUsed
<1>17. InOrder(p)'
  <2>1. CASE w
    BY <1>2, <1>11, <2>1 DEF InOrder
  <2>2. CASE ~w
    <3>1. ~q[p].undone /\ B = 0
      <4>1. ~q[p].undone /\ new = <<>>
        BY <1>9, <2>2, Zenon
      <4> QED BY <1>4, <4>1
    <3>2. plan[p].used = q[p].used
      BY <1>1, <1>4, <1>6, <3>1 DEF InOrder
    <3>3. q[p].used = L
          /\ \A m \in Int : m > T + 0 - L /\ m <= T + 0 => Entry(p, m).key = m
      BY <1>4, <1>6, <3>1 DEF InOrder, r
    <3>4. \A m : Entry(p, m)' = Entry(p, m)
      BY <1>1, <1>14 DEF Entry
    <3>5. Len(q[p].ring)' = L
      BY <1>8, <1>11
    <3> QED BY <1>2, <1>11, <1>13, <3>2, <3>3, <3>4, <3>5 DEF InOrder
  <2> QED BY <2>1, <2>2
<1>18. Kept(p)'
  BY <1>1, <1>11, <1>16, <1>17 DEF Kept, ImplicitKept, ExplicitKept
<1>19. Attached(p)' = Attached(p)
  BY <1>1, <1>3, <1>8, <1>11 DEF Attached
<1> QED BY <1>1, <1>13, <1>18, <1>19, AsideInv

(* The blocks of the call count as full.                                     *)
LEMMA ShowBlocksKept ==
  ASSUME IInv, BlockInv, KeepInv, NEW p \in Producers, ShowBlocks(p)
  PROVE  KeepInv'
<1>1. /\ plan[p].pc # "idle" /\ Plan(p, "fill", plan[p].new)
      /\ UNCHANGED <<entry, fresh, free, away, take>>
  BY DEF ShowBlocks, At, pool
<1>2. PICK new : new = plan[p].new
  OBVIOUS
<1>3. /\ plan'[p].pc = "fill" /\ plan'[p].new = new
      /\ \A r \in Producers \ {p} : plan'[r] = plan[r]
      /\ Built(p)' = Len(new)
  BY <1>1, <1>2, PlanGoes
<1>4. plan'[p].used = plan[p].used
  <2>1. PlanOK(plan[p]) /\ DOMAIN plan = Producers
    BY DEF IInv, TypeOK
  <2>2. plan' = [plan EXCEPT ![p] = [plan[p] EXCEPT !.pc = "fill", !.new = new]]
    BY <1>1, <1>2 DEF Plan
  <2> QED BY <1>1, <2>1, <2>2 DEF PlanOK, NoCall
<1>5. new \in Seq(Blocks) /\ Built(p) = Len(new) /\ Built(p)' = Built(p)
  BY <1>1, <1>2, <1>3 DEF BlockInv, Structure, Built
<1>6. PICK B \in Nat, L \in Nat : B = Built(p) /\ L = Len(q[p].ring) /\ B = Len(new)
  BY <1>5, Lengths
<1>7. /\ \A r \in Producers \ {p} : q'[r] = q[r]
      /\ q'[p].isExplicit = q[p].isExplicit /\ q'[p].tail = q[p].tail
      /\ q'[p].head = q[p].head /\ q'[p].ring = q[p].ring
      /\ q'[p].used = q[p].used /\ q'[p].undone = q[p].undone
  <2>1. CASE q' = q
    BY <2>1
  <2>2. CASE q' # q
    BY <2>2, LastOnly DEF ShowBlocks, IInv, TypeOK, QueueOK
  <2> QED BY <2>1, <2>2
<1>8. /\ \A e \in Blocks : e \notin ToSet(new) => blk'[e].done = blk[e].done
      /\ ~q[p].isExplicit => blk' = blk
  <2>1. CASE q[p].isExplicit /\ new # <<>>
    BY <1>2, <2>1 DEF ShowBlocks
  <2>2. CASE ~(q[p].isExplicit /\ new # <<>>)
    BY <1>2, <2>2 DEF ShowBlocks
  <2> QED BY <2>1, <2>2
<1>9. ASSUME NEW e \in ToSet(new) PROVE \E k \in 1 .. B : e = new[k]
  BY <1>5, <1>6 DEF ToSet
<1>10. Aside(p) /\ TailNo(p)' = TailNo(p) /\ Attached(p)' = Attached(p)
  <2>1. ASSUME NEW r \in Producers \ {p}, NEW e \in Attached(r) PROVE blk'[e].done = blk[e].done
    <3>1. e \in Blocks /\ e \notin Attached(p)
      BY AttachedBlocks DEF BlockInv, Pools
    <3>2. e \notin ToSet(new)
      <4>1. SUFFICES ASSUME e \in ToSet(new) PROVE FALSE
        OBVIOUS
      <4>2. PICK k \in 1 .. Built(p) : e = new[k]
        BY <1>6, <1>9, <4>1
      <4>3. plan[p].new[k] \in Attached(p)
        BY <1>1, NewFacts
      <4> QED BY <1>2, <3>1, <4>2, <4>3
    <3> QED BY <1>8, <3>1, <3>2
  <2> QED BY <1>1, <1>3, <1>7, <2>1 DEF Aside, TailNo, Attached
<1>11. IndexSize(p)' = IndexSize(p) /\ (\A n : Rem(p, n)' = Rem(p, n))
       /\ \A m : Used(p, m) => Used(p, m)'
  BY <1>10, AsideKept
<1>12. Kept(p)
  BY DEF KeepInv
<1>13. ImplicitKept(p)'
  <2>1. \A m : Held(p, m) => Held(p, m)'
    BY <1>1, <1>3, <1>5, <1>10, <1>11 DEF Held
  <2> QED BY <1>1, <1>7, <1>11, <1>12, <2>1 DEF Kept, ImplicitKept
<1>14. ASSUME q[p].isExplicit, NEW j \in 1 .. L - B PROVE Spent(p, j)'
  <2>1. Spent(p, j)
    BY <1>6, <1>12, <1>14 DEF Kept, ExplicitKept, OnlyUsed
  <2>2. q[p].ring \in Seq(Blocks) /\ Distinct(q[p].ring) /\ B <= L
    BY <1>1, <1>6, <1>14, RingFacts
  <2>3. j \in 1 .. L /\ q[p].ring[j] \in Blocks
    BY <1>6, <2>2
  <2>4. q[p].ring[j] \notin ToSet(new)
    <3>1. SUFFICES ASSUME NEW k \in 1 .. B, q[p].ring[j] = new[k] PROVE FALSE
      BY <1>9
    <3>2. NewOK(p, k)
      BY <1>1, <1>6, NewFacts
    <3>3. q[p].ring[L - B + k] = q[p].ring[j]
      BY <1>2, <1>6, <1>14, <3>1, <3>2 DEF NewOK
    <3>4. L - B + k \in 1 .. L /\ L - B + k # j
      BY <2>2
    <3> QED BY <1>6, <2>2, <2>3, <3>3, <3>4 DEF Distinct
  <2>5. blk'[q[p].ring[j]].done = blk[q[p].ring[j]].done
    BY <1>8, <2>3, <2>4
  <2>6. RingNo(p, j)' = RingNo(p, j)
    BY <1>5, <1>7, <1>10 DEF RingNo
  <2> QED BY <1>7, <1>11, <2>1, <2>5, <2>6 DEF Spent, Empty
<1>15. q[p].isExplicit => OnlyUsed(p)'
  BY <1>3, <1>5, <1>6, <1>7, <1>14 DEF OnlyUsed
<1>16. ASSUME q[p].isExplicit PROVE InOrder(p)'
  <2>1. InOrder(p)
    BY <1>12, <1>16 DEF Kept, ExplicitKept
  <2>2. \A m : Entry(p, m)' = Entry(p, m)
    BY <1>1, <1>11 DEF Entry
  <2> QED BY <1>1, <1>4, <1>5, <1>7, <1>10, <2>1, <2>2 DEF InOrder
<1>17. Kept(p)'
  BY <1>7, <1>13, <1>15, <1>16 DEF Kept, ExplicitKept
<1> QED BY <1>1, <1>10, <1>17, AsideInv

(* The tail block is number -1 at least.                                     *)
LEMMA TailFrom ==
  ASSUME IInv, NEW p \in Producers
  PROVE  TailNo(p) \in Int /\ TailNo(p) >= -1
<1>1. PICK t \in Int : t = q[p].tail - 1 /\ -1 <= t
  BY Basics
<1>2. PICK S \in Nat \ {0} : S = BLOCK_SIZE
  BY BlockNumbers
<1>3. BLOCK_SIZE * (-1) <= -1 /\ -1 < BLOCK_SIZE * (-1) + BLOCK_SIZE
  <2>1. S * (-1) = -S
    BY SMT
  <2> QED BY <1>2, <2>1
<1>4. PICK m \in Int : m = -1
  OBVIOUS
<1>5. BlockNo(m) = m
  BY <1>3, <1>4, BlockNumbers
<1>6. BlockNo(m) <= BlockNo(t) /\ BlockNo(t) \in Int
  BY <1>1, <1>4, BlockNumbers
<1> QED BY <1>1, <1>4, <1>5, <1>6 DEF TailNo

(* The blocks of the call are in use.                                        *)
LEMMA FillKept ==
  ASSUME IInv, BlockInv, KeepInv, NEW p \in Producers, Fill(p)
  PROVE  KeepInv'
<1> DEFINE new == plan[p].new
<1>1. /\ plan[p].pc = "fill" /\ plan[p].pc # "idle"
      /\ Return(p) /\ UNCHANGED <<entry, fresh, free, away, take>>
  BY DEF Fill, At, pool
<1>2. /\ plan'[p].pc = "idle" /\ Built(p)' = 0
      /\ \A r \in Producers \ {p} : plan'[r] = plan[r]
  BY <1>1, ReturnGoes
<1>3. /\ plan[p].n \in Nat \ {0} /\ new \in Seq(Blocks) /\ q[p].ring \in Seq(Blocks)
      /\ q[p].tail \in Nat /\ Built(p) = Len(new)
  BY <1>1, Basics DEF BlockInv, Structure, Built
<1>4. PICK B \in Nat, L \in Nat, T \in Int :
        B = Built(p) /\ L = Len(q[p].ring) /\ T = TailNo(p) /\ T >= -1
  BY Lengths, TailFrom
<1>5. \A b \in Blocks : blk'[b].done = blk[b].done
  BY <1>1, CellsWritten
<1> HIDE DEF new
<1>6. /\ \A r \in Producers \ {p} : q'[r] = q[r]
      /\ q'[p].isExplicit = q[p].isExplicit /\ q'[p].tail = q[p].tail + plan[p].n
      /\ q'[p].head = q[p].head /\ q'[p].used = q[p].used /\ q'[p].undone = q[p].undone
      /\ q'[p].ring = IF q[p].isExplicit \/ new = <<>> THEN q[p].ring ELSE <<Last(new)>>
  BY DEF IInv, TypeOK, Fill, new, QueueOK
<1>7. TailNo(p)' = T + B
  <2>1. Built(p) = BlockNo(q[p].tail + plan[p].n - 1) - TailNo(p)
    BY <1>1 DEF BlockInv, Building
  <2>2. PICK t \in Int : t = q[p].tail + plan[p].n - 1
    BY <1>3
  <2>3. q'[p].tail - 1 = t
    <3>1. PICK a \in Int, m \in Int : a = q[p].tail /\ m = plan[p].n
      BY <1>3
    <3>2. q'[p].tail = a + m /\ t = a + m - 1
      BY <1>6, <2>2, <3>1
    <3> QED BY <3>2
  <2>4. TailNo(p)' = BlockNo(q'[p].tail - 1)
    BY DEF TailNo
  <2>5. BlockNo(t) \in Int
    BY BlockNumbers
  <2> QED BY <1>4, <2>1, <2>2, <2>3, <2>4, <2>5
<1>8. Aside(p) /\ Attached(p)' = Attached(p)
  <2>1. ASSUME NEW r \in Producers, NEW b \in Attached(r) PROVE blk'[b].done = blk[b].done
    BY <1>5, AttachedBlocks
  <2>2. Attached(p)' = Attached(p)
    BY <1>1, <1>6 DEF Attached
  <2> QED BY <1>1, <1>2, <1>6, <2>1, <2>2 DEF Aside
<1>9. IndexSize(p)' = IndexSize(p) /\ \A n : Rem(p, n)' = Rem(p, n)
  BY <1>8, AsideKept
<1>10. ASSUME NEW k \in 1 .. B PROVE T + k \in Nat /\ Rem(p, T + k)' # {}
  <2>1. PICK n \in Int : n = T + k /\ n > T /\ n >= 0
    BY <1>4
  <2>2. Cardinality(Rem(p, n)) = BLOCK_SIZE
    BY <1>4, <2>1, Whole
  <2>3. \A i \in Rem(p, n) : i \in Int /\ BlockNo(i) = n
    BY DEF Rem
  <2>4. Rem(p, n) # {}
    BY <2>1, <2>2, <2>3, Countable, BlockNumbers
  <2>5. Rem(p, n)' # {}
    BY <1>9, <2>4
  <2>6. Rem(p, T + k)' # {}
    BY <2>1, <2>5 DEF Rem
  <2> QED BY <2>1, <2>6
<1>11. \A m : Held(p, m) => Held(p, m)'
  <2>1. ASSUME NEW m, Used(p, m) PROVE Used(p, m)'
    <3>1. m \in Nat /\ m <= TailNo(p)'
      BY <1>4, <1>7, <2>1 DEF Used
    <3>2. CASE Rem(p, m) # {}
      BY <1>9, <3>1, <3>2 DEF Used
    <3>3. CASE \E c \in Consumers : take[c].pc = "release" /\ take[c].prod = p /\ Number(c) = m
      BY <1>1, <3>1, <3>3 DEF Number, Used
    <3> QED BY <2>1, <3>2, <3>3 DEF Used
  <2>2. ASSUME NEW k \in 1 .. B, NEW m, m = T + k PROVE Used(p, m)'
    <3>1. m \in Nat /\ Rem(p, m)' # {}
      BY <1>10, <2>2
    <3>2. m <= TailNo(p)'
      BY <1>7, <2>2
    <3> QED BY <3>1, <3>2 DEF Used
  <2> QED BY <1>4, <2>1, <2>2 DEF Held
<1>12. Kept(p)
  BY DEF KeepInv
<1>13. ImplicitKept(p)'
  <2>1. ~q[p].isExplicit => Len(q'[p].ring) <= 1
    <3>1. CASE new = <<>> \/ q[p].isExplicit
      BY <1>6, <1>12, <3>1 DEF Kept, ImplicitKept
    <3>2. CASE ~(new = <<>> \/ q[p].isExplicit)
      BY <1>6, <3>2
    <3> QED BY <3>1, <3>2
  <2> QED BY <1>1, <1>6, <1>9, <1>11, <1>12, <2>1 DEF Kept, ImplicitKept
<1>14. ASSUME q[p].isExplicit, NEW j \in 1 .. L PROVE Spent(p, j)'
  <2>1. q'[p].ring = q[p].ring /\ q[p].ring[j] \in Blocks
    BY <1>3, <1>4, <1>6, <1>14
  <2>2. RingNo(p, j)' = T + B - (L - 0 - j)
    BY <1>2, <1>4, <1>7, <2>1 DEF RingNo
  <2>3. CASE j <= L - B
    <3>1. j \in 1 .. L - B
      BY <2>3
    <3>2. Spent(p, j)
      BY <1>4, <1>12, <1>14, <3>1 DEF Kept, ExplicitKept, OnlyUsed
    <3>3. RingNo(p, j) = T - (L - B - j)
      BY <1>4 DEF RingNo
    <3>4. PICK n \in Int : n = RingNo(p, j) /\ n = RingNo(p, j)'
      BY <2>2, <3>3
    <3>5. CASE Empty(q[p].ring[j])
      BY <1>5, <2>1, <3>5 DEF Spent, Empty
    <3>6. CASE n \in Nat /\ Rem(p, n) # {}
      BY <1>9, <3>4, <3>6 DEF Rem, Spent
    <3> QED BY <3>2, <3>4, <3>5, <3>6 DEF Spent
  <2>4. CASE ~(j <= L - B)
    <3>1. PICK k \in 1 .. B : j = L - B + k
      BY <2>4
    <3>2. RingNo(p, j)' = T + k
      BY <2>2, <3>1
    <3>3. T + k \in Nat /\ Rem(p, T + k)' # {}
      BY <1>10
    <3>4. Rem(p, RingNo(p, j))' # {}
      BY <3>2, <3>3 DEF Rem
    <3> QED BY <3>2, <3>3, <3>4 DEF Spent
  <2> QED BY <2>3, <2>4
<1>15. ASSUME q[p].isExplicit PROVE OnlyUsed(p)'
  BY <1>2, <1>4, <1>6, <1>14, <1>15 DEF OnlyUsed
<1>16. ASSUME q[p].isExplicit PROVE InOrder(p)'
  <2>1. InOrder(p)
    BY <1>12, <1>16 DEF Kept, ExplicitKept
  <2>2. \A m : Entry(p, m)' = Entry(p, m)
    BY <1>1, <1>9 DEF Entry
  <2>3. Len(q[p].ring)' = L
    BY <1>4, <1>6, <1>16
  <2>4. CASE q[p].undone
    BY <1>2, <1>6, <2>4 DEF InOrder
  <2>5. CASE ~q[p].undone
    <3>1. q'[p].used = L
      BY <1>4, <1>6, <2>1, <2>5 DEF InOrder
    <3>2. ASSUME NEW m \in Int, m > T + B - L, m <= T + B PROVE Entry(p, m).key = m
      BY <1>4, <2>1, <2>5, <3>2 DEF InOrder
    <3>3. ASSUME NEW m \in Int, m > TailNo(p)' + Built(p)' - L, m <= TailNo(p)' + Built(p)'
          PROVE  Entry(p, m)'.key = m
      <4>1. m > T + B - L /\ m <= T + B
        BY <1>2, <1>4, <1>7, <3>3
      <4> QED BY <2>2, <3>2, <4>1
    <3> QED BY <1>2, <2>3, <3>1, <3>3 DEF InOrder
  <2> QED BY <2>4, <2>5
<1>17. Kept(p)'
  BY <1>6, <1>13, <1>15, <1>16 DEF Kept, ExplicitKept
<1> QED BY <1>1, <1>8, <1>17, AsideInv

(* At first every block is fresh.                                            *)
LEMMA InitKept ==
  ASSUME Init
  PROVE  KeepInv
<1>1. PICK kind \in [Producers -> BOOLEAN] :
       /\ q = [p \in Producers |->
                [isExplicit |-> kind[p], tail |-> 0, head |-> 0, opt |-> 0, over |-> 0,
                 last |-> Size(kind[p]) - 1, front |-> 0, used |-> 0, ring |-> <<>>,
                 undone |-> FALSE]]
       /\ entry = [p \in Producers |->
                    [s \in 0..(Size(kind[p]) - 1) |-> [key |-> -1, block |-> NoBlock]]]
  BY DEF Init
<1>2. /\ fresh = Blocks /\ plan = [p \in Producers |-> NoCall]
  BY DEF Init
<1>3. ASSUME NEW p \in Producers
      PROVE  /\ q[p].ring = <<>> /\ q[p].used = 0 /\ q[p].tail = 0 /\ Len(q[p].ring) = 0
             /\ plan[p].pc = "idle" /\ Built(p) = 0
  BY <1>1, <1>2 DEF NoCall, Built
<1>4. ASSUME NEW p \in Producers PROVE ImplicitKept(p)
  BY <1>1, <1>3 DEF IndexSize, ImplicitKept
<1>5. ASSUME NEW p \in Producers PROVE OnlyUsed(p) /\ InOrder(p)
  <2>1. OnlyUsed(p)
    BY <1>3 DEF OnlyUsed
  <2>2. TailNo(p) \in Int
    BY InitIInv, Basics
  <2>3. \A m \in Int : ~(m > TailNo(p) + 0 - 0 /\ m <= TailNo(p) + 0)
    BY <2>2
  <2> QED BY <1>3, <2>1, <2>3 DEF InOrder
<1> QED BY <1>2, <1>4, <1>5 DEF KeepInv, Owned, Kept, ExplicitKept

(* Every step keeps the blocks where they belong.                            *)
LEMMA NextKept ==
  ASSUME IInv, BlockInv, KeepInv, [Next]_vars
  PROVE  KeepInv'
<1>1. IInv' /\ BlockInv'
  BY NextIInv, NextBlocks
<1>2. ASSUME NEW p \in Producers,
             IF q[p].isExplicit THEN ExplicitEnqueue(p) ELSE ImplicitEnqueue(p)
      PROVE  KeepInv'
  <2>1. CASE (\E n \in Sizes : Begin(p, n)) \/ ShowBlocks(p) \/ Fill(p)
    BY <2>1, BeginKept, ShowBlocksKept, FillKept
  <2>2. CASE q[p].isExplicit /\ (ReuseAhead(p) \/ InjectBlock(p) \/ ExplicitUndo(p))
    BY <2>2, ReuseAheadKept, InjectBlockKept, ExplicitUndoKept
  <2>3. CASE ~q[p].isExplicit /\ (InsertKey(p) \/ InstallBlock(p) \/ ImplicitUndo(p))
    BY <2>3, InsertKeyKept, InstallBlockKept, ImplicitUndoKept
  <2>4. CASE q[p].isExplicit
    BY <1>2, <2>1, <2>2, <2>4 DEF ExplicitEnqueue
  <2>5. CASE ~q[p].isExplicit
    BY <1>2, <2>1, <2>3, <2>5 DEF ImplicitEnqueue
  <2> QED BY <2>4, <2>5
<1>3. ASSUME NEW c \in Consumers, NEW P \in SUBSET Producers, TakeFrom(c, P)
      PROVE  KeepInv'
  <2>1. CASE (\E p \in P, max \in Sizes : Look(c, p, max)) \/ Claim(c) \/ Check(c) \/ GiveBack(c)
    BY <2>1, EarlyKept
  <2>2. CASE Advance(c) \/ SetEmpty(c) \/ Release(c)
    BY <2>2, AdvanceKept, SetEmptyKept, ReleaseKept
  <2>3. CASE LoadLast(c) \/ LoadKey(c) \/ CopyOut(c)
    BY <1>1, <2>3, FindKept
  <2> QED BY <1>3, <2>1, <2>2, <2>3 DEF TakeFrom
<1>4. CASE \E c \in Consumers : ImplicitDequeue(c) \/ ExplicitDequeue(c)
  BY <1>3, <1>4 DEF ImplicitDequeue, ExplicitDequeue
<1>5. CASE UNCHANGED vars
  <2>1. UNCHANGED <<q, entry, blk, fresh, free, away, plan, take>>
    BY <1>5 DEF vars
  <2>2. ASSUME NEW p \in Producers PROVE Kept(p)'
    <3>1. SameQueue(p) /\ Kept(p)
      BY <2>1 DEF SameQueue, KeepInv
    <3>2. \A n : Rem(p, n)' = Rem(p, n)
      BY <2>1 DEF Rem, Pending, Span, Number
    <3>3. \A n : Used(p, n) => Used(p, n)'
      BY <2>1, <3>2 DEF Used, TailNo, Number
    <3> QED BY <2>1, <3>1, <3>2, <3>3, KeptSame
  <2>3. Owned'
    BY <2>1, OwnedSame DEF KeepInv, SameQueue
  <2> QED BY <2>2, <2>3 DEF KeepInv
<1> QED BY <1>2, <1>4, <1>5, PoolKept DEF Next
-------------------------------------------------------------------------------
(* When no call is running.                                                  *)
AtRest ==
  /\ \A p \in Producers : plan[p].pc = "idle"
  /\ \A c \in Consumers : take[c].pc = "idle"
First(p) == BlockNo(q[p].head)

(* The same of one index, with the size named.                               *)
LEMMA BlockNumber ==
  ASSUME NEW i \in Int, NEW S \in Nat \ {0}, S = BLOCK_SIZE
  PROVE  /\ BlockNo(i) \in Int /\ S * BlockNo(i) <= i /\ i < S * BlockNo(i) + S
         /\ i % BLOCK_SIZE = i - S * BlockNo(i)
         /\ \A n \in Int : S * n <= i /\ i < S * n + S => BlockNo(i) = n
<1> QED BY BlockNumbers

(* An index waits from the head to the tail, and the blocks in use are those *)
(* from the head's on to the tail block.                                     *)
LEMMA RestUsed ==
  ASSUME IInv, AtRest, NEW p \in Producers
  PROVE  /\ q[p].head \in Nat /\ q[p].tail \in Nat /\ q[p].head <= q[p].tail
         /\ First(p) \in Nat /\ TailNo(p) \in Int /\ Built(p) = 0
         /\ \A i \in Int : Waiting(p, i) <=> q[p].head <= i /\ i < q[p].tail
         /\ \A n : Used(p, n) <=> n \in Nat /\ First(p) <= n /\ n <= TailNo(p)
<1>1. /\ q[p].head \in Nat /\ q[p].tail \in Nat /\ q[p].head <= q[p].tail
      /\ First(p) \in Nat /\ TailNo(p) \in Int /\ Built(p) = 0
  BY Basics, BlockNumbers DEF First, AtRest, Built
<1>2. \A c \in Consumers : Pending(p, c) = {} /\ Uncopied(p, c) = {}
  BY DEF AtRest, Pending, Uncopied, Working
<1>3. \A i \in Int : Waiting(p, i) <=> q[p].head <= i /\ i < q[p].tail
  BY <1>1, <1>2 DEF Waiting
<1>4. ASSUME NEW n \in Nat PROVE Rem(p, n) # {} <=> First(p) <= n
  <2>1. ASSUME NEW i \in Rem(p, n) PROVE First(p) <= n
    <3>1. i \in Int /\ BlockNo(i) = n /\ q[p].head <= i
      BY <1>1, <1>2 DEF Rem
    <3>2. PICK h \in Int : h = q[p].head
      BY <1>1
    <3>3. BlockNo(h) <= BlockNo(i)
      BY <3>1, <3>2, BlockNumbers
    <3> QED BY <3>1, <3>2, <3>3 DEF First
  <2>2. ASSUME First(p) <= n PROVE Rem(p, n) # {}
    <3>1. PICK S \in Nat \ {0}, h \in Int : S = BLOCK_SIZE /\ h = q[p].head
      <4>1. BLOCK_SIZE \in Nat \ {0}
        BY BlockNumbers
      <4>2. q[p].head \in Int
        BY <1>1
      <4> QED BY <4>1, <4>2
    <3>2. PICK a \in Int, f \in Int : a = S * n /\ f = S * First(p)
      BY <1>1, <3>1, Times
    <3>3. h < f + S
      BY <3>1, <3>2, BlockNumber DEF First
    <3>4. f <= a
      <4>1. CASE First(p) = n
        BY <3>2, <4>1
      <4>2. CASE First(p) # n
        BY <1>1, <2>2, <3>2, <4>2, Times
      <4> QED BY <4>1, <4>2
    <3>5. PICK i \in Int : i = a + S - 1
      OBVIOUS
    <3>6. S * n <= i /\ i < S * n + S
      BY <3>2, <3>5
    <3>7. BlockNo(i) = n
      BY <3>1, <3>6, BlockNumber
    <3>8. i >= q[p].head
      BY <3>1, <3>3, <3>4, <3>5
    <3> QED BY <3>7, <3>8 DEF Rem
  <2> QED BY <2>1, <2>2
<1>5. \A n : Used(p, n) <=> n \in Nat /\ First(p) <= n /\ n <= TailNo(p)
  BY <1>4 DEF AtRest, Used
<1> QED BY <1>1, <1>3, <1>5

(* The elements that are left are those from the head to the tail.           *)
LEMMA LeftAtRest ==
  ASSUME IInv, BlockInv, CellInv, AtRest, NEW p \in Producers
  PROVE  Left(p) = {<<Entry(p, BlockNo(i)).block, i % BLOCK_SIZE>> :
                      i \in q[p].head .. q[p].tail - 1}
<1>1. ASSUME NEW i \in q[p].head .. q[p].tail - 1
      PROVE  <<Entry(p, BlockNo(i)).block, i % BLOCK_SIZE>> \in Left(p)
  <2>1. i \in Nat /\ i \in Int /\ q[p].head <= i /\ i < q[p].tail
    BY RestUsed
  <2>2. Waiting(p, i)
    BY <2>1, RestUsed
  <2>3. Used(p, BlockNo(i)) /\ i % BLOCK_SIZE \in 0 .. BLOCK_SIZE - 1
    BY <2>1, <2>2, WaitingUsed
  <2>4. PICK b \in Blocks, o \in 0 .. BLOCK_SIZE - 1 :
          b = Entry(p, BlockNo(i)).block /\ o = i % BLOCK_SIZE
    BY <2>3, UsedEntry
  <2>5. blk[b].cell[o] = <<p, i>>
    BY <2>1, <2>2, <2>4 DEF CellInv
  <2>6. <<p, i>> # Hole /\ <<p, i>>[1] = p
    BY DEF Hole
  <2> QED BY <2>4, <2>5, <2>6 DEF Left
<1>2. ASSUME NEW e \in Left(p)
      PROVE  \E i \in q[p].head .. q[p].tail - 1 :
               e = <<Entry(p, BlockNo(i)).block, i % BLOCK_SIZE>>
  BY RestUsed DEF Left, CellInv, Holds
<1> QED BY <1>1, <1>2

(* Where the head and the tail are in their blocks.                          *)
LEMMA HeadIn ==
  ASSUME IInv, NEW p \in Producers, NEW i \in Int
  PROVE  q[p].head <= i <=>
           \/ First(p) < BlockNo(i)
           \/ First(p) = BlockNo(i) /\ q[p].head % BLOCK_SIZE <= i % BLOCK_SIZE
<1>1. PICK S \in Nat \ {0}, h \in Int : S = BLOCK_SIZE /\ h = q[p].head
  <2>1. BLOCK_SIZE \in Nat \ {0}
    BY BlockNumbers
  <2>2. q[p].head \in Int
    BY Basics
  <2> QED BY <2>1, <2>2
<1>2. PICK f \in Int, n \in Int : f = First(p) /\ f = BlockNo(h) /\ n = BlockNo(i)
  BY <1>1, BlockNumber DEF First
<1>3. PICK a \in Int, b \in Int : a = S * f /\ b = S * n
  BY Times
<1>4. /\ a <= h /\ h < a + S /\ q[p].head % BLOCK_SIZE = h - a
      /\ b <= i /\ i < b + S /\ i % BLOCK_SIZE = i - b
  BY <1>1, <1>2, <1>3, BlockNumber
<1>5. f < n => a + S <= b
  BY <1>3, Times
<1>6. n < f => b + S <= a
  BY <1>3, Times
<1>7. n = f => a = b
  BY <1>3
<1>8. CASE f < n
  BY <1>1, <1>2, <1>4, <1>5, <1>8
<1>9. CASE n < f
  BY <1>1, <1>2, <1>4, <1>6, <1>9
<1>10. CASE n = f
  BY <1>1, <1>2, <1>4, <1>7, <1>10
<1> QED BY <1>8, <1>9, <1>10

LEMMA TailIn ==
  ASSUME IInv, NEW p \in Producers, NEW i \in Int
  PROVE  i < q[p].tail <=>
           \/ BlockNo(i) < TailNo(p)
           \/ /\ BlockNo(i) = TailNo(p)
              /\ q[p].tail % BLOCK_SIZE = 0 \/ i % BLOCK_SIZE < q[p].tail % BLOCK_SIZE
<1>0. PICK S \in Nat \ {0}, t \in Int : S = BLOCK_SIZE /\ t = q[p].tail
  <2>1. BLOCK_SIZE \in Nat \ {0}
    BY BlockNumbers
  <2>2. q[p].tail \in Int
    BY Basics
  <2> QED BY <2>1, <2>2
<1>1. PICK u \in Int : S = BLOCK_SIZE /\ t = q[p].tail /\ u = q[p].tail - 1 /\ u = t - 1
  BY <1>0
<1>2. PICK f \in Int, n \in Int, m \in Int :
        f = TailNo(p) /\ n = BlockNo(i) /\ m = BlockNo(t) /\ f = BlockNo(u)
  BY <1>1, BlockNumber DEF TailNo
<1>3. PICK a \in Int, b \in Int, c \in Int : a = S * f /\ b = S * n /\ c = S * m
  BY Times
<1>4. /\ a <= u /\ u < a + S
      /\ b <= i /\ i < b + S /\ i % BLOCK_SIZE = i - b
      /\ c <= t /\ t < c + S /\ q[p].tail % BLOCK_SIZE = t - c
  BY <1>1, <1>2, <1>3, BlockNumber
<1>5. f < n => a + S <= b
  BY <1>3, Times
<1>6. n < f => b + S <= a
  BY <1>3, Times
<1>7. n = f => a = b
  BY <1>3
<1>8. CASE f < n
  BY <1>1, <1>2, <1>4, <1>5, <1>8
<1>9. CASE n < f
  BY <1>1, <1>2, <1>4, <1>6, <1>9
<1>10. CASE n = f
  <2>1. CASE t = c
    <3>1. S * (m - 1) = c - S /\ m - 1 \in Int
      BY <1>1, <1>3, Times
    <3>2. BlockNo(u) = m - 1
      BY <1>1, <2>1, <3>1, BlockNumber
    <3>3. f = m - 1
      BY <1>2, <3>2
    <3>4. a = c - S
      BY <1>3, <3>1, <3>3
    <3> QED BY <1>1, <1>2, <1>4, <1>7, <1>10, <2>1, <3>4
  <2>2. CASE t # c
    <3>1. c <= u /\ u < c + S
      BY <1>1, <1>4, <2>2
    <3>2. BlockNo(u) = m
      BY <1>1, <1>2, <1>3, <3>1, BlockNumber
    <3>3. a = c
      BY <1>2, <1>3, <3>2
    <3> QED BY <1>1, <1>2, <1>4, <1>7, <1>10, <2>2, <3>3
  <2> QED BY <2>1, <2>2
<1> QED BY <1>8, <1>9, <1>10

(* The blocks from the head's to the tail block: none when the queue is empty *)
(* and its tail block is full.                                               *)
LEMMA RestEnds ==
  ASSUME IInv, AtRest, NEW p \in Producers
  PROVE  /\ First(p) <= TailNo(p) + 1
         /\ q[p].head # q[p].tail => First(p) <= TailNo(p)
         /\ q[p].head = q[p].tail =>
              First(p) = IF q[p].tail % BLOCK_SIZE = 0 THEN TailNo(p) + 1 ELSE TailNo(p)
<1>1. BLOCK_SIZE \in Nat \ {0}
  BY BlockNumbers
<1>2. PICK S \in Nat \ {0}, h \in Int, t \in Int, f \in Int, T \in Int :
        /\ S = BLOCK_SIZE /\ h = q[p].head /\ t = q[p].tail /\ h <= t
        /\ f = First(p) /\ T = TailNo(p)
  BY <1>1, RestUsed
<1>3. f = BlockNo(h)
  BY <1>2 DEF First
<1>4. PICK i \in Int : i = S * (T + 1)
  BY <1>2, Times
<1>5. BlockNo(i) = T + 1
  BY <1>2, <1>4, BlockNumber
<1>6. i >= t /\ h <= i
  BY <1>2, <1>5, TailIn
<1>7. f <= T + 1
  <2>1. BlockNo(h) <= BlockNo(i)
    BY <1>6, BlockNumbers
  <2> QED BY <1>2, <1>3, <1>5, <2>1
<1>8. h < t => f <= T
  BY <1>2, <1>3, TailIn
<1>9. ASSUME h = t, t % BLOCK_SIZE = 0 PROVE f = T + 1
  BY <1>2, <1>3, <1>7, <1>9, TailIn
<1>10. ASSUME h = t, t % BLOCK_SIZE # 0 PROVE f = T
  <2>1. ~(h < q[p].tail)
    BY <1>2, <1>10
  <2>2. ~(BlockNo(h) < TailNo(p))
    BY <2>1, TailIn
  <2>3. CASE f = T + 1
    <3>1. S * BlockNo(h) <= h /\ h % BLOCK_SIZE = h - S * BlockNo(h)
      BY <1>2, BlockNumber
    <3>2. h = i
      BY <1>2, <1>3, <1>4, <1>6, <1>10, <2>3, <3>1
    <3> QED BY <1>2, <1>3, <1>4, <1>10, <2>3, <3>1, <3>2
  <2> QED BY <1>2, <1>3, <1>7, <2>2, <2>3
<1> QED BY <1>2, <1>7, <1>8, <1>9, <1>10

(* The destructor of an implicit producer finds the block of every index.    *)
LEMMA ImplicitFinds ==
  ASSUME IInv, BlockInv, NEW p \in Producers, NEW i \in Nat
  PROVE  ImplicitBlock(p, i) = Entry(p, BlockNo(i)).block
<1>1. Good(p, q[p].last)
  BY DEF BlockInv, Room
<1>2. SlotOf(p, i, q[p].last) = BlockNo(i) % IndexSize(p)
  BY <1>1, SlotFound
<1> QED BY <1>2 DEF ImplicitBlock, Entry

(* It gives back the blocks from the head's to the tail block.               *)
LEMMA FreedAre ==
  ASSUME IInv, BlockInv, KeepInv, AtRest, NEW p \in Producers, ~q[p].isExplicit
  PROVE  LET N == TailNo(p) - First(p) + 1
         IN  /\ N \in Nat /\ DOMAIN ImplicitFreed(p) = 1 .. N
             /\ \A k \in 1 .. N : ImplicitFreed(p)[k] = Entry(p, First(p) + k - 1).block
<1>1. BLOCK_SIZE \in Nat \ {0}
  BY BlockNumbers
<1>2. PICK S \in Nat \ {0}, f \in Nat, T \in Int, N \in Nat :
        S = BLOCK_SIZE /\ f = First(p) /\ T = TailNo(p) /\ N = T - f + 1 /\ f <= T + 1
  BY <1>1, RestUsed, RestEnds
<1>3. PICK P \in Nat : /\ P = (IF q[p].head = q[p].tail THEN 0 ELSE T - f)
                       /\ q[p].head # q[p].tail => P = N - 1
  <2>1. CASE q[p].head = q[p].tail
    BY <2>1
  <2>2. CASE q[p].head # q[p].tail
    BY <1>2, <2>2, RestEnds
  <2> QED BY <2>1, <2>2
<1> DEFINE g == [k \in 1 .. P |-> ImplicitBlock(p, (f + k) * BLOCK_SIZE - 1)]
           r == IF q[p].head # q[p].tail \/ q[p].tail % BLOCK_SIZE # 0 THEN q[p].ring ELSE <<>>
<1>4. ImplicitFreed(p) = g \o r
  BY <1>2, <1>3 DEF TailNo, First, ImplicitFreed
<1>5. P <= N /\ Len(r) = N - P /\ r \in Seq(Blocks)
      /\ (N - P = 1 => r[1] = Entry(p, T).block) /\ (N - P = 1 \/ N - P = 0)
  <2>1. q[p].ring \in Seq(Blocks) /\ Len(q[p].ring) \in Nat
    BY Lengths
  <2>2. CASE q[p].head # q[p].tail \/ q[p].tail % BLOCK_SIZE # 0
    <3>1. f <= T
      BY <1>2, <2>2, RestEnds
    <3>2. T \in Nat /\ Used(p, T)
      BY <1>2, <3>1, RestUsed
    <3>3. N - P = 1
      <4>1. CASE q[p].head # q[p].tail
        BY <1>3, <4>1
      <4>2. CASE q[p].head = q[p].tail
        BY <1>2, <1>3, <2>2, <4>2, RestEnds
      <4> QED BY <4>1, <4>2
    <3>4. LiveOK(p, T)
      BY <1>2, <3>2 DEF AtRest, Used, BlockInv, Live
    <3>5. Len(q[p].ring) >= 1 /\ q[p].ring[Len(q[p].ring)] = Entry(p, T).block
      BY <1>2, <3>4 DEF LiveOK
    <3>6. Len(q[p].ring) <= 1
      BY DEF KeepInv, Kept, ImplicitKept
    <3>7. PICK L \in Nat : L = Len(q[p].ring)
      BY <2>1
    <3>8. L = 1
      <4>1. L >= 1 /\ L <= 1
        BY <3>5, <3>6, <3>7
      <4> QED BY <4>1
    <3>9. r = q[p].ring
      BY <2>2
    <3>10. r \in Seq(Blocks) /\ Len(r) = 1 /\ r[1] = Entry(p, T).block
      BY <2>1, <3>5, <3>7, <3>8, <3>9
    <3>11. P <= N
      BY <3>3
    <3> HIDE DEF r
    <3> QED BY <3>3, <3>10, <3>11
  <2>3. CASE ~(q[p].head # q[p].tail \/ q[p].tail % BLOCK_SIZE # 0)
    <3>1. f = T + 1 /\ P = 0
      BY <1>2, <1>3, <2>3, RestEnds
    <3>2. N = 0
      BY <1>2, <3>1
    <3>3. r = <<>>
      BY <2>3
    <3>4. Len(r) = 0 /\ r \in Seq(Blocks)
      <4>1. Len(<<>>) = 0 /\ <<>> \in Seq(Blocks)
        OBVIOUS
      <4> HIDE DEF r, g
      <4> QED BY <3>3, <4>1
    <3>5. N - P = 0 /\ P <= N
      BY <3>1, <3>2
    <3> HIDE DEF r
    <3> QED BY <3>4, <3>5
  <2> QED BY <2>2, <2>3
<1> HIDE DEF r
<1>6. ASSUME NEW k \in 1 .. P
      PROVE  /\ g[k] = Entry(p, f + k - 1).block
             /\ g[k] \in Blocks
  <2>1. PICK n \in Int : n = f + k - 1 /\ n >= f /\ n + 1 = f + k
    OBVIOUS
  <2>2. n \in Nat /\ n <= T
    <3>1. P <= N /\ k <= P
      BY <1>5
    <3>2. f + N - 1 = T /\ k <= N
      BY <1>2, <3>1
    <3> QED BY <2>1, <3>2
  <2>3. PICK a \in Int : a = S * n
    BY Times
  <2>4. S * (n + 1) = a + S
    BY <2>3, Times
  <2>5. (f + k) * BLOCK_SIZE = a + S
    BY <1>2, <2>1, <2>4
  <2>6. PICK i \in Int : i = (f + k) * BLOCK_SIZE - 1 /\ i = a + S - 1
    BY <2>5
  <2>7. S * n <= i /\ i < S * n + S
    BY <2>3, <2>6
  <2>8. BlockNo(i) = n
    BY <1>2, <2>7, BlockNumber
  <2>9. a >= 0
    <3>1. CASE n = 0
      BY <2>3, <3>1
    <3>2. CASE n # 0
      BY <2>2, <2>3, <3>2, Times
    <3> QED BY <3>1, <3>2
  <2>10. i \in Nat
    BY <2>6, <2>9
  <2>11. ImplicitBlock(p, i) = Entry(p, n).block
    BY <2>8, <2>10, ImplicitFinds
  <2>12. Used(p, n)
    BY <1>2, <2>1, <2>2, RestUsed
  <2>13. Entry(p, n).block \in Blocks
    BY <2>12, UsedEntry
  <2>14. g[k] = ImplicitBlock(p, i)
    BY <2>6
  <2> QED BY <2>1, <2>11, <2>13, <2>14
<1>7. g \in Seq(Blocks) /\ Len(g) = P
  <2>1. g \in [1 .. P -> Blocks]
    BY <1>6
  <2> HIDE DEF g
  <2> QED BY <2>1
<1> HIDE DEF g
<1>8. /\ DOMAIN (g \o r) = 1 .. N
      /\ \A k \in 1 .. N : (g \o r)[k] = IF k <= P THEN g[k] ELSE r[k - P]
  BY <1>5, <1>7
<1>9. ASSUME NEW k \in 1 .. N PROVE ImplicitFreed(p)[k] = Entry(p, f + k - 1).block
  <2>1. CASE k <= P
    BY <1>4, <1>6, <1>8, <2>1
  <2>2. CASE ~(k <= P)
    <3>1. N - P = 1 /\ k - P = 1 /\ f + k - 1 = T
      <4>1. k - P \in Int /\ k - P >= 1 /\ k <= N
        BY <2>2
      <4>2. N - P = 1
        BY <1>5, <4>1
      <4>3. k - P = 1 /\ k = N
        BY <4>1, <4>2
      <4> QED BY <1>2, <4>2, <4>3
    <3> QED BY <1>4, <1>5, <1>8, <2>2, <3>1
  <2> QED BY <2>1, <2>2
<1> QED BY <1>2, <1>4, <1>8, <1>9

(* It destroys what is left and gives every block back once.                 *)
LEMMA ImplicitRest ==
  ASSUME IInv, BlockInv, CellInv, KeepInv, AtRest, NEW p \in Producers, ~q[p].isExplicit
  PROVE  /\ ImplicitDestroyed(p) = Left(p)
         /\ IsInjective(ImplicitFreed(p)) /\ ToSet(ImplicitFreed(p)) = Attached(p)
<1>1. ImplicitDestroyed(p) = Left(p)
  BY RestUsed, ImplicitFinds, LeftAtRest DEF ImplicitDestroyed
<1>2. PICK f \in Nat, T \in Int, N \in Nat : f = First(p) /\ T = TailNo(p) /\ N = T - f + 1
  BY RestUsed, FreedAre
<1>3. PICK F : F = ImplicitFreed(p)
  OBVIOUS
<1>4. DOMAIN F = 1 .. N /\ \A k \in 1 .. N : F[k] = Entry(p, f + k - 1).block
  BY <1>2, <1>3, FreedAre
<1>5. ASSUME NEW k \in 1 .. N PROVE f + k - 1 \in Nat /\ Used(p, f + k - 1)
  BY <1>2, RestUsed
<1>6. ASSUME NEW k \in 1 .. N, NEW j \in 1 .. N, F[k] = F[j] PROVE k = j
  <2>1. f + k - 1 = f + j - 1
    <3>1. PICK m \in Nat, n \in Nat : m = f + k - 1 /\ n = f + j - 1
      BY <1>5
    <3>2. Used(p, m) /\ Used(p, n) /\ Entry(p, m).block = Entry(p, n).block
      BY <1>4, <1>5, <1>6, <3>1
    <3>3. m = n
      BY <3>2, UsedApart
    <3> QED BY <3>1, <3>3
  <2> QED BY <2>1
<1>7. IsInjective(F)
  BY <1>4, <1>6 DEF IsInjective
<1>8. ASSUME NEW b \in ToSet(F) PROVE b \in Attached(p)
  <2>1. PICK k \in 1 .. N : b = F[k]
    BY <1>4 DEF ToSet
  <2> QED BY <1>4, <1>5, <2>1, UsedEntry
<1>9. ASSUME NEW b \in Attached(p) PROVE b \in ToSet(F)
  <2>1. b # NoBlock /\ b \in {entry[p][s].block : s \in DOMAIN entry[p]}
    BY DEF Attached
  <2>2. DOMAIN entry[p] = 0 .. IndexSize(p) - 1
    BY DEF BlockInv, Structure
  <2>3. PICK s \in 0 .. IndexSize(p) - 1 : b = entry[p][s].block
    BY <2>1, <2>2
  <2>4. PICK m : m = entry[p][s].key /\ Held(p, m) /\ m % IndexSize(p) = s
    BY <2>1, <2>3 DEF KeepInv, Kept, ImplicitKept
  <2>5. Used(p, m)
    BY <2>4 DEF Held, AtRest
  <2>6. m \in Nat /\ f <= m /\ m <= T
    BY <1>2, <2>5, RestUsed
  <2>7. PICK k \in 1 .. N : m = f + k - 1
    <3>1. m - f + 1 \in 1 .. N /\ m = f + (m - f + 1) - 1
      BY <1>2, <2>6
    <3> QED BY <3>1
  <2>8. b = Entry(p, m).block
    BY <2>3, <2>4 DEF Entry
  <2> QED BY <1>4, <2>7, <2>8 DEF ToSet
<1> QED BY <1>1, <1>3, <1>7, <1>8, <1>9

(* A block of an explicit producer's ring is not empty exactly when it is in *)
(* use.                                                                      *)
LEMMA RingRest ==
  ASSUME IInv, BlockInv, KeepInv, AtRest, NEW p \in Producers, q[p].isExplicit, NEW b
  PROVE  b \in ToSet(q[p].ring) /\ blk[b].done # BLOCK_SIZE
           <=> \E n \in Nat : Used(p, n) /\ b = Entry(p, n).block
<1>1. Built(p) = 0 /\ TailNo(p) \in Int
  BY RestUsed
<1>2. q[p].ring \in Seq(Blocks) /\ Len(q[p].ring) \in Nat
  BY Lengths
<1>3. PICK L \in Nat, T \in Int : L = Len(q[p].ring) /\ T = TailNo(p)
  BY <1>1, <1>2
<1>4. ASSUME b \in ToSet(q[p].ring), blk[b].done # BLOCK_SIZE
      PROVE  \E n \in Nat : Used(p, n) /\ b = Entry(p, n).block
  <2>1. PICK j \in 1 .. L : b = q[p].ring[j]
    BY <1>3, <1>4 DEF ToSet
  <2>2. Spent(p, j)
    BY <1>1, <1>3 DEF KeepInv, Kept, ExplicitKept, OnlyUsed
  <2>3. PICK n \in Nat : n = RingNo(p, j) /\ Rem(p, n) # {}
    BY <1>4, <2>1, <2>2 DEF Spent, Empty
  <2>4. n = T - (L - j)
    BY <1>1, <1>3, <2>3 DEF RingNo
  <2>5. n <= T
    BY <2>4
  <2>6. Used(p, n)
    BY <1>3, <2>3, <2>5 DEF Used
  <2>7. Place(p, n) = j
    <3>1. L - 0 - (T - n) = j
      BY <2>4
    <3> QED BY <1>1, <1>3, <3>1 DEF Place
  <2> QED BY <2>1, <2>6, <2>7, UsedPlace
<1>5. ASSUME NEW n \in Nat, Used(p, n), b = Entry(p, n).block
      PROVE  b \in ToSet(q[p].ring) /\ blk[b].done # BLOCK_SIZE
  <2>1. /\ n <= TailNo(p) /\ Rem(p, n) # {}
        /\ Place(p, n) \in 1 .. Len(q[p].ring) /\ q[p].ring[Place(p, n)] = b
    BY <1>5, UsedPlace
  <2>2. blk[b].done = BLOCK_SIZE - Cardinality(Rem(p, n))
    BY <1>5, <2>1 DEF BlockInv, Live, LiveOK
  <2>3. PICK R : R = Rem(p, n)
    OBVIOUS
  <2>4. n \in Int /\ \A i \in R : i \in Int /\ BlockNo(i) = n
    BY <2>3 DEF Rem
  <2>5. Cardinality(R) \in 0 .. BLOCK_SIZE /\ (Cardinality(R) = 0 <=> R = {})
    BY <2>4, Countable
  <2>6. PICK k \in Nat, S \in Nat : k = Cardinality(R) /\ S = BLOCK_SIZE
    BY <2>5, BlockNumbers
  <2>7. k # 0 /\ blk[b].done = S - k
    BY <2>1, <2>2, <2>3, <2>5, <2>6
  <2>8. blk[b].done # BLOCK_SIZE
    BY <2>6, <2>7
  <2> QED BY <2>1, <2>8 DEF ToSet
<1> QED BY <1>4, <1>5

(* From the oldest entry it counts as used, the destructor of an explicit    *)
(* producer comes to the block that is dequeued in part.                     *)
LEMMA HalfFound ==
  ASSUME IInv, BlockInv, KeepInv, AtRest, NEW p \in Producers, q[p].isExplicit,
         ~q[p].undone, q[p].head % BLOCK_SIZE # 0
  PROVE  Used(p, First(p)) /\ HalfDequeued(p) = Entry(p, First(p)).block
<1> DEFINE at(n) == entry[p][Slot(p, q[p].front - q[p].used + n)]
           passed(n) == (at(n).key + 1) * BLOCK_SIZE < q[p].head
           found(n) == ~passed(n) /\ \A m \in 0..(n - 1) : passed(m)
<1>1. q[p].ring \in Seq(Blocks) /\ Distinct(q[p].ring)
  BY RingFacts
<1>2. BLOCK_SIZE \in Nat \ {0}
  BY BlockNumbers
<1>3. PICK S \in Nat \ {0}, h \in Int, f \in Nat, T \in Int :
        S = BLOCK_SIZE /\ h = q[p].head /\ f = First(p) /\ f = BlockNo(h) /\ T = TailNo(p)
  BY <1>2, RestUsed DEF First
<1>4. f <= T /\ Used(p, f)
  <2>1. First(p) <= TailNo(p)
    <3>1. CASE q[p].head = q[p].tail
      <4>1. q[p].tail % BLOCK_SIZE # 0
        BY <3>1
      <4>2. First(p) = TailNo(p)
        BY <3>1, <4>1, RestEnds
      <4>3. f = T
        BY <1>3, <4>2
      <4>4. f <= T
        BY <4>3
      <4> QED BY <1>3, <4>4
    <3>2. CASE q[p].head # q[p].tail
      BY <3>2, RestEnds
    <3> QED BY <3>1, <3>2
  <2>2. f <= T /\ f \in Nat /\ f <= f
    BY <1>3, <2>1
  <2>3. \A n : n \in Nat /\ f <= n /\ n <= T => Used(p, n)
    BY <1>3, RestUsed
  <2> QED BY <2>2, <2>3
<1>5. PICK L \in Nat, Z \in Nat \ {0} : L = Len(q[p].ring) /\ Z = IndexSize(p) /\ L <= Z
  BY <1>1, RingFits
<1>6. /\ q[p].used = L /\ q[p].front = (T + 1) % Z
      /\ \A m \in Int : m > T - L /\ m <= T => Entry(p, m).key = m
  <2>1. Built(p) = 0
    BY RestUsed
  <2>2. /\ q[p].used = L
        /\ \A m \in Int : m > T + 0 - L /\ m <= T + 0 => Entry(p, m).key = m
    BY <1>3, <1>5, <2>1 DEF KeepInv, Kept, ExplicitKept, InOrder
  <2>3. q[p].front = (T + 0 + 1) % Z
    BY <1>3, <1>5, <2>1 DEF BlockInv, Room
  <2> QED BY <2>2, <2>3
<1>7. ASSUME NEW n \in Int PROVE at(n) = Entry(p, T + 1 - L + n)
  <2>1. PICK a \in Int, k \in Int : a = T + 1 /\ k = n - L
    OBVIOUS
  <2>2. ((a % Z) + k) % Z = (a + k) % Z
    BY Congruent
  <2>3. PICK x \in Int : x = a % Z
    BY DivMod
  <2>4. q[p].front - q[p].used + n = x + k /\ a + k = T + 1 - L + n
    BY <1>6, <2>1, <2>3
  <2>5. Slot(p, q[p].front - q[p].used + n) = (T + 1 - L + n) % IndexSize(p)
    BY <1>5, <2>2, <2>3, <2>4 DEF Slot
  <2> QED BY <2>5 DEF Entry
<1>8. PICK z \in Nat : z = f - (T + 1 - L) /\ z < L
  <2>1. Place(p, f) \in 1 .. L /\ Place(p, f) = L - 0 - (T - f)
    BY <1>3, <1>4, <1>5, UsedPlace, RestUsed DEF Place
  <2>2. L - (T - f) \in 1 .. L
    BY <2>1
  <2>3. f - (T + 1 - L) \in Nat /\ f - (T + 1 - L) < L
    BY <2>2
  <2> QED BY <2>3
<1>9. ASSUME NEW n \in 0 .. z PROVE at(n).key = T + 1 - L + n
  <2>1. PICK m \in Int : m = T + 1 - L + n
    OBVIOUS
  <2>2. m > T - L /\ m <= T
    BY <1>8, <2>1
  <2>3. n \in Int
    OBVIOUS
  <2>4. at(n) = Entry(p, m)
    BY <1>7, <2>1, <2>3
  <2>5. Entry(p, m).key = m
    BY <1>6, <2>2
  <2> HIDE DEF at
  <2> QED BY <2>1, <2>4, <2>5
<1>10. PICK a \in Int : a = S * f /\ a <= h /\ h < a + S /\ h # a
  <2>1. S * f \in Int
    BY Times
  <2>2. S * f <= h /\ h < S * f + S /\ h % BLOCK_SIZE = h - S * f
    BY <1>3, BlockNumber
  <2> QED BY <1>3, <2>1, <2>2
<1>11. ~passed(z)
  <2>1. at(z).key = f
    BY <1>8, <1>9
  <2>2. (f + 1) * S = a + S
    BY <1>10, Times
  <2> QED BY <1>3, <1>10, <2>1, <2>2
<1>12. ASSUME NEW n \in 0 .. z - 1 PROVE passed(n)
  <2>1. PICK m \in Int : m = T + 1 - L + n /\ m + 1 <= f
    BY <1>8
  <2>2. at(n).key = m
    BY <1>9, <2>1
  <2>3. (m + 1) * S <= a
    <3>1. CASE m + 1 = f
      BY <1>10, <3>1
    <3>2. CASE m + 1 < f
      BY <1>10, <3>2, Times
    <3> QED BY <2>1, <3>1, <3>2
  <2>4. PICK v \in Int : v = (m + 1) * S
    BY Times
  <2> QED BY <1>3, <1>10, <2>2, <2>3, <2>4
<1>13. found(z) /\ z \in 0 .. IndexSize(p)
  BY <1>5, <1>8, <1>11, <1>12
<1> HIDE DEF passed
<1>14. PICK x : x = CHOOSE n \in 0 .. IndexSize(p) : found(n)
  OBVIOUS
<1>15. x \in 0 .. IndexSize(p) /\ found(x)
  BY <1>13, <1>14
<1>16. x = z
  <2>1. x \in Int /\ x >= 0
    BY <1>5, <1>15
  <2>2. CASE x < z
    BY <1>12, <1>15, <2>1, <2>2
  <2>3. CASE z < x
    BY <1>11, <1>15, <2>1, <2>3
  <2> QED BY <2>1, <2>2, <2>3
<1>17. HalfDequeued(p) = at(x).block
  BY <1>14 DEF HalfDequeued, passed
<1>18. at(z) = Entry(p, f)
  BY <1>7, <1>8
<1> QED BY <1>3, <1>4, <1>16, <1>17, <1>18

(* The destructor of an explicit producer whose enqueues never failed halfway *)
(* destroys what is left.                                                    *)
LEMMA ExplicitRest ==
  ASSUME IInv, BlockInv, CellInv, KeepInv, AtRest, NEW p \in Producers, q[p].isExplicit,
         ~q[p].undone
  PROVE  ExplicitDestroyed(p) = Left(p)
<1> DEFINE ring == q[p].ring
           from(b) == IF q[p].head % BLOCK_SIZE # 0 /\ b = HalfDequeued(p)
                        THEN q[p].head % BLOCK_SIZE ELSE 0
           to(b) == IF b = Last(ring) /\ q[p].tail % BLOCK_SIZE # 0
                      THEN q[p].tail % BLOCK_SIZE ELSE BLOCK_SIZE
<1>1. ExplicitDestroyed(p) =
        UNION {{<<b, o>> : o \in from(b)..(to(b) - 1)} :
                 b \in {b \in ToSet(ring) : blk[b].done # BLOCK_SIZE}}
  BY DEF ExplicitDestroyed
<1>2. PICK S \in Nat \ {0}, h \in Nat, t \in Nat :
        /\ S = BLOCK_SIZE /\ h = q[p].head % BLOCK_SIZE /\ t = q[p].tail % BLOCK_SIZE
        /\ h < S /\ t < S
  <2>1. BLOCK_SIZE \in Nat \ {0} /\ q[p].head \in Int /\ q[p].tail \in Int
    <3>1. BLOCK_SIZE \in Nat \ {0}
      BY BlockNumbers
    <3>2. q[p].head \in Int /\ q[p].tail \in Int
      BY Basics
    <3> QED BY <3>1, <3>2
  <2>2. q[p].head % BLOCK_SIZE \in 0 .. BLOCK_SIZE - 1
        /\ q[p].tail % BLOCK_SIZE \in 0 .. BLOCK_SIZE - 1
    BY <2>1, DivMod
  <2> QED BY <2>1, <2>2
<1>3. PICK f \in Nat, T \in Int : f = First(p) /\ T = TailNo(p)
  BY RestUsed
<1>4. ASSUME NEW n \in Nat, Used(p, n), NEW b, b = Entry(p, n).block
      PROVE  from(b) = IF h # 0 /\ n = f THEN h ELSE 0
  <2>1. CASE h = 0
    BY <1>2, <2>1
  <2>2. CASE h # 0
    <3>1. Used(p, f) /\ HalfDequeued(p) = Entry(p, f).block
      BY <1>2, <1>3, <2>2, HalfFound
    <3>2. b = HalfDequeued(p) <=> n = f
      BY <1>4, <3>1, UsedApart
    <3> QED BY <1>2, <2>2, <3>2
  <2> QED BY <2>1, <2>2
<1>5. ASSUME NEW n \in Nat, Used(p, n), NEW b, b = Entry(p, n).block
      PROVE  to(b) = IF n = T /\ t # 0 THEN t ELSE S
  <2>1. ring \in Seq(Blocks) /\ Distinct(ring)
    BY RingFacts
  <2>2. PICK L \in Nat : L = Len(ring)
    BY <2>1
  <2>3. PICK j \in 1 .. L : j = L - 0 - (T - n) /\ ring[j] = b
    BY <1>3, <1>5, <2>2, UsedPlace, RestUsed DEF Place
  <2>4. L \in 1 .. L /\ (j = L <=> n = T)
    BY <1>3, <2>3
  <2>5. ring[j] = ring[L] <=> j = L
    BY <2>1, <2>2, <2>3, <2>4 DEF Distinct
  <2>6. b = Last(ring) <=> n = T
    BY <2>2, <2>3, <2>4, <2>5 DEF Last
  <2> QED BY <1>2, <2>6
<1>6. \A b : b \in ToSet(ring) /\ blk[b].done # BLOCK_SIZE
               <=> \E n \in Nat : Used(p, n) /\ b = Entry(p, n).block
  BY RingRest
<1>7. ASSUME NEW i \in Int, NEW n \in Nat, n = BlockNo(i), f <= n, n <= T
      PROVE  /\ q[p].head <= i <=> (IF h # 0 /\ n = f THEN h ELSE 0) <= i % BLOCK_SIZE
             /\ i < q[p].tail <=> i % BLOCK_SIZE < (IF n = T /\ t # 0 THEN t ELSE S)
  <2>1. PICK o \in Nat : o = i % BLOCK_SIZE /\ o < S
    <3>1. i % S \in 0 .. S - 1
      BY DivMod
    <3> QED BY <1>2, <3>1
  <2>2. q[p].head <= i <=> f < n \/ (f = n /\ h <= o)
    BY <1>2, <1>3, <1>7, <2>1, HeadIn
  <2>3. i < q[p].tail <=> n < T \/ (n = T /\ (t = 0 \/ o < t))
    BY <1>2, <1>3, <1>7, <2>1, TailIn
  <2>4. (f < n \/ (f = n /\ h <= o)) <=> (IF h # 0 /\ n = f THEN h ELSE 0) <= o
    BY <1>7
  <2>5. (n < T \/ (n = T /\ (t = 0 \/ o < t))) <=> o < (IF n = T /\ t # 0 THEN t ELSE S)
    BY <1>7, <2>1
  <2> QED BY <2>1, <2>2, <2>3, <2>4, <2>5
<1> HIDE DEF from, to
<1>8. ASSUME NEW e \in ExplicitDestroyed(p) PROVE e \in Left(p)
  <2>1. PICK b : /\ b \in ToSet(ring) /\ blk[b].done # BLOCK_SIZE
                 /\ e \in {<<b, o>> : o \in from(b)..(to(b) - 1)}
    BY <1>1, <1>8
  <2>2. PICK n \in Nat : Used(p, n) /\ b = Entry(p, n).block
    BY <1>6, <2>1
  <2>3. f <= n /\ n <= T
    BY <1>3, <2>2, RestUsed
  <2>4. PICK x \in Nat, y \in Nat : /\ x = from(b) /\ x = (IF h # 0 /\ n = f THEN h ELSE 0)
                                    /\ y = to(b) /\ y = (IF n = T /\ t # 0 THEN t ELSE S)
                                    /\ y <= S
    BY <1>2, <1>4, <1>5, <2>2
  <2>5. PICK o \in Nat : e = <<b, o>> /\ x <= o /\ o < y /\ o < S
    BY <2>1, <2>4
  <2>6. PICK i \in Int : i = S * n + o
    BY Times
  <2>7. BlockNo(i) = n /\ i % BLOCK_SIZE = o
    <3>1. o \in 0 .. S - 1
      BY <2>5
    <3>2. i \div S = n /\ i % S = o
      BY <2>6, <3>1, Unique
    <3> QED BY <1>2, <3>2 DEF BlockNo
  <2>8. q[p].head <= i /\ i < q[p].tail
    BY <1>7, <2>3, <2>4, <2>5, <2>7
  <2>9. i \in q[p].head .. q[p].tail - 1
    BY <2>8, RestUsed
  <2>10. e = <<Entry(p, BlockNo(i)).block, i % BLOCK_SIZE>>
    BY <2>2, <2>5, <2>7
  <2> QED BY <2>9, <2>10, LeftAtRest
<1>9. ASSUME NEW e \in Left(p) PROVE e \in ExplicitDestroyed(p)
  <2>1. PICK i \in q[p].head .. q[p].tail - 1 :
          e = <<Entry(p, BlockNo(i)).block, i % BLOCK_SIZE>>
    BY <1>9, LeftAtRest
  <2>2. i \in Nat /\ i \in Int /\ q[p].head <= i /\ i < q[p].tail
    BY RestUsed
  <2>3. Waiting(p, i)
    BY <2>2, RestUsed
  <2>4. PICK n \in Nat : n = BlockNo(i) /\ Used(p, n)
    BY <2>2, <2>3, WaitingUsed
  <2>5. f <= n /\ n <= T
    BY <1>3, <2>4, RestUsed
  <2>6. PICK b : b = Entry(p, n).block
    OBVIOUS
  <2>7. b \in ToSet(ring) /\ blk[b].done # BLOCK_SIZE
    BY <1>6, <2>4, <2>6
  <2>8. PICK x \in Nat, y \in Nat : /\ x = from(b) /\ x = (IF h # 0 /\ n = f THEN h ELSE 0)
                                    /\ y = to(b) /\ y = (IF n = T /\ t # 0 THEN t ELSE S)
    BY <1>2, <1>4, <1>5, <2>4, <2>6
  <2>9. PICK o \in Nat : o = i % BLOCK_SIZE
    BY <1>2, <2>2, DivMod
  <2>10. x <= o /\ o < y
    BY <1>7, <2>2, <2>4, <2>5, <2>8, <2>9
  <2>11. o \in from(b) .. to(b) - 1 /\ e = <<b, o>>
    BY <2>1, <2>4, <2>6, <2>8, <2>9, <2>10
  <2> QED BY <1>1, <2>7, <2>11
<1> QED BY <1>8, <1>9

(* When no call is running, every block has an owner, the counts differ by   *)
(* the elements taken, and the destructors destroy exactly the elements that *)
(* nobody took and give every block back once (concurrentqueue.h:1768, 2416): *)
(* what calls do that lose a race, or run out of blocks or of room in the    *)
(* index, leaves no trace but in the ring of an explicit producer.           *)
THEOREM NothingIsLostAtRest == Spec => []Settles
<1>1. ASSUME IInv, BlockInv, CellInv, KeepInv, AtRest
      PROVE  /\ Blocks = fresh \cup free \cup away \cup UNION {Attached(p) : p \in Producers}
             /\ \A p \in Producers :
                  IF q[p].isExplicit
                    THEN q[p].undone \/ ExplicitDestroyed(p) = Left(p)
                    ELSE /\ ImplicitDestroyed(p) = Left(p)
                         /\ IsInjective(ImplicitFreed(p)) /\ ToSet(ImplicitFreed(p)) = Attached(p)
  <2>1. \A b \in Blocks : b \in fresh \cup free \cup away \/ \E p \in Producers : b \in Attached(p)
    BY <1>1 DEF KeepInv, Owned
  <2>2. fresh \subseteq Blocks /\ free \subseteq Blocks /\ away \subseteq Blocks
    BY <1>1 DEF BlockInv, Structure
  <2>3. \A p \in Producers : \A b \in Attached(p) : b \in Blocks
    BY <1>1, AttachedBlocks
  <2>4. Blocks = fresh \cup free \cup away \cup UNION {Attached(p) : p \in Producers}
    BY <2>1, <2>2, <2>3
  <2>5. ASSUME NEW p \in Producers, q[p].isExplicit, ~q[p].undone
        PROVE  ExplicitDestroyed(p) = Left(p)
    BY <1>1, <2>5, ExplicitRest
  <2>6. ASSUME NEW p \in Producers, ~q[p].isExplicit
        PROVE  /\ ImplicitDestroyed(p) = Left(p)
               /\ IsInjective(ImplicitFreed(p)) /\ ToSet(ImplicitFreed(p)) = Attached(p)
    BY <1>1, <2>6, ImplicitRest
  <2> QED BY <2>4, <2>5, <2>6
<1>2. IInv /\ BlockInv /\ CellInv /\ KeepInv /\ CountsAgree => Settles
  BY <1>1 DEF Settles, AtRest, At, In, CountsAgree
<1>3. Init => IInv /\ BlockInv /\ CellInv /\ KeepInv
  BY InitIInv, InitBlocks, InitCells, InitKept
<1>4. IInv /\ BlockInv /\ CellInv /\ KeepInv /\ [Next]_vars
        => IInv' /\ BlockInv' /\ CellInv' /\ KeepInv'
  BY NextIInv, NextBlocks, NextCells, NextKept
<1> QED BY <1>2, <1>3, <1>4, NothingStaysOwed, PTL DEF Spec
===============================================================================
