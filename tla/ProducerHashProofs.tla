--------------------------- MODULE ProducerHashProofs ---------------------------
(***************************************************************************)
(* The table of producers: what every thread finds in it is its own        *)
(* producer, which is on the list, and every probe meets a free slot, for  *)
(* every set of thread ids, hash function, initial size and number of      *)
(* failed allocations.                                                     *)
(*                                                                         *)
(* That a slot stays free needs the count that each call took when it was  *)
(* counted: of the calls that are counted up to m, together with the ids   *)
(* that a table has or will get, there are at most m, or they fit under    *)
(* the limit of that table.                                                *)
(***************************************************************************)
EXTENDS ProducerHash, FiniteSetTheorems, TLAPS

(* A call that has been counted and not yet made a producer, nor failed.    *)
Waits(t) == call[t].pc \in {"grow", "locked", "resize", "unlock", "fit"}
(* A call that carries a producer for the table main of its record.         *)
Carries(t) == call[t].pc \in {"push", "store"}
Locks(t) == call[t].pc \in {"locked", "resize", "unlock", "abandon"}

Key(h, i) == table[h].entries[i].key
Value(h, i) == table[h].entries[i].value
Index(h, t, d) == (hash_thread_id[t] + d) % Capacity(h)

(* Table h holds the id of t.                                               *)
HasId(h, t) == \E i \in 0..(Capacity(h) - 1) : Key(h, i) = t

(* Producer v belongs to t: in a table, or in the hands of its call.        *)
Holds(t, v) ==
  \/ \E h \in DOMAIN table : \E i \in 0..(Capacity(h) - 1) : Key(h, i) = t /\ Value(h, i) = v
  \/ Carries(t) /\ call[t].mine = v

(* The threads whose ids are in table h or an older one, or on their way.   *)
Fit(h) == {t \in Threads : \/ \E g \in 1..h : HasId(g, t)
                           \/ Carries(t) /\ call[t].main <= h}
All == Fit(Len(table))
AllWaiting == {t \in Threads : Waits(t)}
Waiting(m) == {t \in Threads : Waits(t) /\ call[t].n <= m}
Limit(h) == Capacity(h) \div 2 + Capacity(h) \div 4

(* The tables form one chain, and only who holds the flag extends it.       *)
ChainInv ==
  /\ mainHash = Len(table)
  /\ \A h \in DOMAIN table : table[h].prev = h - 1
  /\ \A g, h \in DOMAIN table : g <= h => Capacity(g) <= Capacity(h)
  /\ \A t \in Threads : Locks(t) => resizing
  /\ \A t, u \in Threads : Locks(t) /\ Locks(u) => t = u
  /\ \A t \in Threads : At(t, "resize") => call[t].main = mainHash

(* Probing: an id is behind taken slots only, and once in each table.       *)
ProbeInv ==
  /\ \A h \in DOMAIN table : \A t \in Threads : \A i \in 0..(Capacity(h) - 1) :
       Key(h, i) = t =>
         \E d \in Nat : i = Index(h, t, d) /\ \A b \in 0..(d - 1) :
                                                Key(h, Index(h, t, b)) # invalid_thread_id
  /\ \A h \in DOMAIN table : \A i, j \in 0..(Capacity(h) - 1) :
       Key(h, i) = Key(h, j) /\ Key(h, i) # invalid_thread_id => i = j

(* What a call has found out so far.                                        *)
CallOK(t) ==
  /\ At(t, "search") =>
       /\ call[t].at \in 1..call[t].main
       /\ \A h \in DOMAIN table : h > call[t].at => ~HasId(h, t)
       /\ \A d \in 0..(call[t].step - 1) :
            Key(call[t].at, Index(call[t].at, t, d)) \notin {t, invalid_thread_id}
  /\ At(t, "count") \/ Waits(t) \/ At(t, "push") =>
       call[t].step = 0 /\ \A h \in DOMAIN table : ~HasId(h, t)
  /\ Carries(t) => \A h \in DOMAIN table : h >= call[t].main => ~HasId(h, t)
  /\ At(t, "store") =>
       \A d \in 0..(call[t].step - 1) :
         Key(call[t].main, Index(call[t].main, t, d)) # invalid_thread_id
CallInv == \A t \in Threads : CallOK(t)

(* A producer has one thread and a thread one producer.                     *)
HoldInv ==
  /\ \A t, u \in Threads : \A v, w \in 0..Len(next) :
       Holds(t, v) /\ Holds(u, w) => (t = u <=> v = w)
  /\ \A t \in Threads : Carries(t) => call[t].mine \in DOMAIN next
  /\ \A h \in DOMAIN table : \A i \in 0..(Capacity(h) - 1) :
       Key(h, i) # invalid_thread_id => Value(h, i) \in DOMAIN next

(* Producers not pushed yet are behind no other; the others are on the list.*)
Unpushed == {call[t].mine : t \in {t \in Threads : At(t, "push")}}
LinkInv ==
  /\ listTail \in 0..Len(next) /\ listTail \notin Unpushed
  /\ \A p \in DOMAIN next : next[p] \in 0..Len(next) /\ next[p] \notin Unpushed
  /\ \A t \in Threads : \A v \in DOMAIN next : Holds(t, v) => v \in List \/ At(t, "push")
  /\ producerCount = Len(next)

(* A table is at most as full as its limit, and so it stays when all those  *)
(* enter it that were counted up to any number m below.                     *)
FullInv ==
  /\ hashCount = Cardinality(All) + Cardinality(AllWaiting)
  /\ \A t \in Threads : Waits(t) => call[t].n >= 1
  /\ \A h \in DOMAIN table : \A m \in Nat :
       LET c == Cardinality(Fit(h)) + Cardinality(Waiting(m))
       IN  c <= m \/ c < Limit(h)

Cells == [key : Threads \cup {invalid_thread_id}, value : Nat]
Tables == UNION {[capacity : {c}, prev : Nat, entries : [0..(c - 1) -> Cells]] : c \in Nat \ {0}}
Calls == [pc : {"search", "store", "count", "grow", "locked", "resize", "unlock", "fit",
                "push", "abandon"},
          main : Nat, at : Nat, step : Nat, n : Nat, mine : Nat]

TypeOK ==
  /\ table \in Seq(Tables) /\ Len(table) >= 1
  /\ hashCount \in Nat /\ resizing \in BOOLEAN
  /\ next \in Seq(Nat) /\ listTail \in Nat /\ producerCount \in Nat
  /\ call \in [Threads -> {NoCall} \cup Calls]
  /\ \A t \in Threads : ~At(t, "idle") => call[t].main \in DOMAIN table
  /\ failures \in Nat

IInv == TypeOK /\ ChainInv /\ ProbeInv /\ CallInv /\ HoldInv /\ LinkInv /\ FullInv
-------------------------------------------------------------------------------
(* A probe stays in the table.                                              *)
LEMMA ModRange == \A a \in Nat, c \in Nat \ {0} : a % c \in 0..(c - 1)
  OBVIOUS

(* What a table is made of.                                                 *)
LEMMA Shape ==
  ASSUME TypeOK, NEW h \in DOMAIN table
  PROVE  /\ Capacity(h) \in Nat \ {0} /\ table[h].prev \in Nat
         /\ table[h].entries \in [0..(Capacity(h) - 1) -> Cells]
         /\ \A i \in 0..(Capacity(h) - 1) :
              Key(h, i) \in Threads \cup {invalid_thread_id} /\ Value(h, i) \in Nat
<1>1. table[h] \in Tables
  BY DEF TypeOK
<1>2. PICK c \in Nat \ {0} : table[h] \in [capacity : {c}, prev : Nat, entries : [0..(c - 1) -> Cells]]
  BY <1>1 DEF Tables
<1>3. Capacity(h) = c /\ table[h].prev \in Nat /\ table[h].entries \in [0..(c - 1) -> Cells]
  BY <1>2 DEF Capacity
<1> QED BY <1>3 DEF Key, Value, Cells

(* Where the probes of a thread go.                                         *)
LEMMA Probes ==
  ASSUME TypeOK, NEW h \in DOMAIN table, NEW t \in Threads, NEW d \in Nat
  PROVE  Index(h, t, d) \in 0..(Capacity(h) - 1)
<1>1. hash_thread_id[t] + d \in Nat
  BY HashAssumption DEF HashAssumption
<1> QED BY <1>1, Shape, ModRange DEF Index

(* A call that is under way has a record.                                   *)
LEMMA InCall ==
  ASSUME TypeOK, NEW t \in Threads, call[t].pc # "idle"
  PROVE  call[t] \in Calls /\ call[t].main \in DOMAIN table
  BY DEF TypeOK, NoCall, At

(* The sets of threads that are counted are finite.                         *)
LEMMA Finite ==
  /\ \A h : IsFiniteSet(Fit(h)) /\ Cardinality(Fit(h)) \in Nat
  /\ \A m : IsFiniteSet(Waiting(m)) /\ Cardinality(Waiting(m)) \in Nat
  /\ IsFiniteSet(AllWaiting) /\ Cardinality(AllWaiting) \in Nat
<1>1. IsFiniteSet(Threads)
  BY HashAssumption DEF HashAssumption
<1>2. \A S \in SUBSET Threads : IsFiniteSet(S) /\ Cardinality(S) \in Nat
  BY <1>1, FS_Subset, FS_CardinalityType
<1> QED BY <1>2 DEF Fit, Waiting, AllWaiting

(* As long as the tables stay, so does what is in them.                     *)
LEMMA SameTable ==
  ASSUME UNCHANGED table
  PROVE  /\ \A h : Capacity(h)' = Capacity(h) /\ Limit(h)' = Limit(h)
         /\ \A h, i : Key(h, i)' = Key(h, i) /\ Value(h, i)' = Value(h, i)
         /\ \A h, t : HasId(h, t)' <=> HasId(h, t)
         /\ \A h, t, d : Index(h, t, d)' = Index(h, t, d)
         /\ Len(table') = Len(table) /\ DOMAIN table' = DOMAIN table
  BY DEF Capacity, Limit, Key, Value, HasId, Index

(* Steps of a call that change neither tables nor list, nor what it holds.  *)
LEMMA MoveKeeps ==
  ASSUME IInv, UNCHANGED <<table, mainHash, list>>, NEW t \in Threads,
         NEW c \in {NoCall} \cup Calls, call' = [call EXCEPT ![t] = c],
         \A v : Holds(t, v)' <=> Holds(t, v),
         ~At(t, "push"), ~At(t, "push")',
         \A h \in DOMAIN table : t \in Fit(h)' <=> t \in Fit(h),
         CallOK(t)'
  PROVE  /\ ProbeInv' /\ CallInv' /\ HoldInv' /\ LinkInv'
         /\ \A h \in DOMAIN table : Fit(h)' = Fit(h)
         /\ \A u \in Threads \ {t} : /\ call'[u] = call[u] /\ (Waits(u)' <=> Waits(u))
                                       /\ (Locks(u)' <=> Locks(u))
                                       /\ \A l : At(u, l)' <=> At(u, l)
         /\ call'[t] = c
<1>1. TypeOK /\ ChainInv /\ ProbeInv /\ CallInv /\ HoldInv /\ LinkInv /\ FullInv
  BY DEF IInv
<1>2. call'[t] = c /\ \A u \in Threads \ {t} : call'[u] = call[u]
  BY <1>1 DEF TypeOK
<1>3. \A u \in Threads \ {t} : /\ (Waits(u)' <=> Waits(u)) /\ (Locks(u)' <=> Locks(u))
                               /\ (Carries(u)' <=> Carries(u))
                               /\ \A l : At(u, l)' <=> At(u, l)
  BY <1>2 DEF Waits, Locks, Carries, At
<1>4. /\ UNCHANGED <<table, next, listTail, producerCount>>
      /\ DOMAIN table' = DOMAIN table
  BY DEF list
<1>5. \A u \in Threads : \A v : Holds(u, v)' <=> Holds(u, v)
  <2> SUFFICES ASSUME NEW u \in Threads \ {t}, NEW v PROVE Holds(u, v)' <=> Holds(u, v)
    OBVIOUS
  <2> QED BY <1>2, <1>3, <1>4 DEF Holds, Key, Value, Capacity
<1>6. ProbeInv'
  BY <1>1, <1>4, SameTable DEF ProbeInv
<1>7. ASSUME NEW u \in Threads PROVE CallOK(u)'
  <2>1. CASE u = t
    BY <2>1
  <2>2. CASE u # t
    <3>1. CallOK(u)
      BY <1>1 DEF CallInv
    <3> QED BY <1>2, <1>3, <1>4, <2>2, <3>1, SameTable DEF CallOK
  <2> QED BY <2>1, <2>2
<1>8. HoldInv'
  <2>1. ASSUME NEW u \in Threads, Carries(u)' PROVE call'[u].mine \in DOMAIN next
    <3>1. CASE u # t
      BY <1>1, <1>2, <1>3, <2>1, <3>1 DEF HoldInv
    <3>2. CASE u = t
      <4>1. Holds(t, c.mine)
        BY <1>2, <1>5, <2>1, <3>2 DEF Holds
      <4>2. CASE Carries(t) /\ call[t].mine = c.mine
        BY <1>1, <1>2, <3>2, <4>2 DEF HoldInv
      <4>3. CASE ~(Carries(t) /\ call[t].mine = c.mine)
        <5>1. PICK h \in DOMAIN table :
                \E i \in 0..(Capacity(h) - 1) : Key(h, i) = t /\ Value(h, i) = c.mine
          BY <4>1, <4>3 DEF Holds
        <5>2. PICK i \in 0..(Capacity(h) - 1) : Key(h, i) = t /\ Value(h, i) = c.mine
          BY <5>1
        <5> QED BY <1>1, <1>2, <3>2, <5>2, HashAssumption DEF HoldInv, HashAssumption
      <4> QED BY <4>2, <4>3
    <3> QED BY <3>1, <3>2
  <2> QED BY <1>1, <1>4, <1>5, <2>1, SameTable DEF HoldInv
<1>9. LinkInv'
  <2>1. Unpushed' = Unpushed
    BY <1>2, <1>3 DEF Unpushed
  <2>2. List' = List
    BY <1>4 DEF List, FollowsLinks
  <2> QED BY <1>1, <1>3, <1>4, <1>5, <2>1, <2>2 DEF LinkInv
<1>10. ASSUME NEW h \in DOMAIN table PROVE Fit(h)' = Fit(h)
  <2>1. ASSUME NEW u \in Threads PROVE u \in Fit(h)' <=> u \in Fit(h)
    <3>1. CASE u # t
      BY <1>2, <1>3, <1>4, <3>1, SameTable DEF Fit
    <3> QED BY <3>1
  <2> QED BY <2>1 DEF Fit
<1> QED BY <1>2, <1>3, <1>6, <1>7, <1>8, <1>9, <1>10 DEF CallInv

(* The count of calls and ids does not change with a call that is counted   *)
(* before and after with the same number, or neither before nor after.      *)
LEMMA FullKeeps ==
  ASSUME FullInv, UNCHANGED <<table, hashCount>>, NEW t \in Threads,
         \A h \in DOMAIN table : Fit(h)' = Fit(h), Len(table) \in DOMAIN table,
         \A u \in Threads \ {t} : call'[u] = call[u] /\ (Waits(u)' <=> Waits(u)),
         Waits(t)' <=> Waits(t), Waits(t) => call'[t].n = call[t].n
  PROVE  FullInv'
<1>1. /\ \A u \in Threads : (Waits(u)' <=> Waits(u)) /\ (Waits(u) => call'[u].n = call[u].n)
      /\ All' = All
  BY DEF All
<1>2. AllWaiting' = AllWaiting /\ \A m : Waiting(m)' = Waiting(m)
  BY <1>1 DEF AllWaiting, Waiting
<1> QED BY <1>1, <1>2, SameTable DEF FullInv

(* The flag goes from hand to hand.                                         *)
LEMMA ChainKeeps ==
  ASSUME ChainInv, UNCHANGED <<table, mainHash>>, NEW t \in Threads, call \in [Threads -> {NoCall} \cup Calls],
         \A u \in Threads \ {t} : call'[u] = call[u],
         resizing => resizing' \/ Locks(t),
         Locks(t)' => resizing' /\ (Locks(t) \/ ~resizing),
         At(t, "resize")' => call'[t].main = mainHash
  PROVE  ChainInv'
<1>1. \A u \in Threads \ {t} : /\ (Locks(u)' <=> Locks(u))
                               /\ (At(u, "resize")' <=> At(u, "resize"))
  BY DEF Locks, At
<1>2. \A u \in Threads : Locks(u)' => resizing'
  BY <1>1 DEF ChainInv
<1>3. \A u, v \in Threads : Locks(u)' /\ Locks(v)' => u = v
  BY <1>1 DEF ChainInv
<1> QED BY <1>1, <1>2, <1>3, SameTable DEF ChainInv

(* The types, when a call goes on.                                          *)
LEMMA TypeKeeps ==
  ASSUME TypeOK, UNCHANGED <<table, list>>, NEW t \in Threads, NEW c \in {NoCall} \cup Calls,
         call' = [call EXCEPT ![t] = c], c.pc # "idle" => c.main \in DOMAIN table,
         hashCount' \in Nat, resizing' \in BOOLEAN, failures' \in Nat
  PROVE  TypeOK'
BY DEF TypeOK, list, At

(* A call without a producer goes on without one.                           *)
LEMMA PlainMove ==
  ASSUME IInv, UNCHANGED <<table, mainHash, list>>, NEW t \in Threads,
         NEW c \in {NoCall} \cup Calls, call' = [call EXCEPT ![t] = c],
         ~Carries(t), c.pc \notin {"push", "store"}, c.pc # "idle" => c.main \in DOMAIN table,
         hashCount' \in Nat, resizing' \in BOOLEAN, failures' \in Nat,
         resizing => resizing' \/ Locks(t),
         c.pc \in {"locked", "resize", "unlock", "abandon"} => resizing' /\ (Locks(t) \/ ~resizing),
         c.pc = "resize" => c.main = mainHash,
         CallOK(t)'
  PROVE  /\ TypeOK' /\ ChainInv' /\ ProbeInv' /\ CallInv' /\ HoldInv' /\ LinkInv'
         /\ \A h \in DOMAIN table : Fit(h)' = Fit(h)
         /\ \A u \in Threads \ {t} : call'[u] = call[u] /\ (Waits(u)' <=> Waits(u))
         /\ call'[t] = c
<1>1. TypeOK /\ ChainInv
  BY DEF IInv
<1>2. call'[t] = c /\ \A u \in Threads \ {t} : call'[u] = call[u]
  BY <1>1 DEF TypeOK
<1>3. /\ ~Carries(t)' /\ ~At(t, "push") /\ ~At(t, "push")'
      /\ (Locks(t)' <=> c.pc \in {"locked", "resize", "unlock", "abandon"})
      /\ (At(t, "resize")' <=> c.pc = "resize")
  BY <1>2 DEF Carries, At, Locks
<1>4. \A v : Holds(t, v)' <=> Holds(t, v)
  BY <1>3, SameTable DEF Holds
<1>5. \A h \in DOMAIN table : t \in Fit(h)' <=> t \in Fit(h)
  BY <1>3, SameTable DEF Fit
<1>6. TypeOK'
  BY <1>1, TypeKeeps
<1>7. ChainInv'
  BY <1>1, <1>2, <1>3, ChainKeeps DEF TypeOK
<1>8. /\ ProbeInv' /\ CallInv' /\ HoldInv' /\ LinkInv'
      /\ \A h \in DOMAIN table : Fit(h)' = Fit(h)
      /\ \A u \in Threads \ {t} : Waits(u)' <=> Waits(u)
  BY <1>3, <1>4, <1>5, MoveKeeps
<1> QED BY <1>2, <1>6, <1>7, <1>8

(* It may say which number it is counted under, or not be counted at all.   *)
LEMMA PlainIInv ==
  ASSUME IInv, UNCHANGED <<table, mainHash, list, hashCount>>, NEW t \in Threads,
         NEW c \in {NoCall} \cup Calls, call' = [call EXCEPT ![t] = c],
         ~Carries(t), c.pc \notin {"push", "store"}, c.pc # "idle" => c.main \in DOMAIN table,
         resizing' \in BOOLEAN, failures' \in Nat,
         resizing => resizing' \/ Locks(t),
         c.pc \in {"locked", "resize", "unlock", "abandon"} => resizing' /\ (Locks(t) \/ ~resizing),
         c.pc = "resize" => c.main = mainHash,
         CallOK(t)',
         c.pc \in {"grow", "locked", "resize", "unlock", "fit"} <=> Waits(t),
         Waits(t) => c.n = call[t].n
  PROVE  IInv'
<1>1. TypeOK /\ FullInv
  BY DEF IInv
<1>2. hashCount' \in Nat
  BY <1>1 DEF TypeOK
<1>3. /\ TypeOK' /\ ChainInv' /\ ProbeInv' /\ CallInv' /\ HoldInv' /\ LinkInv'
      /\ \A h \in DOMAIN table : Fit(h)' = Fit(h)
      /\ \A u \in Threads \ {t} : call'[u] = call[u] /\ (Waits(u)' <=> Waits(u))
      /\ call'[t] = c
  BY <1>2, PlainMove
<1>4. Waits(t)' <=> Waits(t)
  BY <1>3 DEF Waits
<1>5. Len(table) \in DOMAIN table
  BY <1>1 DEF TypeOK
<1>6. FullInv'
  BY <1>1, <1>3, <1>4, <1>5, FullKeeps
<1> QED BY <1>3, <1>6 DEF IInv
-------------------------------------------------------------------------------
(* It holds at the start.                                                   *)
LEMMA InitIInv == Init => IInv
<1> SUFFICES ASSUME Init PROVE IInv
  OBVIOUS
<1>0. INITIAL_IMPLICIT_PRODUCER_HASH_SIZE \in Nat \ {0} /\ invalid_thread_id \notin Threads
  BY HashAssumption DEF HashAssumption
<1> DEFINE c0 == INITIAL_IMPLICIT_PRODUCER_HASH_SIZE
<1>1. /\ table = <<NewTable(c0, 0)>> /\ mainHash = 1 /\ hashCount = 0 /\ resizing = FALSE
      /\ next = <<>> /\ listTail = 0 /\ producerCount = 0
      /\ call = [t \in Threads |-> NoCall] /\ failures = 0
  BY DEF Init
<1>2. NewTable(c0, 0) \in Tables
  <2>1. NewTable(c0, 0) \in [capacity : {c0}, prev : Nat, entries : [0..(c0 - 1) -> Cells]]
    BY <1>0 DEF NewTable, Cells, Free
  <2> QED BY <1>0, <2>1 DEF Tables
<1>3. /\ Len(table) = 1 /\ DOMAIN table = {1} /\ table[1] = NewTable(c0, 0)
      /\ Capacity(1) = c0 /\ table[1].prev = 0
      /\ \A i \in 0..(c0 - 1) : Key(1, i) = invalid_thread_id
  <2>1. Len(table) = 1 /\ DOMAIN table = {1} /\ table[1] = NewTable(c0, 0)
    BY <1>1
  <2>2. /\ NewTable(c0, 0).capacity = c0 /\ NewTable(c0, 0).prev = 0
        /\ \A i \in 0..(c0 - 1) : NewTable(c0, 0).entries[i].key = invalid_thread_id
    BY DEF NewTable, Free
  <2> QED BY <2>1, <2>2 DEF Capacity, Key
<1>4. \A t \in Threads : call[t] = NoCall /\ call[t].pc = "idle"
  BY <1>1 DEF NoCall
<1>5. \A t \in Threads : /\ ~Waits(t) /\ ~Carries(t) /\ ~Locks(t) /\ \A h \in DOMAIN table : ~HasId(h, t)
                        /\ At(t, "idle") /\ \A l \in {"resize", "search", "count", "push", "store"} : ~At(t, l)
  BY <1>0, <1>3, <1>4 DEF Waits, Carries, Locks, HasId, At
<1>6. TypeOK
  <2>1. table \in Seq(Tables) /\ Len(table) >= 1
    BY <1>1, <1>2
  <2>2. next \in Seq(Nat) /\ call \in [Threads -> {NoCall} \cup Calls]
    BY <1>1
  <2>3. \A t \in Threads : At(t, "idle")
    BY <1>5
  <2> QED BY <1>1, <2>1, <2>2, <2>3 DEF TypeOK
<1>7. ChainInv
  BY <1>0, <1>1, <1>3, <1>5 DEF ChainInv
<1>8. ProbeInv
  BY <1>0, <1>3 DEF ProbeInv
<1>9. CallInv
  BY <1>5 DEF CallInv, CallOK
<1>10. \A t \in Threads : \A v : ~Holds(t, v)
  BY <1>5 DEF Holds, HasId
<1>11. HoldInv
  BY <1>3, <1>5, <1>10 DEF HoldInv
<1>12. LinkInv
  BY <1>1, <1>5, <1>10 DEF LinkInv, Unpushed
<1>13. FullInv
  <2>1. All = {} /\ AllWaiting = {} /\ Fit(1) = {} /\ \A m : Waiting(m) = {}
    BY <1>3, <1>5 DEF All, Fit, AllWaiting, Waiting
  <2>2. Cardinality({}) = 0
    BY FS_EmptySet
  <2>3. hashCount = Cardinality(All) + Cardinality(AllWaiting)
    BY <1>1, <2>1, <2>2
  <2>4. \A h \in DOMAIN table : \A m \in Nat : Cardinality(Fit(h)) + Cardinality(Waiting(m)) <= m
    BY <1>3, <2>1, <2>2
  <2> QED BY <1>5, <2>3, <2>4 DEF FullInv
<1> QED BY <1>6, <1>7, <1>8, <1>9, <1>11, <1>12, <1>13 DEF IInv
-------------------------------------------------------------------------------
(* A thread calls.                                                          *)
LEMMA EnterStep ==
  ASSUME IInv, NEW t \in Threads, Enter(t)
  PROVE  IInv'
<1> DEFINE c == [pc |-> "search", main |-> mainHash, at |-> mainHash, step |-> 0, n |-> 0, mine |-> 0]
<1>1. /\ At(t, "idle") /\ call' = [call EXCEPT ![t] = c]
      /\ UNCHANGED <<table, mainHash, list, hashCount, resizing, failures>>
  BY DEF Enter, Go, hash
<1>2. /\ TypeOK /\ ChainInv /\ mainHash = Len(table)
      /\ mainHash \in DOMAIN table /\ mainHash \in Nat /\ mainHash >= 1
  BY DEF IInv, ChainInv, TypeOK
<1>3. c \in Calls /\ c.pc = "search" /\ c.main = mainHash
  BY <1>2 DEF Calls
<1>4. ~Carries(t) /\ ~Waits(t) /\ ~Locks(t)
  BY <1>1 DEF Carries, Waits, Locks, At
<1>5. CallOK(t)'
  <2>1. call'[t] = c
    BY <1>1, <1>2 DEF TypeOK
  <2>2. ~Carries(t)' /\ ~Waits(t)' /\ \A l : At(t, l)' => l = "search"
    BY <2>1 DEF Carries, Waits, At
  <2>3. \A h \in DOMAIN table : ~(h > mainHash)
    BY <1>2 DEF TypeOK
  <2> QED BY <1>1, <1>2, <2>1, <2>2, <2>3 DEF CallOK
<1> HIDE DEF c
<1>6. /\ resizing' \in BOOLEAN /\ failures' \in Nat
      /\ c \in {NoCall} \cup Calls /\ c.main \in DOMAIN table
  BY <1>1, <1>2, <1>3 DEF TypeOK
<1> QED BY <1>1, <1>3, <1>4, <1>5, <1>6, PlainIInv

(* A free slot at the probe: the id is not in the table.                    *)
LEMMA NotInTable ==
  ASSUME IInv, NEW t \in Threads, At(t, "search"), Probed(t, call[t].at).key = invalid_thread_id
  PROVE  ~HasId(call[t].at, t)
<1>1. TypeOK /\ ProbeInv /\ CallOK(t) /\ invalid_thread_id # t
  BY HashAssumption DEF IInv, CallInv, HashAssumption
<1>2. call[t] \in Calls /\ call[t].main \in DOMAIN table
  BY <1>1, InCall DEF At
<1>3. PICK h \in DOMAIN table : h = call[t].at
  <2>1. call[t].at \in 1..call[t].main
    BY <1>1 DEF CallOK
  <2> QED BY <1>1, <1>2, <2>1 DEF TypeOK
<1>4. PICK k \in Nat : k = call[t].step
  BY <1>2 DEF Calls
<1>5. /\ Key(h, Index(h, t, k)) = invalid_thread_id
      /\ \A d \in 0..(k - 1) : Key(h, Index(h, t, d)) \notin {t, invalid_thread_id}
  BY <1>1, <1>3, <1>4 DEF CallOK, Probed, Slot, Key, Index
<1>6. ASSUME NEW i \in 0..(Capacity(h) - 1), Key(h, i) = t PROVE FALSE
  <2>1. PICK d \in Nat : /\ i = Index(h, t, d)
                         /\ \A b \in 0..(d - 1) : Key(h, Index(h, t, b)) # invalid_thread_id
    BY <1>1, <1>6 DEF ProbeInv
  <2>2. CASE d < k
    BY <1>4, <1>5, <1>6, <2>1, <2>2
  <2>3. CASE d = k
    BY <1>1, <1>5, <1>6, <2>1, <2>3
  <2>4. CASE d > k
    BY <1>4, <1>5, <2>1, <2>4
  <2> QED BY <1>4, <2>1, <2>2, <2>3, <2>4
<1> QED BY <1>3, <1>6 DEF HasId

(* A probe of the search.                                                   *)
LEMMA SearchStep ==
  ASSUME IInv, NEW t \in Threads, Search(t)
  PROVE  IInv'
<1>1. /\ TypeOK /\ ChainInv /\ ProbeInv /\ CallOK(t) /\ FullInv
      /\ At(t, "search") /\ ~Carries(t) /\ ~Waits(t) /\ ~Locks(t) /\ ~At(t, "push")
      /\ invalid_thread_id # t
      /\ UNCHANGED <<table, mainHash, list, hashCount, resizing, failures>>
  BY HashAssumption DEF IInv, CallInv, Search, hash, At, Carries, Waits, Locks, HashAssumption
<1>2. call[t] \in Calls /\ call[t].main \in DOMAIN table /\ call[t].pc = "search"
  BY <1>1, InCall DEF At
<1>3. PICK h \in DOMAIN table : h = call[t].at /\ h \in 1..call[t].main /\ h \in Nat
  <2>1. call[t].at \in 1..call[t].main
    BY <1>1 DEF CallOK
  <2> QED BY <1>1, <1>2, <2>1 DEF TypeOK
<1>4. PICK k \in Nat : k = call[t].step
  BY <1>2 DEF Calls
<1>5. PICK i \in 0..(Capacity(h) - 1) : i = Index(h, t, k) /\ i = Slot(t, h)
  BY <1>1, <1>4, Probes DEF Index, Slot
<1>6. /\ Probed(t, h).key = Key(h, i) /\ Probed(t, h).value = Value(h, i)
      /\ Value(h, i) \in Nat
      /\ \A g \in DOMAIN table : g > h => ~HasId(g, t)
      /\ \A d \in 0..(k - 1) : Key(h, Index(h, t, d)) \notin {t, invalid_thread_id}
  BY <1>1, <1>3, <1>4, <1>5, Shape DEF CallOK, Probed, Key, Value
<1>7. resizing' \in BOOLEAN /\ failures' \in Nat
  BY <1>1 DEF TypeOK
<1>8. CASE Key(h, i) = t /\ h = call[t].main
  <2>1. call' = [call EXCEPT ![t] = NoCall]
    BY <1>1, <1>3, <1>6, <1>8 DEF Search, Return, Go
  <2>2. call'[t] = NoCall /\ NoCall.pc = "idle"
    BY <1>1, <2>1 DEF TypeOK, NoCall
  <2>3. CallOK(t)'
    BY <2>2 DEF CallOK, At, Carries, Waits
  <2> QED BY <1>1, <1>7, <2>1, <2>2, <2>3, PlainIInv
<1>9. CASE Key(h, i) = t /\ h # call[t].main
  <2> DEFINE c == [With(t, "store") EXCEPT !.step = 0, !.at = 0, !.mine = Probed(t, h).value]
  <2>1. call' = [call EXCEPT ![t] = c]
    BY <1>1, <1>3, <1>6, <1>9 DEF Search, Go
  <2>2. /\ c \in Calls /\ c.pc = "store" /\ c.main = call[t].main /\ c.step = 0
        /\ c.mine = Value(h, i)
    BY <1>2, <1>6 DEF With, Calls
  <2> HIDE DEF c
  <2>3. call'[t] = c /\ \A u \in Threads \ {t} : call'[u] = call[u]
    BY <1>1, <2>1 DEF TypeOK
  <2>4. /\ Carries(t)' /\ ~Waits(t)' /\ ~Locks(t)' /\ \A l : At(t, l)' => l = "store"
    BY <2>2, <2>3 DEF Carries, Waits, Locks, At
  <2>5. CallOK(t)'
    <3>1. \A g \in DOMAIN table : g >= call[t].main => g > h
      BY <1>1, <1>2, <1>3, <1>9 DEF TypeOK
    <3>2. \A g \in DOMAIN table : g >= call[t].main => ~HasId(g, t)
      BY <1>6, <3>1
    <3> QED BY <1>1, <2>2, <2>3, <2>4, <3>2, SameTable DEF CallOK
  <2>6. \A v : Holds(t, v)' <=> Holds(t, v)
    BY <1>1, <1>9, <2>2, <2>3, <2>4, SameTable DEF Holds
  <2>7. ASSUME NEW g \in DOMAIN table PROVE t \in Fit(g)' <=> t \in Fit(g)
    <3>1. \A m \in 1..g : HasId(m, t)' <=> HasId(m, t)
      BY <1>1, SameTable
    <3>2. c.main <= g => h \in 1..g
      BY <1>1, <1>2, <1>3, <2>2 DEF TypeOK
    <3>3. HasId(h, t)
      BY <1>9 DEF HasId
    <3> QED BY <1>1, <2>3, <2>4, <3>1, <3>2, <3>3 DEF Fit
  <2>8. /\ ProbeInv' /\ CallInv' /\ HoldInv' /\ LinkInv'
        /\ \A g \in DOMAIN table : Fit(g)' = Fit(g)
        /\ \A u \in Threads \ {t} : Waits(u)' <=> Waits(u)
    BY <1>1, <2>1, <2>2, <2>4, <2>5, <2>6, <2>7, MoveKeeps
  <2>9. TypeOK'
    BY <1>1, <1>2, <1>7, <2>1, <2>2, TypeKeeps DEF TypeOK
  <2>10. ChainInv'
    BY <1>1, <2>3, <2>4, ChainKeeps DEF TypeOK
  <2>11. FullInv'
    <3>1. Len(table) \in DOMAIN table
      BY <1>1 DEF TypeOK
    <3> QED BY <1>1, <2>3, <2>4, <2>8, <3>1, FullKeeps
  <2> QED BY <2>8, <2>9, <2>10, <2>11 DEF IInv
<1>10. CASE Key(h, i) \notin {t, invalid_thread_id}
  <2> DEFINE c == [call[t] EXCEPT !.step = @ + 1]
  <2>1. call' = [call EXCEPT ![t] = c]
    BY <1>1, <1>3, <1>6, <1>10 DEF Search, Go
  <2>2. c \in Calls /\ c.pc = "search" /\ c.main = call[t].main /\ c.at = h /\ c.step = k + 1
    BY <1>2, <1>3, <1>4 DEF Calls
  <2> HIDE DEF c
  <2>3. call'[t] = c
    BY <1>1, <2>1 DEF TypeOK
  <2>4. ~Carries(t)' /\ ~Waits(t)' /\ \A l : At(t, l)' => l = "search"
    BY <2>2, <2>3 DEF Carries, Waits, At
  <2>5. CallOK(t)'
    <3>1. \A d \in 0..k : d = k \/ d \in 0..(k - 1)
      OBVIOUS
    <3>2. \A d \in 0..k : Key(h, Index(h, t, d)) \notin {t, invalid_thread_id}
      BY <1>5, <1>6, <1>10, <3>1
    <3>3. (k + 1) - 1 = k
      OBVIOUS
    <3> QED BY <1>1, <1>3, <1>6, <2>2, <2>3, <2>4, <3>2, <3>3, SameTable DEF CallOK
  <2> QED BY <1>1, <1>2, <1>7, <2>1, <2>2, <2>5, PlainIInv
<1>11. CASE Key(h, i) = invalid_thread_id
  <2>1. ~HasId(h, t)
    BY <1>1, <1>3, <1>6, <1>11, NotInTable
  <2>2. table[h].prev = h - 1
    BY <1>1 DEF ChainInv
  <2>3. \A g \in DOMAIN table : g > h - 1 => ~HasId(g, t)
    <3>1. \A g \in DOMAIN table : g > h - 1 => g > h \/ g = h
      BY <1>1, <1>3 DEF TypeOK
    <3> QED BY <1>6, <2>1, <3>1
  <2>4. CASE h = 1
    <3> DEFINE c == [With(t, "count") EXCEPT !.step = 0]
    <3>1. call' = [call EXCEPT ![t] = c]
      BY <1>1, <1>3, <1>6, <1>11, <2>2, <2>4 DEF Search, Go
    <3>2. c \in Calls /\ c.pc = "count" /\ c.main = call[t].main /\ c.step = 0
      BY <1>2 DEF With, Calls
    <3> HIDE DEF c
    <3>3. call'[t] = c
      BY <1>1, <3>1 DEF TypeOK
    <3>4. ~Carries(t)' /\ ~Waits(t)' /\ \A l : At(t, l)' => l = "count"
      BY <3>2, <3>3 DEF Carries, Waits, At
    <3>5. \A g \in DOMAIN table : ~HasId(g, t)
      BY <1>1, <2>3, <2>4 DEF TypeOK
    <3>6. CallOK(t)'
      BY <1>1, <3>2, <3>3, <3>4, <3>5, SameTable DEF CallOK
    <3> QED BY <1>1, <1>2, <1>7, <3>1, <3>2, <3>6, PlainIInv
  <2>5. CASE h # 1
    <3> DEFINE c == [call[t] EXCEPT !.at = table[h].prev, !.step = 0]
    <3>1. call' = [call EXCEPT ![t] = c]
      BY <1>1, <1>3, <1>6, <1>11, <2>2, <2>5 DEF Search, Go
    <3>2. /\ c \in Calls /\ c.pc = "search" /\ c.main = call[t].main /\ c.at = h - 1 /\ c.step = 0
          /\ h - 1 \in 1..call[t].main
      <4>1. h - 1 \in Nat /\ h - 1 \in 1..call[t].main
        BY <1>2, <1>3, <2>5 DEF Calls
      <4>2. table[h].prev \in Nat
        BY <2>2, <4>1
      <4> QED BY <1>2, <2>2, <4>1, <4>2 DEF Calls
    <3> HIDE DEF c
    <3>3. call'[t] = c
      BY <1>1, <3>1 DEF TypeOK
    <3>4. ~Carries(t)' /\ ~Waits(t)' /\ \A l : At(t, l)' => l = "search"
      BY <3>2, <3>3 DEF Carries, Waits, At
    <3>5. CallOK(t)'
      BY <1>1, <2>3, <3>2, <3>3, <3>4, SameTable DEF CallOK
    <3> QED BY <1>1, <1>2, <1>7, <3>1, <3>2, <3>5, PlainIInv
  <2> QED BY <2>4, <2>5
<1> QED BY <1>8, <1>9, <1>10, <1>11

(* A thread is counted: it takes the number of all that are.                *)
LEMMA CountStep ==
  ASSUME IInv, NEW t \in Threads, Count(t)
  PROVE  IInv'
<1> DEFINE c == [With(t, "grow") EXCEPT !.n = hashCount + 1]
<1>1. /\ TypeOK /\ FullInv /\ CallOK(t) /\ At(t, "count")
      /\ call' = [call EXCEPT ![t] = c] /\ hashCount' = hashCount + 1
      /\ UNCHANGED <<table, mainHash, list, resizing, failures>>
      /\ hashCount \in Nat /\ resizing' \in BOOLEAN /\ failures' \in Nat
  BY DEF IInv, CallInv, Count, Go, TypeOK
<1>2. call[t] \in Calls /\ call[t].main \in DOMAIN table /\ call[t].pc = "count"
  BY <1>1, InCall DEF At
<1>3. /\ c \in Calls /\ c.pc = "grow" /\ c.main = call[t].main /\ c.n = hashCount + 1
      /\ c.step = call[t].step
  <2>1. /\ With(t, "grow") \in Calls /\ With(t, "grow").pc = "grow" /\ With(t, "grow").main = call[t].main
        /\ With(t, "grow").step = call[t].step
    BY <1>2 DEF With, Calls
  <2>2. hashCount + 1 \in Nat
    BY <1>1
  <2> QED BY <2>1, <2>2 DEF Calls
<1> HIDE DEF c
<1>4. call'[t] = c
  BY <1>1 DEF TypeOK
<1>5. /\ ~Carries(t)' /\ Waits(t)' /\ \A l : At(t, l)' => l = "grow"
      /\ ~Carries(t) /\ ~Waits(t) /\ ~Locks(t)
  BY <1>2, <1>3, <1>4 DEF Carries, Waits, At, Locks
<1>6. CallOK(t)'
  BY <1>1, <1>3, <1>4, <1>5, SameTable DEF CallOK
<1>7. hashCount' \in Nat
  BY <1>1
<1>8. /\ TypeOK' /\ ChainInv' /\ ProbeInv' /\ CallInv' /\ HoldInv' /\ LinkInv'
      /\ \A h \in DOMAIN table : Fit(h)' = Fit(h)
      /\ \A u \in Threads \ {t} : call'[u] = call[u] /\ (Waits(u)' <=> Waits(u))
  BY <1>1, <1>2, <1>3, <1>5, <1>6, <1>7, PlainMove
<1>9. FullInv'
  <2>1. AllWaiting' = AllWaiting \cup {t} /\ t \notin AllWaiting
    BY <1>5, <1>8 DEF AllWaiting
  <2>2. Cardinality(AllWaiting') = Cardinality(AllWaiting) + 1
    BY <2>1, Finite, FS_AddElement
  <2>3. Len(table) \in DOMAIN table /\ All' = All
    BY <1>1, <1>8 DEF TypeOK, All
  <2>4. hashCount' = Cardinality(All') + Cardinality(AllWaiting')
    BY <1>1, <2>2, <2>3, Finite DEF FullInv, All
  <2>5. ASSUME NEW h \in DOMAIN table, NEW m \in Nat
        PROVE  LET k == Cardinality(Fit(h)') + Cardinality(Waiting(m)') IN k <= m \/ k < Limit(h)
    <3>1. CASE m < hashCount + 1
      <4>1. Waiting(m)' = Waiting(m)
        BY <1>1, <1>3, <1>4, <1>5, <1>8, <3>1 DEF Waiting
      <4> QED BY <1>1, <1>8, <4>1 DEF FullInv
    <3>2. CASE m >= hashCount + 1
      <4>1. Waiting(m)' \subseteq AllWaiting' /\ Fit(h)' \subseteq All
        <5>1. \A g \in 1..h : g \in 1..Len(table)
          BY <1>1 DEF TypeOK
        <5>2. \A u \in Threads : call[u].main <= h /\ Carries(u) => call[u].main <= Len(table)
          BY <1>1 DEF TypeOK, At, Carries
        <5>3. Fit(h) \subseteq All
          BY <5>1, <5>2 DEF All, Fit
        <5> QED BY <1>8, <5>3 DEF Waiting, AllWaiting
      <4>2. IsFiniteSet(All) /\ IsFiniteSet(AllWaiting')
        BY Finite, <2>1, FS_AddElement DEF All
      <4>3. /\ Cardinality(Waiting(m)') <= Cardinality(AllWaiting')
            /\ Cardinality(Fit(h)') <= Cardinality(All)
            /\ Cardinality(Waiting(m)') \in Nat /\ Cardinality(Fit(h)') \in Nat
        BY <4>1, <4>2, FS_Subset, FS_CardinalityType
      <4>4. Cardinality(All) \in Nat /\ Cardinality(AllWaiting') \in Nat
        BY <4>2, FS_CardinalityType
      <4> QED BY <1>1, <2>3, <2>4, <3>2, <4>3, <4>4
    <3> QED BY <1>1, <3>1, <3>2
  <2>6. \A u \in Threads : Waits(u)' => call'[u].n >= 1
    BY <1>1, <1>3, <1>4, <1>8 DEF FullInv
  <2> QED BY <1>1, <2>4, <2>5, <2>6, SameTable DEF FullInv
<1> QED BY <1>8, <1>9 DEF IInv

(* A thread is not counted any more: an allocation failed.                  *)
LEMMA FailStep ==
  ASSUME IInv, NEW t \in Threads, Fail(t)
  PROVE  IInv'
<1> DEFINE c == IF At(t, "resize") THEN With(t, "abandon") ELSE NoCall
<1>1. /\ TypeOK /\ ChainInv /\ FullInv /\ CallOK(t) /\ (At(t, "resize") \/ At(t, "fit"))
      /\ call' = [call EXCEPT ![t] = c] /\ hashCount' = hashCount - 1
      /\ UNCHANGED <<table, mainHash, list, resizing>>
      /\ hashCount \in Nat /\ resizing' \in BOOLEAN /\ failures' \in Nat
  BY DEF IInv, CallInv, Fail, Go, Return, TypeOK
<1>2. call[t] \in Calls /\ call[t].main \in DOMAIN table /\ call[t].pc \in {"resize", "fit"}
  BY <1>1, InCall DEF At
<1>3. /\ c \in {NoCall} \cup Calls /\ c.pc \in {"idle", "abandon"}
      /\ c.pc # "idle" => c.main = call[t].main /\ At(t, "resize")
  BY <1>2 DEF With, Calls, NoCall
<1> HIDE DEF c
<1>4. call'[t] = c
  BY <1>1 DEF TypeOK
<1>5. /\ ~Carries(t)' /\ ~Waits(t)' /\ \A l : At(t, l)' => l \in {"idle", "abandon"}
      /\ ~Carries(t) /\ Waits(t) /\ (At(t, "resize") => Locks(t))
  BY <1>2, <1>3, <1>4 DEF Carries, Waits, At, Locks
<1>6. CallOK(t)'
  BY <1>1, <1>5, SameTable DEF CallOK
<1>7. AllWaiting' = AllWaiting \ {t} /\ t \in AllWaiting
  <2>1. \A u \in Threads \ {t} : Waits(u)' <=> Waits(u)
    BY <1>1 DEF TypeOK, Waits
  <2> QED BY <1>5, <2>1 DEF AllWaiting
<1>8. Cardinality(AllWaiting') = Cardinality(AllWaiting) - 1 /\ Cardinality(AllWaiting') \in Nat
  BY <1>7, Finite, FS_RemoveElement, FS_CardinalityType
<1>9. hashCount' \in Nat /\ hashCount' = Cardinality(All) + Cardinality(AllWaiting')
  BY <1>1, <1>8, Finite DEF FullInv, All
<1>10. /\ TypeOK' /\ ChainInv' /\ ProbeInv' /\ CallInv' /\ HoldInv' /\ LinkInv'
       /\ \A h \in DOMAIN table : Fit(h)' = Fit(h)
       /\ \A u \in Threads \ {t} : call'[u] = call[u] /\ (Waits(u)' <=> Waits(u))
  <2>1. /\ c.pc \in {"locked", "resize", "unlock", "abandon"} => resizing' /\ (Locks(t) \/ ~resizing)
        /\ resizing => resizing' \/ Locks(t)
        /\ c.pc # "resize" /\ c.pc \notin {"push", "store"}
    BY <1>1, <1>3, <1>5 DEF ChainInv
  <2> QED BY <1>1, <1>2, <1>3, <1>5, <1>6, <1>9, <2>1, PlainMove
<1>11. FullInv'
  <2>1. Len(table) \in DOMAIN table /\ All' = All
    BY <1>1, <1>10 DEF TypeOK, All
  <2>2. ASSUME NEW h \in DOMAIN table, NEW m \in Nat
        PROVE  LET k == Cardinality(Fit(h)') + Cardinality(Waiting(m)') IN k <= m \/ k < Limit(h)
    <3>1. Waiting(m)' \subseteq Waiting(m)
      BY <1>5, <1>10 DEF Waiting
    <3>2. Cardinality(Waiting(m)') <= Cardinality(Waiting(m)) /\ Cardinality(Waiting(m)') \in Nat
      BY <3>1, Finite, FS_Subset, FS_CardinalityType
    <3>3. Fit(h)' = Fit(h) /\ Cardinality(Fit(h)) \in Nat /\ Cardinality(Waiting(m)) \in Nat
      BY <1>10, Finite
    <3>4. LET k == Cardinality(Fit(h)) + Cardinality(Waiting(m)) IN k <= m \/ k < Limit(h)
      BY <1>1 DEF FullInv
    <3>5. Limit(h) \in Nat
      BY <1>1, Shape DEF Limit
    <3> QED BY <3>2, <3>3, <3>4, <3>5
  <2>3. \A u \in Threads : Waits(u)' => call'[u].n >= 1
    BY <1>1, <1>5, <1>10 DEF FullInv
  <2> QED BY <1>1, <1>9, <2>1, <2>2, <2>3, SameTable DEF FullInv
<1> QED BY <1>10, <1>11 DEF IInv

(* Steps of a call that is counted, up to where it finds room.              *)
LEMMA WaitSteps ==
  ASSUME IInv, NEW t \in Threads,
         Grow(t) \/ Locked(t) \/ Unlock(t) \/ Reload(t)
  PROVE  IInv'
<1>1. /\ TypeOK /\ ChainInv /\ CallOK(t) /\ ~At(t, "idle") /\ Waits(t) /\ ~Carries(t)
      /\ UNCHANGED <<table, mainHash, list, hashCount, failures>>
      /\ failures' \in Nat /\ mainHash \in DOMAIN table /\ mainHash \in Nat
  <2>1. TypeOK /\ ChainInv /\ CallOK(t)
    BY DEF IInv, CallInv
  <2>2. call[t].pc \in {"grow", "locked", "unlock", "fit"}
    BY DEF Grow, Locked, Unlock, Reload, At
  <2>3. UNCHANGED <<table, mainHash, list, hashCount, failures>>
    BY DEF Grow, Locked, Unlock, Reload, hash
  <2> QED BY <2>1, <2>2, <2>3 DEF At, Waits, Carries, TypeOK, ChainInv
<1>2. call[t] \in Calls /\ call[t].main \in DOMAIN table
  BY <1>1, InCall DEF At
<1>3. \E c \in Calls :
         /\ call' = [call EXCEPT ![t] = c]
         /\ c.pc \in {"grow", "locked", "resize", "unlock", "fit"} /\ c.n = call[t].n
         /\ c.step = call[t].step
         /\ c.main \in DOMAIN table /\ (c.pc = "resize" => c.main = mainHash)
         /\ resizing' \in BOOLEAN
         /\ resizing => resizing' \/ Locks(t)
         /\ c.pc \in {"locked", "resize", "unlock", "abandon"} => resizing' /\ (Locks(t) \/ ~resizing)
  <2>1. CASE Grow(t)
    <3>1. PICK l \in {"locked", "fit"} :
             /\ call' = [call EXCEPT ![t] = With(t, l)]
             /\ l = "locked" => ~resizing /\ resizing'
             /\ resizing => resizing'
             /\ resizing' \in BOOLEAN
      BY <1>1, <2>1 DEF Grow, Go, TypeOK
    <3>2. /\ With(t, l) \in Calls /\ With(t, l).pc = l /\ With(t, l).n = call[t].n /\ With(t, l).main = call[t].main
          /\ With(t, l).step = call[t].step
      BY <1>2 DEF With, Calls
    <3> QED BY <1>2, <3>1, <3>2
  <2>2. CASE Locked(t)
    <3>1. PICK l \in {"resize", "unlock"} :
             call' = [call EXCEPT ![t] = [With(t, l) EXCEPT !.main = mainHash]]
      BY <1>1, <2>2 DEF Locked, Go
    <3> DEFINE c == [With(t, l) EXCEPT !.main = mainHash]
    <3>2. c \in Calls /\ c.pc = l /\ c.n = call[t].n /\ c.main = mainHash /\ c.step = call[t].step
      BY <1>1, <1>2 DEF With, Calls
    <3>3. resizing' = resizing /\ Locks(t) /\ resizing /\ resizing \in BOOLEAN
      BY <1>1, <2>2 DEF Locked, hash, Locks, At, ChainInv, TypeOK
    <3> HIDE DEF c
    <3>4. call' = [call EXCEPT ![t] = c]
      BY <3>1 DEF c
    <3> QED BY <1>1, <3>2, <3>3, <3>4
  <2>3. CASE Unlock(t)
    <3>1. /\ call' = [call EXCEPT ![t] = With(t, "fit")] /\ resizing' = FALSE /\ Locks(t)
      BY <2>3 DEF Unlock, Go, Locks, At
    <3>2. /\ With(t, "fit") \in Calls /\ With(t, "fit").pc = "fit" /\ With(t, "fit").n = call[t].n
          /\ With(t, "fit").main = call[t].main /\ With(t, "fit").step = call[t].step
      BY <1>2 DEF With, Calls
    <3> QED BY <1>2, <3>1, <3>2
  <2>4. CASE Reload(t)
    <3> DEFINE c == [With(t, "grow") EXCEPT !.main = mainHash]
    <3>1. call' = [call EXCEPT ![t] = c] /\ resizing' = resizing /\ resizing \in BOOLEAN
      BY <1>1, <2>4 DEF Reload, Go, hash, TypeOK
    <3>2. c \in Calls /\ c.pc = "grow" /\ c.n = call[t].n /\ c.main = mainHash /\ c.step = call[t].step
      BY <1>1, <1>2 DEF With, Calls
    <3> HIDE DEF c
    <3> QED BY <1>1, <3>1, <3>2
  <2> QED BY <2>1, <2>2, <2>3, <2>4
<1>4. PICK c \in Calls :
         /\ call' = [call EXCEPT ![t] = c]
         /\ c.pc \in {"grow", "locked", "resize", "unlock", "fit"} /\ c.n = call[t].n
         /\ c.step = call[t].step
         /\ c.main \in DOMAIN table /\ (c.pc = "resize" => c.main = mainHash)
         /\ resizing' \in BOOLEAN
         /\ resizing => resizing' \/ Locks(t)
         /\ c.pc \in {"locked", "resize", "unlock", "abandon"} => resizing' /\ (Locks(t) \/ ~resizing)
  BY <1>3
<1>5. call'[t] = c
  BY <1>1, <1>4 DEF TypeOK
<1>6. ~Carries(t)' /\ ~At(t, "search")' /\ ~At(t, "push")' /\ ~At(t, "store")'
  BY <1>4, <1>5 DEF Carries, At
<1>7. CallOK(t)'
  BY <1>1, <1>4, <1>5, <1>6, SameTable DEF CallOK
<1>8. c \in {NoCall} \cup Calls /\ c.pc \notin {"push", "store"}
  BY <1>4
<1> QED BY <1>1, <1>4, <1>7, <1>8, PlainIInv

(* The flag is given back after a failure.                                  *)
LEMMA AbandonStep ==
  ASSUME IInv, NEW t \in Threads, Abandon(t)
  PROVE  IInv'
<1>1. /\ TypeOK /\ At(t, "abandon") /\ call' = [call EXCEPT ![t] = NoCall] /\ resizing' = FALSE
      /\ UNCHANGED <<table, mainHash, list, hashCount, failures>> /\ failures' \in Nat
  BY DEF IInv, Abandon, Return, Go, TypeOK
<1>2. ~Carries(t) /\ ~Waits(t) /\ Locks(t) /\ NoCall.pc = "idle"
  BY <1>1 DEF Carries, Waits, Locks, At, NoCall
<1>3. call'[t] = NoCall
  BY <1>1 DEF TypeOK
<1>4. CallOK(t)'
  BY <1>2, <1>3 DEF CallOK, At, Carries, Waits
<1> QED BY <1>1, <1>2, <1>4, PlainIInv
-------------------------------------------------------------------------------
(* The list of producers.                                                   *)

(* The list holds its tail and what is behind its producers.                *)
LEMMA ListClosed ==
  ASSUME listTail \in 0..Len(next), next \in Seq(Nat), \A p \in DOMAIN next : next[p] \in 0..Len(next)
  PROVE  /\ List \subseteq DOMAIN next /\ listTail \in List \cup {0}
         /\ \A p \in List : next[p] \in List \cup {0}
<1>1. \A p \in 0..Len(next) : p \in DOMAIN next \cup {0}
  OBVIOUS
<1> QED BY <1>1 DEF List, FollowsLinks

(* No producer that is not pushed is on it.                                 *)
LEMMA UnpushedOff ==
  ASSUME LinkInv, next \in Seq(Nat)
  PROVE  List \cap Unpushed = {}
<1> DEFINE S == DOMAIN next \ Unpushed
<1>1. \A p \in 0..Len(next) : p \in DOMAIN next \cup {0}
  OBVIOUS
<1>2. S \in SUBSET DOMAIN next /\ FollowsLinks(S)
  BY <1>1 DEF FollowsLinks, LinkInv
<1> HIDE DEF S
<1>3. List \subseteq S
  BY <1>2 DEF List
<1> QED BY <1>3 DEF S

(* What a thread holds has been created.                                    *)
LEMMA HeldExists ==
  ASSUME HoldInv, NEW t \in Threads, NEW v, Holds(t, v)
  PROVE  v \in DOMAIN next
BY HashAssumption DEF HoldInv, Holds, HashAssumption

(* The calls of other threads do not notice a step that leaves the tables.  *)
LEMMA CallsKeep ==
  ASSUME CallInv, UNCHANGED table, NEW t \in Threads,
         \A u \in Threads \ {t} : call'[u] = call[u], CallOK(t)'
  PROVE  /\ CallInv'
         /\ \A u \in Threads \ {t} : /\ (Waits(u)' <=> Waits(u)) /\ (Carries(u)' <=> Carries(u))
                                       /\ \A l : At(u, l)' <=> At(u, l)
         /\ \A u \in Threads \ {t} : \A v : Holds(u, v)' <=> Holds(u, v)
         /\ \A u \in Threads \ {t} : \A h : u \in Fit(h)' <=> u \in Fit(h)
<1>1. \A u \in Threads \ {t} : /\ (Waits(u)' <=> Waits(u)) /\ (Carries(u)' <=> Carries(u))
                               /\ \A l : At(u, l)' <=> At(u, l)
  BY DEF Waits, Carries, At
<1>2. ASSUME NEW u \in Threads \ {t} PROVE CallOK(u)'
  <2>1. CallOK(u)
    BY DEF CallInv
  <2> QED BY <1>1, <2>1, SameTable DEF CallOK
<1>3. \A u \in Threads \ {t} : \A v : Holds(u, v)' <=> Holds(u, v)
  BY <1>1, SameTable DEF Holds
<1>4. \A u \in Threads \ {t} : \A h : u \in Fit(h)' <=> u \in Fit(h)
  BY <1>1, SameTable DEF Fit
<1> QED BY <1>1, <1>2, <1>3, <1>4 DEF CallInv

(* A thread that found room creates its producer.                           *)
LEMMA CreateStep ==
  ASSUME IInv, NEW t \in Threads, Create(t)
  PROVE  IInv'
<1> DEFINE c == [With(t, "push") EXCEPT !.mine = Len(next'), !.n = 0]
<1>1. /\ TypeOK /\ ChainInv /\ ProbeInv /\ CallInv /\ CallOK(t) /\ HoldInv /\ LinkInv /\ FullInv
      /\ At(t, "fit") /\ Room(t) /\ call' = [call EXCEPT ![t] = c]
      /\ next' = Append(next, listTail) /\ producerCount' = producerCount + 1
      /\ UNCHANGED <<table, mainHash, hashCount, resizing, listTail, failures>>
  BY DEF IInv, CallInv, Create, Go, hash
<1>2. call[t] \in Calls /\ call[t].main \in DOMAIN table /\ call[t].pc = "fit"
  BY <1>1, InCall DEF At
<1>3. PICK k \in Nat : k = Len(next)
  <2>1. next \in Seq(Nat)
    BY <1>1 DEF TypeOK
  <2> QED BY <2>1
<1>4. /\ next' \in Seq(Nat) /\ Len(next') = k + 1 /\ DOMAIN next' = 1..(k + 1)
      /\ DOMAIN next = 1..k /\ next'[k + 1] = listTail /\ \A p \in 1..k : next'[p] = next[p]
  BY <1>1, <1>3 DEF TypeOK
<1>5. /\ c \in Calls /\ c.pc = "push" /\ c.main = call[t].main /\ c.mine = k + 1
      /\ c.step = call[t].step
  <2>1. /\ With(t, "push") \in Calls /\ With(t, "push").pc = "push"
        /\ With(t, "push").main = call[t].main /\ With(t, "push").step = call[t].step
    BY <1>2 DEF With, Calls
  <2>2. Len(next') = k + 1 /\ k + 1 \in Nat
    BY <1>4
  <2> QED BY <2>1, <2>2 DEF Calls
<1> HIDE DEF c
<1>6. call'[t] = c /\ \A u \in Threads \ {t} : call'[u] = call[u]
  BY <1>1 DEF TypeOK
<1>7. /\ Carries(t)' /\ ~Waits(t)' /\ ~Locks(t)' /\ \A l : At(t, l)' <=> l = "push"
      /\ ~Carries(t) /\ Waits(t) /\ ~Locks(t) /\ ~At(t, "push")
      /\ call[t].step = 0 /\ \A h \in DOMAIN table : ~HasId(h, t)
  BY <1>1, <1>2, <1>5, <1>6 DEF Carries, Waits, At, Locks, CallOK
<1>8. CallOK(t)'
  BY <1>1, <1>5, <1>6, <1>7, SameTable DEF CallOK
<1>9. /\ CallInv'
      /\ \A u \in Threads \ {t} : /\ (Waits(u)' <=> Waits(u)) /\ (Carries(u)' <=> Carries(u))
                                    /\ \A l : At(u, l)' <=> At(u, l)
      /\ \A u \in Threads \ {t} : \A v : Holds(u, v)' <=> Holds(u, v)
      /\ \A u \in Threads \ {t} : \A h : u \in Fit(h)' <=> u \in Fit(h)
  BY <1>1, <1>6, <1>8, CallsKeep
<1>10. TypeOK'
  <2>1. producerCount' \in Nat
    BY <1>1 DEF TypeOK
  <2>2. call' \in [Threads -> {NoCall} \cup Calls]
    BY <1>1, <1>5 DEF TypeOK
  <2>3. \A u \in Threads : ~At(u, "idle")' => call'[u].main \in DOMAIN table
    BY <1>1, <1>2, <1>5, <1>6, <1>9 DEF TypeOK
  <2> QED BY <1>1, <1>4, <2>1, <2>2, <2>3, SameTable DEF TypeOK
<1>11. ChainInv'
  BY <1>1, <1>6, <1>7, ChainKeeps DEF TypeOK
<1>12. ProbeInv'
  BY <1>1, SameTable DEF ProbeInv
<1>13. \A v : Holds(t, v)' <=> v = k + 1
  BY <1>1, <1>5, <1>6, <1>7, SameTable DEF Holds, HasId
<1>14. \A u \in Threads \ {t} : \A v : Holds(u, v)' => v \in 1..k
  BY <1>1, <1>4, <1>9, HeldExists
<1>15. HoldInv'
  <2>1. \A u, w \in Threads : \A x, y \in 0..(k + 1) :
          Holds(u, x)' /\ Holds(w, y)' => (u = w <=> x = y)
    <3> SUFFICES ASSUME NEW u \in Threads, NEW w \in Threads, NEW x \in 0..(k + 1), NEW y \in 0..(k + 1),
                        Holds(u, x)', Holds(w, y)'
                 PROVE  u = w <=> x = y
      OBVIOUS
    <3>1. CASE u = t \/ w = t
      <4>1. k + 1 \notin 1..k
        OBVIOUS
      <4> QED BY <1>13, <1>14, <3>1, <4>1
    <3>2. CASE u # t /\ w # t
      <4>1. Holds(u, x) /\ Holds(w, y)
        BY <1>9, <3>2
      <4>2. x \in 0..k /\ y \in 0..k
        BY <1>14, <3>2
      <4> QED BY <1>1, <1>3, <4>1, <4>2 DEF HoldInv
    <3> QED BY <3>1, <3>2
  <2>2. \A u \in Threads : Carries(u)' => call'[u].mine \in 1..(k + 1)
    BY <1>1, <1>4, <1>5, <1>6, <1>9 DEF HoldInv
  <2>3. \A h \in DOMAIN table : \A i \in 0..(Capacity(h) - 1) :
           Key(h, i) # invalid_thread_id => Value(h, i) \in 1..(k + 1)
    BY <1>1, <1>4 DEF HoldInv
  <2> QED BY <1>1, <1>4, <2>1, <2>2, <2>3, SameTable DEF HoldInv
<1>16. LinkInv'
  <2>1. Unpushed' = Unpushed \cup {k + 1}
    BY <1>5, <1>6, <1>7, <1>9 DEF Unpushed
  <2>2. listTail \in 0..k /\ k + 1 \notin 0..k /\ \A p \in 1..k : next[p] \in 0..k
    BY <1>1, <1>3, <1>4, SMTT(30) DEF LinkInv
  <2>3. List \subseteq List'
    <3>1. ASSUME NEW p \in List, NEW S \in SUBSET DOMAIN next', FollowsLinks(S)'
          PROVE  p \in S
      <4>1. S \cap DOMAIN next \in SUBSET DOMAIN next /\ FollowsLinks(S \cap DOMAIN next)
        <5>1. \A r \in 0..k : r \in 1..k \cup {0}
          OBVIOUS
        <5> QED BY <1>1, <1>4, <2>2, <3>1, <5>1 DEF FollowsLinks
      <4> QED BY <4>1 DEF List
    <3>2. List \subseteq DOMAIN next'
      BY <1>4 DEF List
    <3> QED BY <3>1, <3>2 DEF List
  <2>4. \A u \in Threads : \A v \in 1..(k + 1) : Holds(u, v)' => v \in List' \/ At(u, "push")'
    <3>1. ASSUME NEW u \in Threads \ {t}, NEW v \in 1..(k + 1), Holds(u, v)' PROVE v \in List' \/ At(u, "push")'
      <4>1. v \in DOMAIN next /\ Holds(u, v)
        BY <1>4, <1>9, <1>14, <3>1
      <4> QED BY <1>1, <1>9, <2>3, <4>1 DEF LinkInv
    <3> QED BY <1>7, <3>1
  <2>5. \A p \in 1..(k + 1) : next'[p] \in 0..(k + 1) /\ next'[p] \notin Unpushed'
    <3>1. \A p \in 1..(k + 1) : p = k + 1 \/ p \in 1..k
      OBVIOUS
    <3> QED BY <1>1, <1>4, <2>1, <2>2, <3>1, SMTT(30) DEF LinkInv
  <2>6. listTail \in 0..(k + 1) /\ listTail \notin Unpushed'
    BY <1>1, <2>1, <2>2 DEF LinkInv
  <2>7. producerCount' = k + 1
    BY <1>1, <1>3 DEF LinkInv
  <2> QED BY <1>1, <1>4, <2>4, <2>5, <2>6, <2>7 DEF LinkInv
<1>17. FullInv'
  <2>1. PICK m0 \in DOMAIN table : m0 = call[t].main
    BY <1>2
  <2>2. /\ call[t].n \in Nat /\ call[t].n >= 1 /\ call[t].n < Limit(m0)
        /\ \A h \in DOMAIN table : m0 <= h => Limit(m0) <= Limit(h)
        /\ \A h \in DOMAIN table : Limit(h) \in Nat
    <3>1. \A h \in DOMAIN table : Limit(h) \in Nat
      BY <1>1, Shape DEF Limit
    <3>2. ASSUME NEW h \in DOMAIN table, m0 <= h PROVE Limit(m0) <= Limit(h)
      <4>1. Capacity(m0) <= Capacity(h) /\ Capacity(m0) \in Nat /\ Capacity(h) \in Nat
        BY <1>1, <3>2, Shape DEF ChainInv
      <4> QED BY <4>1 DEF Limit
    <3>3. call[t].n \in Nat /\ call[t].n >= 1 /\ call[t].n < Limit(m0)
      BY <1>1, <1>2, <1>7, <2>1 DEF Calls, Room, Limit, FullInv
    <3> QED BY <3>1, <3>2, <3>3
  <2>3. AllWaiting' = AllWaiting \ {t} /\ t \in AllWaiting
    BY <1>7, <1>9 DEF AllWaiting
  <2>4. Cardinality(AllWaiting') = Cardinality(AllWaiting) - 1
    BY <2>3, Finite, FS_RemoveElement
  <2>5. ASSUME NEW h \in DOMAIN table
        PROVE  /\ t \notin Fit(h)
               /\ Fit(h)' = IF m0 <= h THEN Fit(h) \cup {t} ELSE Fit(h)
               /\ Cardinality(Fit(h)') = IF m0 <= h THEN Cardinality(Fit(h)) + 1 ELSE Cardinality(Fit(h))
    <3>1. t \notin Fit(h)
      BY <1>1, <1>7 DEF Fit, TypeOK
    <3>2. t \in Fit(h)' <=> m0 <= h
      <4>1. \A g \in 1..h : g \in DOMAIN table
        BY <1>1 DEF TypeOK
      <4> QED BY <1>1, <1>5, <1>6, <1>7, <2>1, <4>1, SameTable DEF Fit
    <3>3. Fit(h)' = IF m0 <= h THEN Fit(h) \cup {t} ELSE Fit(h)
      <4>1. Fit(h) \subseteq Threads /\ Fit(h)' \subseteq Threads
        BY DEF Fit
      <4> QED BY <1>9, <3>1, <3>2, <4>1
    <3>4. IsFiniteSet(Fit(h))
      BY Finite
    <3> QED BY <3>1, <3>3, <3>4, FS_AddElement
  <2>6. /\ Len(table) \in DOMAIN table /\ m0 <= Len(table) /\ All = Fit(Len(table))
        /\ All' = Fit(Len(table))'
    BY <1>1, <2>1 DEF TypeOK, All
  <2>7. hashCount' = Cardinality(All') + Cardinality(AllWaiting')
    BY <1>1, <2>4, <2>5, <2>6, Finite DEF FullInv
  <2>8. ASSUME NEW h \in DOMAIN table, NEW m \in Nat
        PROVE  LET x == Cardinality(Fit(h)') + Cardinality(Waiting(m)') IN x <= m \/ x < Limit(h)
    <3>1. /\ Cardinality(Fit(h)) \in Nat /\ Cardinality(Waiting(m)) \in Nat
          /\ Cardinality(Waiting(call[t].n)) \in Nat
          /\ IsFiniteSet(Waiting(m)) /\ IsFiniteSet(Waiting(call[t].n))
      BY Finite
    <3>2. Waiting(m)' = Waiting(m) \ {t}
      BY <1>6, <1>7, <1>9 DEF Waiting
    <3>3. /\ LET x == Cardinality(Fit(h)) + Cardinality(Waiting(m)) IN x <= m \/ x < Limit(h)
          /\ LET x == Cardinality(Fit(h)) + Cardinality(Waiting(call[t].n))
             IN  x <= call[t].n \/ x < Limit(h)
      BY <1>1, <2>2 DEF FullInv
    <3>4. CASE call[t].n <= m
      <4>1. t \in Waiting(m)
        BY <1>7, <3>4 DEF Waiting
      <4>2. Cardinality(Waiting(m)') = Cardinality(Waiting(m)) - 1
        BY <3>1, <3>2, <4>1, FS_RemoveElement, ZenonT(60)
      <4>3. CASE m0 <= h
        BY <2>2, <2>5, <3>1, <3>3, <4>2, <4>3
      <4>4. CASE ~(m0 <= h)
        BY <2>2, <2>5, <3>1, <3>3, <4>2, <4>4
      <4> QED BY <4>3, <4>4
    <3>5. CASE m < call[t].n
      <4>1. Waiting(m)' = Waiting(m)
        BY <2>2, <3>2, <3>5 DEF Waiting
      <4>2. CASE ~(m0 <= h)
        BY <2>5, <3>3, <4>1, <4>2
      <4>3. CASE m0 <= h
        <5>1. t \in Waiting(call[t].n)
          BY <1>7, <2>2 DEF Waiting
        <5>2. /\ IsFiniteSet(Waiting(call[t].n) \ {t})
              /\ Cardinality(Waiting(call[t].n) \ {t}) = Cardinality(Waiting(call[t].n)) - 1
          BY <3>1, <5>1, FS_RemoveElement
        <5>3. Waiting(m) \subseteq Waiting(call[t].n) \ {t}
          <6>1. ASSUME NEW u \in Waiting(m) PROVE u \in Waiting(call[t].n) /\ u # t
            <7>1. u \in Threads /\ Waits(u) /\ call[u].n <= m
              BY DEF Waiting
            <7>2. call[u].n \in Nat
              BY <1>1, <7>1 DEF TypeOK, Waits, NoCall, Calls
            <7> QED BY <2>2, <3>5, <7>1, <7>2 DEF Waiting
          <6> QED BY <6>1
        <5>4. Cardinality(Waiting(m)) <= Cardinality(Waiting(call[t].n)) - 1
          BY <5>2, <5>3, FS_Subset
        <5>5. Cardinality(Fit(h)') = Cardinality(Fit(h)) + 1
          BY <2>5, <4>3
        <5>6. Limit(m0) <= Limit(h) /\ Limit(h) \in Nat /\ Limit(m0) \in Nat
          BY <2>2, <4>3
        <5> QED BY <2>2, <3>1, <3>3, <4>1, <5>4, <5>5, <5>6
      <4> QED BY <4>2, <4>3
    <3> QED BY <2>2, <3>4, <3>5
  <2>9. \A u \in Threads : Waits(u)' => call'[u].n >= 1
    BY <1>1, <1>6, <1>7, <1>9 DEF FullInv
  <2> QED BY <1>1, <2>7, <2>8, <2>9, SameTable DEF FullInv
<1> QED BY <1>9, <1>10, <1>11, <1>12, <1>15, <1>16, <1>17 DEF IInv

(* A created producer is put in front of the list, unless the tail moved.   *)
LEMMA PushStep ==
  ASSUME IInv, NEW t \in Threads, Push(t)
  PROVE  IInv'
<1>1. /\ TypeOK /\ ChainInv /\ ProbeInv /\ CallInv /\ CallOK(t) /\ HoldInv /\ LinkInv /\ FullInv
      /\ At(t, "push") /\ UNCHANGED <<table, mainHash, hashCount, resizing, producerCount, failures>>
  BY DEF IInv, CallInv, Push, PushIf, hash
<1>2. call[t] \in Calls /\ call[t].main \in DOMAIN table /\ call[t].pc = "push"
  BY <1>1, InCall DEF At
<1>3. next \in Seq(Nat) /\ Len(next) \in Nat /\ DOMAIN next = 1..Len(next)
  <2>1. next \in Seq(Nat)
    BY <1>1 DEF TypeOK
  <2> QED BY <2>1
<1>4. PICK p \in DOMAIN next : p = call[t].mine
  BY <1>1 DEF HoldInv, Carries, At
<1>5. /\ Carries(t) /\ ~Waits(t) /\ ~Locks(t) /\ call[t].step = 0
      /\ \A h \in DOMAIN table : ~HasId(h, t)
  BY <1>1 DEF Carries, Waits, Locks, At, CallOK
<1>6. Holds(t, p) /\ \A u \in Threads : \A v \in DOMAIN next : Holds(u, v) => (u = t <=> v = p)
  <2>1. Holds(t, p)
    BY <1>4, <1>5 DEF Holds
  <2> QED BY <1>1, <1>3, <2>1 DEF HoldInv
<1>7. /\ List \subseteq DOMAIN next /\ listTail \in List \cup {0}
      /\ \A q \in List : next[q] \in List \cup {0}
  BY <1>1, <1>3, ListClosed DEF LinkInv
<1>8. CASE next[p] = listTail
  <2> DEFINE c == With(t, "store")
  <2>1. /\ listTail' = p /\ next' = next /\ call' = [call EXCEPT ![t] = c]
    BY <1>4, <1>8 DEF Push, PushIf, Go
  <2>2. /\ c \in Calls /\ c.pc = "store" /\ c.main = call[t].main /\ c.mine = p /\ c.step = 0
    BY <1>2, <1>4, <1>5 DEF With, Calls
  <2> HIDE DEF c
  <2>3. call'[t] = c /\ \A u \in Threads \ {t} : call'[u] = call[u]
    BY <1>1, <2>1 DEF TypeOK
  <2>4. /\ Carries(t)' /\ ~Waits(t)' /\ ~Locks(t)' /\ \A l : At(t, l)' <=> l = "store"
    BY <2>2, <2>3 DEF Carries, Waits, Locks, At
  <2>5. CallOK(t)'
    BY <1>1, <1>5, <2>2, <2>3, <2>4, SameTable DEF CallOK
  <2>6. /\ CallInv'
        /\ \A u \in Threads \ {t} : /\ (Waits(u)' <=> Waits(u)) /\ (Carries(u)' <=> Carries(u))
                                      /\ \A l : At(u, l)' <=> At(u, l)
        /\ \A u \in Threads \ {t} : \A v : Holds(u, v)' <=> Holds(u, v)
        /\ \A u \in Threads \ {t} : \A h : u \in Fit(h)' <=> u \in Fit(h)
    BY <1>1, <2>3, <2>5, CallsKeep
  <2>7. \A v : Holds(t, v)' <=> Holds(t, v)
    BY <1>1, <1>4, <1>5, <2>2, <2>3, <2>4, SameTable DEF Holds
  <2>8. \A h \in DOMAIN table : Fit(h)' = Fit(h)
    <3>1. \A h : t \in Fit(h)' <=> t \in Fit(h)
      BY <1>1, <1>5, <2>2, <2>3, <2>4, SameTable DEF Fit
    <3>2. \A h : Fit(h) \subseteq Threads /\ Fit(h)' \subseteq Threads
      BY DEF Fit
    <3> QED BY <2>6, <3>1, <3>2
  <2>9. TypeOK'
    <3>1. call' \in [Threads -> {NoCall} \cup Calls]
      BY <1>1, <2>1, <2>2 DEF TypeOK
    <3>2. \A u \in Threads : ~At(u, "idle")' => call'[u].main \in DOMAIN table
      BY <1>1, <1>2, <2>2, <2>3, <2>6 DEF TypeOK
    <3> QED BY <1>1, <1>3, <2>1, <3>1, <3>2 DEF TypeOK
  <2>10. ChainInv'
    BY <1>1, <2>3, <2>4, ChainKeeps DEF TypeOK
  <2>11. ProbeInv'
    BY <1>1, SameTable DEF ProbeInv
  <2>12. HoldInv'
    <3>1. \A u \in Threads : \A v : Holds(u, v)' <=> Holds(u, v)
      BY <2>6, <2>7
    <3>2. \A u \in Threads : Carries(u)' => call'[u].mine \in DOMAIN next
      BY <1>1, <2>2, <2>3, <2>6 DEF HoldInv
    <3> QED BY <1>1, <2>1, <3>1, <3>2, SameTable DEF HoldInv
  <2>13. LinkInv'
    <3>1. Unpushed' = Unpushed \ {p}
      <4>1. \A u \in Threads \ {t} : At(u, "push") => call[u].mine # p
        <5>1. \A u \in Threads \ {t} : At(u, "push") => Holds(u, call[u].mine)
          BY DEF At, Holds, Carries
        <5> QED BY <1>6, <5>1
      <4> QED BY <1>1, <1>4, <2>3, <2>4, <2>6, <4>1 DEF Unpushed
    <3>2. List \subseteq List' /\ p \in List'
      <4>1. ASSUME NEW S \in SUBSET DOMAIN next, FollowsLinks(S)' PROVE p \in S /\ FollowsLinks(S)
        <5>1. p # 0
          BY <1>3
        <5>2. p \in S
          BY <2>1, <4>1, <5>1 DEF FollowsLinks
        <5> QED BY <1>8, <2>1, <4>1, <5>2 DEF FollowsLinks
      <4> QED BY <2>1, <4>1 DEF List
    <3>3. \A u \in Threads : \A v \in DOMAIN next : Holds(u, v)' => v \in List' \/ At(u, "push")'
      <4>1. \A v \in DOMAIN next : Holds(t, v)' => v = p
        BY <1>6, <2>7
      <4> QED BY <1>1, <2>6, <3>2, <4>1 DEF LinkInv
    <3>4. p \in 0..Len(next)
      BY <1>3
    <3> QED BY <1>1, <2>1, <3>1, <3>3, <3>4 DEF LinkInv
  <2>14. FullInv'
    <3>1. Len(table) \in DOMAIN table
      BY <1>1 DEF TypeOK
    <3> QED BY <1>1, <1>5, <2>3, <2>4, <2>6, <2>8, <3>1, FullKeeps
  <2> QED BY <2>6, <2>9, <2>10, <2>11, <2>12, <2>13, <2>14 DEF IInv
<1>9. CASE next[p] # listTail
  <2>1. /\ next' = [next EXCEPT ![p] = listTail] /\ listTail' = listTail /\ call' = call
    BY <1>4, <1>9 DEF Push, PushIf
  <2>2. /\ next' \in Seq(Nat) /\ DOMAIN next' = DOMAIN next /\ Len(next') = Len(next)
        /\ next'[p] = listTail /\ \A q \in DOMAIN next \ {p} : next'[q] = next[q]
    BY <1>1, <1>3, <2>1 DEF TypeOK
  <2>3. \A u \in Threads : /\ (Waits(u)' <=> Waits(u)) /\ (Carries(u)' <=> Carries(u))
                           /\ (Locks(u)' <=> Locks(u)) /\ \A l : At(u, l)' <=> At(u, l)
    BY <2>1 DEF Waits, Carries, Locks, At
  <2>4. TypeOK' /\ ChainInv'
    <3>1. TypeOK'
      BY <1>1, <2>1, <2>2, <2>3 DEF TypeOK
    <3>2. ChainInv'
      BY <1>1, <2>1, <2>3, SameTable DEF ChainInv
    <3> QED BY <3>1, <3>2
  <2>5. ProbeInv'
    BY <1>1, SameTable DEF ProbeInv
  <2>6. CallInv'
    <3>1. ASSUME NEW u \in Threads, CallOK(u) PROVE CallOK(u)'
      BY <1>1, <2>1, <2>3, <3>1, SameTable DEF CallOK
    <3> QED BY <1>1, <3>1 DEF CallInv
  <2>7. /\ \A u \in Threads : \A v : Holds(u, v)' <=> Holds(u, v)
        /\ \A h : Fit(h)' = Fit(h)
    BY <1>1, <2>1, <2>3, SameTable DEF Holds, Fit
  <2>8. HoldInv'
    BY <1>1, <2>1, <2>2, <2>3, <2>7, SameTable DEF HoldInv
  <2>9. LinkInv'
    <3>1. Unpushed' = Unpushed /\ p \in Unpushed
      BY <1>1, <1>4, <2>1, <2>3 DEF Unpushed
    <3>2. List \subseteq List'
      <4>1. List \cap Unpushed = {}
        BY <1>1, <1>3, UnpushedOff
      <4>2. ASSUME NEW S \in SUBSET DOMAIN next, FollowsLinks(S)' PROVE List \subseteq S
        <5>1. FollowsLinks(S \cap List)
          BY <1>7, <2>1, <2>2, <3>1, <4>1, <4>2 DEF FollowsLinks
        <5>2. List \subseteq S \cap List
          BY <1>7, <5>1 DEF List
        <5> QED BY <5>2
      <4> QED BY <1>7, <2>2, <4>2 DEF List
    <3>3. \A q \in DOMAIN next : next'[q] \in 0..Len(next) /\ next'[q] \notin Unpushed
      BY <1>1, <2>2 DEF LinkInv
    <3>4. \A u \in Threads : \A v \in DOMAIN next : Holds(u, v)' => v \in List' \/ At(u, "push")'
      BY <1>1, <2>3, <2>7, <3>2 DEF LinkInv
    <3> QED BY <1>1, <2>1, <2>2, <3>1, <3>3, <3>4 DEF LinkInv
  <2>10. FullInv'
    <3>1. Waits(t) => call'[t].n = call[t].n
      BY <2>1
    <3>2. Len(table) \in DOMAIN table
      BY <1>1 DEF TypeOK
    <3> QED BY <1>1, <2>1, <2>3, <2>7, <3>1, <3>2, FullKeeps
  <2> QED BY <2>4, <2>5, <2>6, <2>8, <2>9, <2>10 DEF IInv
<1> QED BY <1>8, <1>9

(* What a store into one slot changes.                                      *)
LEMMA SetCell ==
  ASSUME TypeOK, NEW h \in DOMAIN table, NEW i \in 0..(Capacity(h) - 1),
         NEW e \in Cells, table' = [table EXCEPT ![h].entries[i] = e]
  PROVE  /\ table' \in Seq(Tables) /\ Len(table') = Len(table) /\ DOMAIN table' = DOMAIN table
         /\ \A g \in DOMAIN table : /\ Capacity(g)' = Capacity(g) /\ table'[g].prev = table[g].prev
                                    /\ Limit(g)' = Limit(g)
                                    /\ \A u, d : Index(g, u, d)' = Index(g, u, d)
         /\ \A g \in DOMAIN table \ {h} : table'[g] = table[g]
         /\ \A j \in (0..(Capacity(h) - 1)) \ {i} : table'[h].entries[j] = table[h].entries[j]
         /\ table'[h].entries[i] = e
<1>1. PICK c \in Nat \ {0} : table[h] \in [capacity : {c}, prev : Nat, entries : [0..(c - 1) -> Cells]]
  <2>1. table[h] \in Tables
    BY DEF TypeOK
  <2> QED BY <2>1 DEF Tables
<1>2. Capacity(h) = c
  BY <1>1 DEF Capacity
<1>3. PICK r : r = [table[h] EXCEPT !.entries[i] = e]
  OBVIOUS
<1>4. /\ r \in [capacity : {c}, prev : Nat, entries : [0..(c - 1) -> Cells]]
      /\ r.capacity = c /\ r.prev = table[h].prev /\ r.entries[i] = e
      /\ \A j \in 0..(c - 1) : j # i => r.entries[j] = table[h].entries[j]
  BY <1>1, <1>2, <1>3
<1>5. r \in Tables
  BY <1>4 DEF Tables
<1>6. table' = [table EXCEPT ![h] = r]
  BY <1>3
<1>7. table \in Seq(Tables)
  BY DEF TypeOK
<1>8. /\ table' \in Seq(Tables) /\ Len(table') = Len(table) /\ DOMAIN table' = DOMAIN table
      /\ table'[h] = r /\ \A g \in DOMAIN table : g # h => table'[g] = table[g]
  BY <1>5, <1>6, <1>7
<1>9. \A g \in DOMAIN table : Capacity(g)' = Capacity(g) /\ table'[g].prev = table[g].prev
  BY <1>2, <1>4, <1>8 DEF Capacity
<1>10. \A g \in DOMAIN table : Limit(g)' = Limit(g) /\ \A u, d : Index(g, u, d)' = Index(g, u, d)
  BY <1>9 DEF Limit, Index
<1>11. /\ table'[h].entries[i] = e
       /\ \A j \in (0..(Capacity(h) - 1)) \ {i} : table'[h].entries[j] = table[h].entries[j]
  BY <1>2, <1>4, <1>8
<1> QED BY <1>8, <1>9, <1>10, <1>11

(* The id goes into the first free slot of the table it is for.             *)
LEMMA StoreStep ==
  ASSUME IInv, NEW t \in Threads, Store(t)
  PROVE  IInv'
<1>1. /\ TypeOK /\ ChainInv /\ ProbeInv /\ CallInv /\ CallOK(t) /\ HoldInv /\ LinkInv /\ FullInv
      /\ At(t, "store") /\ invalid_thread_id \notin Threads
      /\ UNCHANGED <<mainHash, hashCount, resizing, list, failures>>
  BY HashAssumption DEF IInv, CallInv, Store, HashAssumption
<1>2. call[t] \in Calls /\ call[t].main \in DOMAIN table /\ call[t].pc = "store"
  BY <1>1, InCall DEF At
<1>3. PICK h \in DOMAIN table : h = call[t].main
  BY <1>2
<1>4. PICK k \in Nat : k = call[t].step
  BY <1>2 DEF Calls
<1>5. PICK i \in 0..(Capacity(h) - 1) : i = Index(h, t, k) /\ i = Slot(t, h)
  BY <1>1, <1>4, Probes DEF Index, Slot
<1>6. PICK p \in Nat : p = call[t].mine /\ p \in DOMAIN next
  BY <1>1, <1>2 DEF HoldInv, Carries, At, Calls
<1>7. /\ Carries(t) /\ ~Waits(t) /\ ~Locks(t) /\ ~At(t, "push")
      /\ \A l : At(t, l) => l = "store"
  BY <1>1 DEF Carries, Waits, Locks, At
<1>8. /\ Probed(t, h).key = Key(h, i) /\ \A g \in DOMAIN table : g >= h => ~HasId(g, t)
      /\ \A d \in 0..(k - 1) : Key(h, Index(h, t, d)) # invalid_thread_id
  BY <1>1, <1>3, <1>4, <1>5, <1>7 DEF CallOK, Probed, Key
<1>9. CASE Key(h, i) # invalid_thread_id
  <2> DEFINE c == [call[t] EXCEPT !.step = @ + 1]
  <2>1. call' = [call EXCEPT ![t] = c] /\ UNCHANGED table
    BY <1>3, <1>8, <1>9 DEF Store, Go
  <2>2. /\ c \in Calls /\ c.pc = "store" /\ c.main = h /\ c.step = k + 1 /\ c.mine = p
    BY <1>2, <1>3, <1>4, <1>6 DEF Calls
  <2> HIDE DEF c
  <2>3. call'[t] = c /\ \A u \in Threads \ {t} : call'[u] = call[u]
    BY <1>1, <2>1 DEF TypeOK
  <2>4. Carries(t)' /\ ~Waits(t)' /\ ~Locks(t)' /\ \A l : At(t, l)' => l = "store"
    BY <2>2, <2>3 DEF Carries, Waits, Locks, At
  <2>5. CallOK(t)'
    <3>1. \A d \in 0..k : d = k \/ d \in 0..(k - 1)
      OBVIOUS
    <3>2. \A d \in 0..k : Key(h, Index(h, t, d)) # invalid_thread_id
      BY <1>5, <1>8, <1>9, <3>1
    <3>3. (k + 1) - 1 = k
      OBVIOUS
    <3> QED BY <1>8, <2>1, <2>2, <2>3, <2>4, <3>2, <3>3, SameTable DEF CallOK
  <2>6. \A v : Holds(t, v)' <=> Holds(t, v)
    BY <1>6, <1>7, <2>1, <2>2, <2>3, <2>4, SameTable DEF Holds
  <2>7. \A g \in DOMAIN table : t \in Fit(g)' <=> t \in Fit(g)
    BY <1>3, <1>7, <2>1, <2>2, <2>3, <2>4, SameTable DEF Fit
  <2>8. /\ ProbeInv' /\ CallInv' /\ HoldInv' /\ LinkInv'
        /\ \A g \in DOMAIN table : Fit(g)' = Fit(g)
        /\ \A u \in Threads \ {t} : Waits(u)' <=> Waits(u)
    BY <1>1, <1>7, <2>1, <2>2, <2>4, <2>5, <2>6, <2>7, MoveKeeps
  <2>9. TypeOK'
    <3>1. hashCount' \in Nat /\ resizing' \in BOOLEAN /\ failures' \in Nat
      BY <1>1 DEF TypeOK
    <3>2. c \in {NoCall} \cup Calls /\ (c.pc # "idle" => c.main \in DOMAIN table)
      BY <2>2
    <3> QED BY <1>1, <2>1, <3>1, <3>2, TypeKeeps
  <2>10. ChainInv'
    BY <1>1, <2>1, <2>3, <2>4, ChainKeeps DEF TypeOK
  <2>11. FullInv'
    <3>1. Len(table) \in DOMAIN table
      BY <1>1 DEF TypeOK
    <3> QED BY <1>1, <1>7, <2>1, <2>3, <2>4, <2>8, <3>1, FullKeeps
  <2> QED BY <2>8, <2>9, <2>10, <2>11 DEF IInv
<1>10. CASE Key(h, i) = invalid_thread_id
  <2>1. PICK e \in Cells : e = [key |-> t, value |-> p]
    BY DEF Cells
  <2>2. UNCHANGED list
    BY <1>1
  <2>3. table' = [table EXCEPT ![h].entries[i] = e] /\ call' = [call EXCEPT ![t] = NoCall]
    BY <1>3, <1>5, <1>6, <1>8, <1>10, <2>1 DEF Store, Return, Go
  <2>4. /\ table' \in Seq(Tables) /\ Len(table') = Len(table) /\ DOMAIN table' = DOMAIN table
        /\ \A g \in DOMAIN table : /\ Capacity(g)' = Capacity(g) /\ table'[g].prev = table[g].prev
                                   /\ Limit(g)' = Limit(g)
                                   /\ \A u, d : Index(g, u, d)' = Index(g, u, d)
        /\ \A g \in DOMAIN table : \A j \in 0..(Capacity(g) - 1) :
             g # h \/ j # i => Key(g, j)' = Key(g, j) /\ Value(g, j)' = Value(g, j)
        /\ Key(h, i)' = t /\ Value(h, i)' = p
    <3>1. /\ table' \in Seq(Tables) /\ Len(table') = Len(table) /\ DOMAIN table' = DOMAIN table
          /\ \A g \in DOMAIN table : /\ Capacity(g)' = Capacity(g) /\ table'[g].prev = table[g].prev
                                     /\ Limit(g)' = Limit(g)
                                     /\ \A u, d : Index(g, u, d)' = Index(g, u, d)
      BY <1>1, <2>1, <2>3, SetCell
    <3>2. /\ \A g \in DOMAIN table \ {h} : table'[g] = table[g]
          /\ \A j \in (0..(Capacity(h) - 1)) \ {i} : Key(h, j)' = Key(h, j) /\ Value(h, j)' = Value(h, j)
          /\ Key(h, i)' = t /\ Value(h, i)' = p
      <4>1. /\ \A g \in DOMAIN table \ {h} : table'[g] = table[g]
            /\ \A j \in (0..(Capacity(h) - 1)) \ {i} : table'[h].entries[j] = table[h].entries[j]
            /\ table'[h].entries[i] = e
        <5>1. \A g \in DOMAIN table \ {h} : table'[g] = table[g]
          BY <1>1, <2>3, SetCell
        <5>2. \A j \in (0..(Capacity(h) - 1)) \ {i} : table'[h].entries[j] = table[h].entries[j]
          BY <1>1, <2>3, SetCell
        <5>3. table'[h].entries[i] = e
          BY <1>1, <2>3, SetCell, ZenonT(60)
        <5> QED BY <5>1, <5>2, <5>3
      <4>2. \A j \in (0..(Capacity(h) - 1)) \ {i} : Key(h, j)' = Key(h, j) /\ Value(h, j)' = Value(h, j)
        BY <4>1 DEF Key, Value
      <4>3. Key(h, i)' = t /\ Value(h, i)' = p
        BY <2>1, <4>1 DEF Key, Value
      <4> QED BY <4>1, <4>2, <4>3
    <3>3. \A g \in DOMAIN table : \A j \in 0..(Capacity(g) - 1) :
             g # h \/ j # i => Key(g, j)' = Key(g, j) /\ Value(g, j)' = Value(g, j)
      BY <3>2 DEF Key, Value
    <3> QED BY <3>1, <3>2, <3>3
  <2>5. call'[t] = NoCall /\ \A u \in Threads \ {t} : call'[u] = call[u]
    BY <1>1, <2>3 DEF TypeOK
  <2>6. ~Carries(t)' /\ ~Waits(t)' /\ ~Locks(t)' /\ \A l : At(t, l)' <=> l = "idle"
    BY <2>5 DEF NoCall, Carries, Waits, Locks, At
  <2>7. \A u \in Threads \ {t} : /\ (Waits(u)' <=> Waits(u)) /\ (Carries(u)' <=> Carries(u))
                                 /\ (Locks(u)' <=> Locks(u)) /\ \A l : At(u, l)' <=> At(u, l)
    BY <2>5 DEF Waits, Carries, Locks, At
  <2>8. /\ \A g \in DOMAIN table : \A u \in Threads \ {t} : HasId(g, u)' <=> HasId(g, u)
        /\ \A g \in DOMAIN table : HasId(g, t)' <=> (HasId(g, t) \/ g = h)
    BY <1>1, <1>10, <2>4 DEF HasId
  <2>9. \A g \in DOMAIN table : \A j \in 0..(Capacity(g) - 1) :
          Key(g, j) # invalid_thread_id => Key(g, j)' # invalid_thread_id
    BY <1>1, <2>4
  <2>10. \A u \in Threads : \A v : Holds(u, v)' <=> Holds(u, v)
    <3>1. ASSUME NEW u \in Threads \ {t}, NEW v PROVE Holds(u, v)' <=> Holds(u, v)
      BY <1>1, <1>10, <2>4, <2>5, <2>7 DEF Holds
    <3>2. ASSUME NEW v PROVE Holds(t, v)' <=> Holds(t, v)
      <4>1. Holds(t, v) => v = p
        BY <1>1, <1>6, <1>7, HeldExists DEF HoldInv, Holds
      <4>2. Holds(t, p)
        BY <1>6, <1>7 DEF Holds
      <4>3. Holds(t, p)'
        BY <2>4 DEF Holds
      <4>4. Holds(t, v)' => v = p \/ Holds(t, v)
        BY <2>4, <2>6 DEF Holds
      <4> QED BY <4>1, <4>2, <4>3, <4>4
    <3> QED BY <3>1, <3>2
  <2>11. ASSUME NEW g \in DOMAIN table PROVE Fit(g)' = Fit(g)
    <3>1. \A m \in 1..g : m \in DOMAIN table
      BY <1>1 DEF TypeOK
    <3>2. \A u \in Threads \ {t} : u \in Fit(g)' <=> u \in Fit(g)
      BY <2>5, <2>7, <2>8, <3>1 DEF Fit
    <3>3. t \in Fit(g)' <=> t \in Fit(g)
      <4>1. h \in 1..g <=> h <= g
        BY <1>1 DEF TypeOK
      <4> QED BY <1>3, <1>7, <2>6, <2>8, <3>1, <4>1 DEF Fit
    <3>4. Fit(g) \subseteq Threads /\ Fit(g)' \subseteq Threads
      BY DEF Fit
    <3> QED BY <3>2, <3>3, <3>4
  <2>12. TypeOK'
    <3>1. call' \in [Threads -> {NoCall} \cup Calls]
      BY <1>1, <2>3 DEF TypeOK
    <3>2. \A u \in Threads : ~At(u, "idle")' => call'[u].main \in DOMAIN table'
      BY <1>1, <2>4, <2>5, <2>6, <2>7 DEF TypeOK
    <3> QED BY <1>1, <2>4, <3>1, <3>2 DEF TypeOK, list
  <2>13. ChainInv'
    BY <1>1, <1>7, <2>4, <2>5, <2>6, <2>7 DEF ChainInv
  <2>14. ProbeInv'
    <3>1. ASSUME NEW g \in DOMAIN table, NEW u \in Threads, NEW j \in 0..(Capacity(g) - 1), Key(g, j)' = u
          PROVE  \E d \in Nat : j = Index(g, u, d)' /\ \A b \in 0..(d - 1) :
                                                          Key(g, Index(g, u, b))' # invalid_thread_id
      <4>1. CASE g = h /\ j = i
        <5>1. u = t
          BY <2>4, <3>1, <4>1
        <5>2. \A b \in 0..(k - 1) : Index(h, t, b) \in 0..(Capacity(h) - 1)
          BY <1>1, Probes
        <5>3. \A b \in 0..(k - 1) : Key(h, Index(h, t, b))' # invalid_thread_id
          BY <1>8, <2>4, <2>9, <5>2, SMTT(30)
        <5>4. i = Index(h, t, k)'
          BY <1>5, <2>4
        <5> QED BY <4>1, <5>1, <5>3, <5>4
      <4>2. CASE ~(g = h /\ j = i)
        <5>1. Key(g, j) = u
          BY <2>4, <3>1, <4>2
        <5>2. PICK d \in Nat : /\ j = Index(g, u, d)
                               /\ \A b \in 0..(d - 1) : Key(g, Index(g, u, b)) # invalid_thread_id
          BY <1>1, <5>1 DEF ProbeInv
        <5>3. \A b \in 0..(d - 1) : Index(g, u, b) \in 0..(Capacity(g) - 1)
          BY <1>1, Probes
        <5>4. \A b \in 0..(d - 1) : Key(g, Index(g, u, b))' # invalid_thread_id
          BY <2>4, <2>9, <5>2, <5>3
        <5> QED BY <2>4, <5>2, <5>4
      <4> QED BY <4>1, <4>2
    <3>2. ASSUME NEW g \in DOMAIN table, NEW j \in 0..(Capacity(g) - 1), NEW l \in 0..(Capacity(g) - 1),
                 Key(g, j)' = Key(g, l)', Key(g, j)' # invalid_thread_id
          PROVE  j = l
      <4>1. CASE Key(g, j)' = t /\ g = h
        <5>1. \A m \in 0..(Capacity(h) - 1) : Key(h, m) # t
          BY <1>1, <1>8 DEF HasId, TypeOK
        <5> QED BY <2>4, <3>2, <4>1, <5>1
      <4>2. CASE ~(Key(g, j)' = t /\ g = h)
        BY <1>1, <2>4, <3>2, <4>2 DEF ProbeInv
      <4> QED BY <4>1, <4>2
    <3> QED BY <2>4, <3>1, <3>2 DEF ProbeInv
  <2>15. CallInv'
    <3>1. CallOK(t)'
      BY <2>6 DEF CallOK
    <3>2. ASSUME NEW u \in Threads \ {t} PROVE CallOK(u)'
      <4>1. CallOK(u) /\ (~At(u, "idle") => call[u] \in Calls /\ call[u].main \in DOMAIN table)
        BY <1>1, InCall DEF CallInv, At
      <4>2. ASSUME At(u, "search")
            PROVE  \A d \in 0..(call[u].step - 1) :
                     Key(call[u].at, Index(call[u].at, u, d))' \notin {u, invalid_thread_id}
        <5>1. PICK g \in DOMAIN table : g = call[u].at
          <6>1. call[u].at \in 1..call[u].main /\ call[u].main \in DOMAIN table
            BY <4>1, <4>2 DEF CallOK, At
          <6> QED BY <1>1, <6>1 DEF TypeOK
        <5>2. call[u].step \in Nat
          BY <4>1, <4>2 DEF Calls, At
        <5>3. \A d \in 0..(call[u].step - 1) : Index(g, u, d) \in 0..(Capacity(g) - 1)
          BY <1>1, <5>2, Probes
        <5>4. \A d \in 0..(call[u].step - 1) : Key(g, Index(g, u, d)) \notin {u, invalid_thread_id}
          BY <4>1, <4>2, <5>1 DEF CallOK
        <5>5. \A d \in 0..(call[u].step - 1) : Key(g, Index(g, u, d))' \notin {u, invalid_thread_id}
          BY <1>1, <2>4, <5>3, <5>4
        <5> QED BY <2>4, <2>5, <5>1, <5>5
      <4>3. ASSUME At(u, "store")
            PROVE  \A d \in 0..(call[u].step - 1) :
                     Key(call[u].main, Index(call[u].main, u, d))' # invalid_thread_id
        <5>1. PICK g \in DOMAIN table : g = call[u].main
          BY <4>1, <4>3 DEF At
        <5>2. call[u].step \in Nat
          BY <4>1, <4>3 DEF Calls, At
        <5>3. \A d \in 0..(call[u].step - 1) : Index(g, u, d) \in 0..(Capacity(g) - 1)
          BY <1>1, <5>2, Probes
        <5>4. \A d \in 0..(call[u].step - 1) : Key(g, Index(g, u, d)) # invalid_thread_id
          BY <4>1, <4>3, <5>1 DEF CallOK
        <5>5. \A d \in 0..(call[u].step - 1) : Key(g, Index(g, u, d))' # invalid_thread_id
          BY <2>4, <2>9, <5>3, <5>4
        <5> QED BY <2>4, <2>5, <5>1, <5>5
      <4>5. At(u, "search") => \A d \in 0..(call[u].step - 1) :
              Key(call[u].at, Index(call[u].at, u, d))' \notin {u, invalid_thread_id}
        BY <4>2
      <4>6. At(u, "store") => \A d \in 0..(call[u].step - 1) :
              Key(call[u].main, Index(call[u].main, u, d))' # invalid_thread_id
        BY <4>3
      <4>7. At(u, "search")' =>
              /\ call'[u].at \in 1..call'[u].main
              /\ \A g \in DOMAIN table' : g > call'[u].at => ~HasId(g, u)'
        BY <2>4, <2>5, <2>7, <2>8, <4>1 DEF CallOK
      <4>8. (At(u, "count") \/ Waits(u) \/ At(u, "push"))' =>
              call'[u].step = 0 /\ \A g \in DOMAIN table' : ~HasId(g, u)'
        BY <2>4, <2>5, <2>7, <2>8, <4>1 DEF CallOK
      <4>9. Carries(u)' => \A g \in DOMAIN table' : g >= call'[u].main => ~HasId(g, u)'
        BY <2>4, <2>5, <2>7, <2>8, <4>1 DEF CallOK
      <4> QED BY <2>5, <2>7, <4>5, <4>6, <4>7, <4>8, <4>9 DEF CallOK
    <3> QED BY <3>1, <3>2 DEF CallInv
  <2>16. HoldInv'
    <3>1. \A u \in Threads : Carries(u)' => call'[u].mine \in DOMAIN next
      BY <1>1, <2>5, <2>6, <2>7 DEF HoldInv
    <3>2. \A g \in DOMAIN table : \A j \in 0..(Capacity(g) - 1) :
             Key(g, j)' # invalid_thread_id => Value(g, j)' \in DOMAIN next
      BY <1>1, <1>6, <2>4 DEF HoldInv
    <3>3. next' = next
      BY <1>1 DEF list
    <3>4. \A u, w \in Threads : \A x, y \in 0..Len(next) :
            Holds(u, x)' /\ Holds(w, y)' => (u = w <=> x = y)
      BY <1>1, <2>10 DEF HoldInv
    <3>5. \A g \in DOMAIN table' : \A j \in 0..(Capacity(g)' - 1) :
             Key(g, j)' # invalid_thread_id => Value(g, j)' \in DOMAIN next
      BY <2>4, <3>2
    <3> QED BY <3>1, <3>3, <3>4, <3>5 DEF HoldInv
  <2>17. LinkInv'
    <3>1. Unpushed' = Unpushed
      BY <1>7, <2>5, <2>6, <2>7 DEF Unpushed
    <3>2. List' = List /\ UNCHANGED <<next, listTail, producerCount>>
      BY <1>1 DEF List, FollowsLinks, list
    <3>3. \A u \in Threads : \A v \in DOMAIN next : Holds(u, v)' => v \in List \/ At(u, "push")'
      BY <1>1, <1>7, <2>7, <2>10 DEF LinkInv
    <3> QED BY <1>1, <3>1, <3>2, <3>3 DEF LinkInv
  <2>18. FullInv'
    <3>1. Len(table) \in DOMAIN table
      BY <1>1 DEF TypeOK
    <3>2. All' = All
      BY <2>4, <2>11, <3>1 DEF All
    <3>3. AllWaiting' = AllWaiting /\ \A m : Waiting(m)' = Waiting(m)
      BY <1>7, <2>5, <2>6, <2>7 DEF AllWaiting, Waiting
    <3>4. \A u \in Threads : Waits(u)' => call'[u].n >= 1
      BY <1>1, <2>5, <2>6, <2>7 DEF FullInv
    <3> QED BY <1>1, <2>4, <2>11, <3>2, <3>3, <3>4 DEF FullInv
  <2> QED BY <2>12, <2>13, <2>14, <2>15, <2>16, <2>17, <2>18 DEF IInv
<1> QED BY <1>9, <1>10

(* What a new table changes.                                                *)
LEMMA AddTable ==
  ASSUME TypeOK, NEW c \in Nat \ {0}, NEW N \in Nat, N = Len(table),
         table' = Append(table, NewTable(c, N))
  PROVE  /\ table' \in Seq(Tables) /\ Len(table') = N + 1
         /\ DOMAIN table = 1..N /\ DOMAIN table' = 1..(N + 1)
         /\ \A g \in 1..N : table'[g] = table[g]
         /\ Capacity(N + 1)' = c /\ table'[N + 1].prev = N
         /\ \A j \in 0..(c - 1) : Key(N + 1, j)' = invalid_thread_id
<1>1. table \in Seq(Tables)
  BY DEF TypeOK
<1>2. PICK r : r = NewTable(c, N)
  OBVIOUS
<1>3. /\ r.capacity = c /\ r.prev = N /\ \A j \in 0..(c - 1) : r.entries[j].key = invalid_thread_id
      /\ r \in [capacity : {c}, prev : Nat, entries : [0..(c - 1) -> Cells]]
  BY <1>2 DEF NewTable, Free, Cells
<1>4. r \in Tables
  BY <1>3 DEF Tables
<1>5. /\ table' \in Seq(Tables) /\ Len(table') = N + 1 /\ table'[N + 1] = r
      /\ DOMAIN table = 1..N /\ DOMAIN table' = 1..(N + 1)
      /\ \A g \in 1..N : table'[g] = table[g]
  BY <1>1, <1>2, <1>4
<1>6. Capacity(N + 1)' = c /\ \A j \in 0..(c - 1) : Key(N + 1, j)' = invalid_thread_id
  BY <1>3, <1>5 DEF Capacity, Key
<1> QED BY <1>3, <1>5, <1>6

(* Whoever holds the flag puts a larger table in front of the chain.        *)
LEMMA ResizeStep ==
  ASSUME IInv, NEW t \in Threads, Resize(t)
  PROVE  IInv'
<1>1. /\ TypeOK /\ ChainInv /\ ProbeInv /\ CallInv /\ CallOK(t) /\ HoldInv /\ LinkInv /\ FullInv
      /\ At(t, "resize") /\ invalid_thread_id \notin Threads
      /\ UNCHANGED <<hashCount, resizing, list, failures>> /\ mainHash' = Len(table')
  BY HashAssumption DEF IInv, CallInv, Resize, HashAssumption
<1>2. call[t] \in Calls /\ call[t].main \in DOMAIN table /\ call[t].pc = "resize"
  BY <1>1, InCall DEF At
<1>3. PICK N \in Nat : N = Len(table) /\ N = mainHash /\ N >= 1 /\ DOMAIN table = 1..N /\ N \in DOMAIN table
  <2>1. table \in Seq(Tables) /\ Len(table) >= 1 /\ mainHash = Len(table)
    BY <1>1 DEF TypeOK, ChainInv
  <2> QED BY <2>1
<1>4. call[t].main = N
  BY <1>1, <1>3 DEF ChainInv
<1>5. Capacity(N) \in Nat \ {0}
  BY <1>1, <1>3, Shape
<1>6. PICK c \in NewCapacity(Capacity(N), call[t].n) : table' = Append(table, NewTable(c, N))
  BY <1>4 DEF Resize
<1>7. c \in Nat \ {0} /\ c >= 2 * Capacity(N)
  <2>1. call[t].n \in Nat
    BY <1>2 DEF Calls
  <2>2. c \in (2 * Capacity(N))..(2 * Capacity(N) + 4 * call[t].n)
    BY <1>6 DEF NewCapacity
  <2> QED BY <1>5, <2>1, <2>2
<1>8. /\ table' \in Seq(Tables) /\ Len(table') = N + 1 /\ DOMAIN table' = 1..(N + 1)
      /\ \A g \in 1..N : table'[g] = table[g]
      /\ Capacity(N + 1)' = c /\ table'[N + 1].prev = N
      /\ \A j \in 0..(c - 1) : Key(N + 1, j)' = invalid_thread_id
  BY <1>1, <1>3, <1>6, <1>7, AddTable
<1>9. /\ \A g \in 1..N : Capacity(g)' = Capacity(g) /\ Limit(g)' = Limit(g)
      /\ \A g \in 1..N : \A j : Key(g, j)' = Key(g, j) /\ Value(g, j)' = Value(g, j)
      /\ \A g \in 1..N : \A u : HasId(g, u)' <=> HasId(g, u)
      /\ \A g \in 1..N : \A u, d : Index(g, u, d)' = Index(g, u, d)
      /\ \A u \in Threads : ~HasId(N + 1, u)'
      /\ \A g \in 1..(N + 1) : g = N + 1 \/ g \in 1..N
  BY <1>1, <1>8 DEF Capacity, Limit, Key, Value, HasId, Index
<1> DEFINE d0 == [With(t, "unlock") EXCEPT !.main = mainHash']
<1>10. call' = [call EXCEPT ![t] = d0]
  BY DEF Resize, Go
<1>11. d0 \in Calls /\ d0.pc = "unlock" /\ d0.main = N + 1 /\ d0.n = call[t].n /\ d0.step = call[t].step
  <2>1. /\ With(t, "unlock") \in Calls /\ With(t, "unlock").pc = "unlock"
        /\ With(t, "unlock").n = call[t].n /\ With(t, "unlock").step = call[t].step
    BY <1>2 DEF With, Calls
  <2>2. mainHash' = N + 1 /\ N + 1 \in Nat
    BY <1>1, <1>8
  <2> QED BY <2>1, <2>2 DEF Calls
<1> HIDE DEF d0
<1>12. call'[t] = d0 /\ \A u \in Threads \ {t} : call'[u] = call[u]
  BY <1>1, <1>10 DEF TypeOK
<1>13. /\ ~Carries(t)' /\ Waits(t)' /\ Locks(t)' /\ \A l : At(t, l)' <=> l = "unlock"
       /\ ~Carries(t) /\ Waits(t) /\ Locks(t) /\ ~At(t, "push")
       /\ call[t].step = 0 /\ \A h \in DOMAIN table : ~HasId(h, t)
  BY <1>1, <1>2, <1>11, <1>12 DEF Carries, Waits, Locks, At, CallOK
<1>14. \A u \in Threads \ {t} : /\ (Waits(u)' <=> Waits(u)) /\ (Carries(u)' <=> Carries(u))
                                /\ (Locks(u)' <=> Locks(u)) /\ \A l : At(u, l)' <=> At(u, l)
  BY <1>12 DEF Waits, Carries, Locks, At
<1>15. \A u \in Threads : \A v : Holds(u, v)' <=> Holds(u, v)
  <2>1. \A u \in Threads : \A j \in 0..(Capacity(N + 1)' - 1) : Key(N + 1, j)' # u
    BY <1>1, <1>8
  <2>2. \A u \in Threads : Carries(u)' <=> Carries(u)
    BY <1>13, <1>14
  <2>3. \A u \in Threads : Carries(u) => call'[u] = call[u]
    BY <1>12, <1>13
  <2> QED BY <1>3, <1>8, <1>9, <2>1, <2>2, <2>3 DEF Holds
<1>16. TypeOK'
  <2>1. call' \in [Threads -> {NoCall} \cup Calls]
    BY <1>1, <1>10, <1>11 DEF TypeOK
  <2>2. \A u \in Threads : ~At(u, "idle")' => call'[u].main \in 1..(N + 1)
    <3>1. \A u \in Threads \ {t} : ~At(u, "idle") => call[u].main \in 1..N
      BY <1>1, <1>3 DEF TypeOK
    <3>2. N + 1 \in 1..(N + 1) /\ \A g \in 1..N : g \in 1..(N + 1)
      BY <1>3
    <3> QED BY <1>11, <1>12, <1>14, <3>1, <3>2
  <2>3. Len(table') >= 1
    BY <1>8
  <2> QED BY <1>1, <1>8, <2>1, <2>2, <2>3 DEF TypeOK, list
<1>17. ChainInv'
  <2>1. \A h \in 1..(N + 1) : table'[h].prev = h - 1
    BY <1>1, <1>3, <1>8, <1>9 DEF ChainInv
  <2>2. \A g, h \in 1..(N + 1) : g <= h => Capacity(g)' <= Capacity(h)'
    <3>1. \A g, h \in 1..N : g <= h => Capacity(g) <= Capacity(h)
      BY <1>1, <1>3 DEF ChainInv
    <3>2. ASSUME NEW g \in 1..N PROVE Capacity(g) <= c
      <4>1. Capacity(g) <= Capacity(N) /\ Capacity(g) \in Nat
        BY <1>1, <1>3, <3>1, Shape, SMTT(30)
      <4> QED BY <1>5, <1>7, <4>1
    <3>3. ASSUME NEW g \in 1..(N + 1), NEW h \in 1..(N + 1), g <= h
          PROVE  Capacity(g)' <= Capacity(h)'
      <4>1. CASE h = N + 1 /\ g = N + 1
        BY <1>7, <1>8, <4>1
      <4>2. CASE h = N + 1 /\ g \in 1..N
        <5>1. Capacity(g) <= c
          BY <3>2, <4>2
        <5> QED BY <1>8, <1>9, <4>2, <5>1
      <4>3. CASE h \in 1..N
        <5>1. g \in 1..N
          BY <3>3, <4>3
        <5> QED BY <1>9, <3>1, <3>3, <4>3, <5>1
      <4> QED BY <1>9, <4>1, <4>2, <4>3
    <3> QED BY <3>3
  <2>3. \A u \in Threads : Locks(u)' => resizing'
    BY <1>1, <1>13, <1>14 DEF ChainInv
  <2>4. \A u, w \in Threads : Locks(u)' /\ Locks(w)' => u = w
    BY <1>1, <1>13, <1>14 DEF ChainInv
  <2>5. \A u \in Threads : ~At(u, "resize")'
    <3>1. \A u \in Threads : At(u, "resize") => Locks(u)
      BY DEF At, Locks
    <3> QED BY <1>1, <1>13, <1>14, <3>1 DEF ChainInv
  <2> QED BY <1>1, <1>8, <2>1, <2>2, <2>3, <2>4, <2>5 DEF ChainInv
<1>18. ProbeInv'
  <2>1. ASSUME NEW h \in 1..(N + 1), NEW u \in Threads, NEW i \in 0..(Capacity(h)' - 1), Key(h, i)' = u
        PROVE  \E d \in Nat : i = Index(h, u, d)' /\ \A b \in 0..(d - 1) :
                                                        Key(h, Index(h, u, b))' # invalid_thread_id
    <3>1. h \in 1..N /\ Key(h, i) = u /\ i \in 0..(Capacity(h) - 1)
      BY <1>1, <1>8, <1>9, <2>1
    <3>2. PICK d \in Nat : i = Index(h, u, d) /\ \A b \in 0..(d - 1) :
                                                    Key(h, Index(h, u, b)) # invalid_thread_id
      BY <1>1, <1>3, <3>1 DEF ProbeInv
    <3> QED BY <1>9, <3>1, <3>2
  <2>2. ASSUME NEW h \in 1..(N + 1), NEW i \in 0..(Capacity(h)' - 1), NEW j \in 0..(Capacity(h)' - 1),
               Key(h, i)' = Key(h, j)', Key(h, i)' # invalid_thread_id
        PROVE  i = j
    <3>1. h \in 1..N /\ i \in 0..(Capacity(h) - 1) /\ j \in 0..(Capacity(h) - 1)
      BY <1>8, <1>9, <2>2
    <3> QED BY <1>1, <1>3, <1>9, <2>2, <3>1 DEF ProbeInv
  <2> QED BY <1>8, <2>1, <2>2 DEF ProbeInv
<1>19. CallInv'
  <2>1. ASSUME NEW u \in Threads, ~At(u, "idle"), u # t PROVE CallOK(u)'
    <3>1. CallOK(u) /\ call'[u] = call[u] /\ call[u].main \in 1..N
      BY <1>1, <1>3, <1>12, <2>1 DEF CallInv, TypeOK
    <3>2. At(u, "search") => call[u].at \in 1..N
      <4>1. At(u, "search") => call[u].at \in 1..call[u].main
        BY <3>1 DEF CallOK
      <4> QED BY <3>1, <4>1
    <3>3. /\ (At(u, "search") => call'[u].at \in 1..call'[u].main
                                 /\ \A h \in DOMAIN table' : h > call'[u].at => ~HasId(h, u)')
          /\ (At(u, "count") \/ Waits(u) \/ At(u, "push") =>
                call'[u].step = 0 /\ \A h \in DOMAIN table' : ~HasId(h, u)')
          /\ (Carries(u) => \A h \in DOMAIN table' : h >= call'[u].main => ~HasId(h, u)')
      BY <1>3, <1>8, <1>9, <3>1 DEF CallOK
    <3>4. At(u, "search") => \A d \in 0..(call[u].step - 1) :
            Key(call[u].at, Index(call[u].at, u, d))' \notin {u, invalid_thread_id}
      BY <1>9, <3>1, <3>2 DEF CallOK
    <3>5. At(u, "store") => \A d \in 0..(call[u].step - 1) :
            Key(call[u].main, Index(call[u].main, u, d))' # invalid_thread_id
      BY <1>9, <3>1 DEF CallOK
    <3> QED BY <1>14, <2>1, <3>1, <3>3, <3>4, <3>5 DEF CallOK
  <2>2. ASSUME NEW u \in Threads, At(u, "idle"), u # t PROVE CallOK(u)'
    <3>1. call'[u] = call[u] /\ call[u].pc = "idle"
      BY <1>12, <2>2 DEF At
    <3> QED BY <3>1 DEF CallOK, At, Waits, Carries
  <2>3. CallOK(t)'
    <3>1. \A h \in DOMAIN table' : ~HasId(h, t)'
      BY <1>3, <1>8, <1>9, <1>13
    <3> QED BY <1>11, <1>12, <1>13, <3>1 DEF CallOK
  <2> QED BY <2>1, <2>2, <2>3 DEF CallInv
<1>20. HoldInv'
  <2>1. next' = next
    BY <1>1 DEF list
  <2>2. \A u, w \in Threads : \A x, y \in 0..Len(next) :
          Holds(u, x)' /\ Holds(w, y)' => (u = w <=> x = y)
    BY <1>1, <1>15 DEF HoldInv
  <2>3. \A u \in Threads : Carries(u)' => call'[u].mine \in DOMAIN next
    BY <1>1, <1>12, <1>13, <1>14 DEF HoldInv
  <2>4. \A g \in DOMAIN table' : \A j \in 0..(Capacity(g)' - 1) :
          Key(g, j)' # invalid_thread_id => Value(g, j)' \in DOMAIN next
    BY <1>1, <1>3, <1>8, <1>9 DEF HoldInv
  <2> QED BY <2>1, <2>2, <2>3, <2>4 DEF HoldInv
<1>21. LinkInv'
  <2>1. Unpushed' = Unpushed
    BY <1>12, <1>13, <1>14 DEF Unpushed
  <2>2. List' = List /\ UNCHANGED <<next, listTail, producerCount>>
    BY <1>1 DEF List, FollowsLinks, list
  <2>3. \A u \in Threads : \A v \in DOMAIN next : Holds(u, v)' => v \in List \/ At(u, "push")'
    BY <1>1, <1>13, <1>14, <1>15 DEF LinkInv
  <2> QED BY <1>1, <2>1, <2>2, <2>3 DEF LinkInv
<1>22. FullInv'
  <2>1. \A g \in 1..N : Fit(g)' = Fit(g)
    <3>1. ASSUME NEW g \in 1..N, NEW u \in Threads PROVE u \in Fit(g)' <=> u \in Fit(g)
      <4>1. \A m \in 1..g : HasId(m, u)' <=> HasId(m, u)
        BY <1>9
      <4>2. (Carries(u) /\ call[u].main <= g)' <=> (Carries(u) /\ call[u].main <= g)
        BY <1>12, <1>13, <1>14
      <4> QED BY <4>1, <4>2 DEF Fit
    <3>2. \A g : Fit(g) \subseteq Threads /\ Fit(g)' \subseteq Threads
      BY DEF Fit
    <3> QED BY <3>1, <3>2
  <2>2. Fit(N + 1)' = Fit(N)
    <3>1. ASSUME NEW u \in Threads PROVE u \in Fit(N + 1)' <=> u \in Fit(N)
      <4>1. (\E m \in 1..(N + 1) : HasId(m, u)') <=> (\E m \in 1..N : HasId(m, u))
        BY <1>3, <1>9
      <4>2. Carries(u) => call[u].main <= N /\ call[u].main <= N + 1
        <5>1. Carries(u) => call[u].main \in 1..N
          BY <1>1, <1>3 DEF TypeOK, Carries, At
        <5> QED BY <1>3, <5>1
      <4>3. (Carries(u)' /\ call'[u].main <= N + 1) <=> (Carries(u) /\ call[u].main <= N)
        BY <1>12, <1>13, <1>14, <4>2
      <4> QED BY <4>1, <4>3 DEF Fit
    <3>2. \A g : Fit(g) \subseteq Threads /\ Fit(g)' \subseteq Threads
      BY DEF Fit
    <3> QED BY <3>1, <3>2
  <2>3. All' = All /\ All = Fit(N)
    BY <1>3, <1>8, <2>2 DEF All
  <2>4. AllWaiting' = AllWaiting /\ \A m : Waiting(m)' = Waiting(m)
    BY <1>11, <1>12, <1>13, <1>14 DEF AllWaiting, Waiting
  <2>5. Limit(N + 1)' >= Limit(N) /\ Limit(N) \in Nat /\ Limit(N + 1)' \in Nat
    BY <1>5, <1>7, <1>8 DEF Limit
  <2>6. ASSUME NEW h \in 1..(N + 1), NEW m \in Nat
        PROVE  LET x == Cardinality(Fit(h)') + Cardinality(Waiting(m)') IN x <= m \/ x < Limit(h)'
    <3>1. CASE h \in 1..N
      BY <1>1, <1>3, <1>9, <2>1, <2>4, <3>1 DEF FullInv
    <3>2. CASE h = N + 1
      <4>1. Cardinality(Fit(N)) \in Nat /\ Cardinality(Waiting(m)) \in Nat
        BY Finite
      <4>2. LET x == Cardinality(Fit(N)) + Cardinality(Waiting(m)) IN x <= m \/ x < Limit(N)
        BY <1>1, <1>3 DEF FullInv
      <4> QED BY <2>2, <2>4, <2>5, <3>2, <4>1, <4>2
    <3> QED BY <1>9, <3>1, <3>2
  <2>7. \A u \in Threads : Waits(u)' => call'[u].n >= 1
    BY <1>1, <1>11, <1>12, <1>13, <1>14 DEF FullInv
  <2> QED BY <1>1, <1>8, <2>3, <2>4, <2>6, <2>7 DEF FullInv
<1> QED BY <1>16, <1>17, <1>18, <1>19, <1>20, <1>21, <1>22 DEF IInv
-------------------------------------------------------------------------------
(* Every step keeps it.                                                     *)
LEMMA NextIInv == IInv /\ [Next]_vars => IInv'
<1> SUFFICES ASSUME IInv, [Next]_vars PROVE IInv'
  OBVIOUS
<1>1. ASSUME NEW t \in Threads, GetOrAdd(t) PROVE IInv'
  <2>1. CASE Search(t)   BY <2>1, SearchStep
  <2>2. CASE Store(t)    BY <2>2, StoreStep
  <2>3. CASE Count(t)    BY <2>3, CountStep
  <2>4. CASE Grow(t) \/ Locked(t) \/ Unlock(t) \/ Reload(t)
    BY <2>4, WaitSteps
  <2>5. CASE Resize(t)   BY <2>5, ResizeStep
  <2>6. CASE Create(t)   BY <2>6, CreateStep
  <2>7. CASE Push(t)     BY <2>7, PushStep
  <2>8. CASE Fail(t)     BY <2>8, FailStep
  <2>9. CASE Abandon(t)  BY <2>9, AbandonStep
  <2> QED BY <1>1, <2>1, <2>2, <2>3, <2>4, <2>5, <2>6, <2>7, <2>8, <2>9 DEF GetOrAdd
<1>2. ASSUME NEW t \in Threads, Enter(t) PROVE IInv'
  BY <1>2, EnterStep
<1>3. CASE UNCHANGED vars
  <2>1. UNCHANGED <<table, mainHash, hashCount, resizing, next, listTail, producerCount, call, failures>>
    BY <1>3 DEF vars, hash, list
  <2>2. /\ \A t \in Threads : /\ (Waits(t)' <=> Waits(t)) /\ (Carries(t)' <=> Carries(t))
                             /\ (Locks(t)' <=> Locks(t)) /\ \A l : At(t, l)' <=> At(t, l)
    BY <2>1 DEF Waits, Carries, Locks, At
  <2>3. TypeOK' /\ ChainInv' /\ ProbeInv'
    <3>1. TypeOK'
      BY <2>1, <2>2 DEF IInv, TypeOK
    <3>2. ChainInv'
      BY <2>1, <2>2, SameTable DEF IInv, ChainInv
    <3>3. ProbeInv'
      BY <2>1, SameTable DEF IInv, ProbeInv
    <3> QED BY <3>1, <3>2, <3>3
  <2>4. \A t \in Threads : \A v : Holds(t, v)' <=> Holds(t, v)
    BY <2>1, <2>2, SameTable DEF Holds
  <2>5. CallInv'
    <3>1. ASSUME NEW t \in Threads PROVE CallOK(t)'
      <4>1. CallOK(t)
        BY DEF IInv, CallInv
      <4> QED BY <2>1, <2>2, <4>1, SameTable DEF CallOK
    <3> QED BY <3>1 DEF CallInv
  <2>6. HoldInv'
    BY <2>1, <2>2, <2>4, SameTable DEF IInv, HoldInv
  <2>7. LinkInv'
    <3>1. List' = List /\ Unpushed' = Unpushed
      BY <2>1 DEF List, FollowsLinks, Unpushed, At
    <3> QED BY <2>1, <2>4, <3>1 DEF IInv, LinkInv, At
  <2>8. FullInv'
    <3>1. /\ \A h : Fit(h)' = Fit(h) /\ Limit(h)' = Limit(h)
          /\ \A m : Waiting(m)' = Waiting(m)
          /\ AllWaiting' = AllWaiting /\ All' = All
      BY <2>1 DEF Fit, Limit, Waiting, AllWaiting, All, Waits, Carries, HasId, Capacity, Key
    <3> QED BY <2>1, <3>1 DEF IInv, FullInv, Waits
  <2> QED BY <2>3, <2>5, <2>6, <2>7, <2>8 DEF IInv
<1> QED BY <1>1, <1>2, <1>3 DEF Next

(* The inductive invariant holds in every reachable state.                  *)
THEOREM Invariance == Spec => []IInv
BY InitIInv, NextIInv, PTL DEF Spec
-------------------------------------------------------------------------------
(* What an entry of a table is.                                             *)
LEMMA EntryIs ==
  ASSUME IInv, NEW e \in Entries
  PROVE  \E h \in DOMAIN table : \E i \in 0..(Capacity(h) - 1) :
           /\ e = <<h, i>> /\ Of(e).key = Key(h, i) /\ Of(e).value = Value(h, i)
           /\ Key(h, i) \in Threads /\ Holds(Key(h, i), Value(h, i)) /\ Value(h, i) \in DOMAIN next
<1>1. PICK h \in DOMAIN table : e \in {h} \X (0..(Capacity(h) - 1))
  BY DEF Entries
<1>2. PICK i \in 0..(Capacity(h) - 1) : e = <<h, i>>
  BY <1>1
<1>3. Of(e).key = Key(h, i) /\ Of(e).value = Value(h, i) /\ Key(h, i) # invalid_thread_id
  BY <1>2 DEF Entries, Of, Key, Value
<1>4. Key(h, i) \in Threads
  BY <1>3, Shape DEF IInv
<1>5. Holds(Key(h, i), Value(h, i)) /\ Value(h, i) \in DOMAIN next
  BY <1>3 DEF IInv, Holds, HoldInv
<1> QED BY <1>2, <1>3, <1>4, <1>5

(* A thread has one producer whatever tables its id is in, and shares it    *)
(* with no other: implicit_producer lookups that raced with the publication *)
(* of a new table and the lazy copies from the old ones never part a thread *)
(* from its producer (concurrentqueue.h:3394-3508).                         *)
THEOREM OneProducer == Spec => []OneProducerEach
<1>1. IInv => OneProducerEach
  <2> SUFFICES ASSUME IInv, NEW d \in Entries, NEW e \in Entries
               PROVE  /\ (Of(d).key = Of(e).key) <=> (Of(d).value = Of(e).value)
                      /\ d # e /\ d[1] = e[1] => Of(d).key # Of(e).key
    BY DEF OneProducerEach
  <2>1. PICK g \in DOMAIN table : \E i \in 0..(Capacity(g) - 1) :
           /\ d = <<g, i>> /\ Of(d).key = Key(g, i) /\ Of(d).value = Value(g, i)
           /\ Key(g, i) \in Threads /\ Holds(Key(g, i), Value(g, i)) /\ Value(g, i) \in DOMAIN next
    BY EntryIs
  <2>2. PICK i \in 0..(Capacity(g) - 1) :
           /\ d = <<g, i>> /\ Of(d).key = Key(g, i) /\ Of(d).value = Value(g, i)
           /\ Key(g, i) \in Threads /\ Holds(Key(g, i), Value(g, i)) /\ Value(g, i) \in DOMAIN next
    BY <2>1
  <2>3. PICK h \in DOMAIN table : \E j \in 0..(Capacity(h) - 1) :
           /\ e = <<h, j>> /\ Of(e).key = Key(h, j) /\ Of(e).value = Value(h, j)
           /\ Key(h, j) \in Threads /\ Holds(Key(h, j), Value(h, j)) /\ Value(h, j) \in DOMAIN next
    BY EntryIs
  <2>4. PICK j \in 0..(Capacity(h) - 1) :
           /\ e = <<h, j>> /\ Of(e).key = Key(h, j) /\ Of(e).value = Value(h, j)
           /\ Key(h, j) \in Threads /\ Holds(Key(h, j), Value(h, j)) /\ Value(h, j) \in DOMAIN next
    BY <2>3
  <2>5. DOMAIN next \subseteq 0..Len(next)
    <3>1. next \in Seq(Nat)
      BY DEF IInv, TypeOK
    <3> QED BY <3>1
  <2>6. Key(g, i) = Key(h, j) <=> Value(g, i) = Value(h, j)
    BY <2>2, <2>4, <2>5 DEF IInv, HoldInv
  <2>7. ASSUME g = h, Key(g, i) = Key(h, j) PROVE i = j
    BY <2>2, <2>4, <2>7, HashAssumption DEF IInv, ProbeInv, HashAssumption
  <2> QED BY <2>2, <2>4, <2>6, <2>7
<1> QED BY <1>1, Invariance, PTL

(* "Not an infinite loop because at least one slot is free in the hash      *)
(* table" (concurrentqueue.h:3404, 3484): the newest table and all those a  *)
(* slow thread may still be at.                                             *)
THEOREM SlotStaysFree == Spec => []FreeSlot
<1>1. IInv => FreeSlot
  <2> SUFFICES ASSUME IInv, NEW h \in DOMAIN table,
                      \A i \in DOMAIN table[h].entries : table[h].entries[i].key # invalid_thread_id
               PROVE  FALSE
    BY DEF FreeSlot
  <2>1. TypeOK /\ ProbeInv /\ FullInv
    BY DEF IInv
  <2>2. PICK c \in Nat \ {0} : c = Capacity(h)
    BY <2>1, Shape
  <2>3. \A i \in 0..(c - 1) : Key(h, i) \in Threads
    BY <2>1, <2>2, Shape DEF Key
  <2> DEFINE f == [i \in 0..(c - 1) |-> Key(h, i)]
  <2>4. f \in Injection(0..(c - 1), Fit(h))
    <3>1. ASSUME NEW i \in 0..(c - 1) PROVE f[i] \in Fit(h)
      <4>1. h \in 1..h
        BY <2>1 DEF TypeOK
      <4>2. HasId(h, Key(h, i))
        BY <2>2 DEF HasId
      <4> QED BY <2>3, <4>1, <4>2 DEF Fit
    <3>2. ASSUME NEW i \in 0..(c - 1), NEW j \in 0..(c - 1), f[i] = f[j] PROVE i = j
      <4>1. Key(h, i) = Key(h, j) /\ Key(h, i) # invalid_thread_id
        BY <2>3, <3>2, HashAssumption DEF HashAssumption
      <4> QED BY <2>1, <2>2, <4>1 DEF ProbeInv
    <3> QED BY <3>1, <3>2 DEF Injection, IsInjective
  <2> HIDE DEF f
  <2>5. Cardinality(0..(c - 1)) = c
    <3>1. 0 \in Int /\ c - 1 \in Int /\ ~(0 > c - 1) /\ (c - 1) - 0 + 1 = c
      OBVIOUS
    <3> QED BY <3>1, FS_Interval
  <2>6. c <= Cardinality(Fit(h)) /\ Cardinality(Fit(h)) \in Nat
    BY <2>4, <2>5, Finite, FS_Injection
  <2>7. Waiting(0) = {}
    <3>1. ASSUME NEW u \in Threads, Waits(u), call[u].n <= 0 PROVE FALSE
      <4>1. call[u] \in Calls
        BY <2>1, <3>1, InCall DEF Waits
      <4>2. call[u].n \in Nat /\ call[u].n >= 1
        BY <2>1, <3>1, <4>1 DEF Calls, FullInv
      <4> QED BY <3>1, <4>2
    <3> QED BY <3>1 DEF Waiting
  <2>8. Cardinality(Waiting(0)) = 0
    BY <2>7, FS_EmptySet
  <2>9. LET x == Cardinality(Fit(h)) + Cardinality(Waiting(0)) IN x <= 0 \/ x < Limit(h)
    BY <2>1 DEF FullInv
  <2>10. Limit(h) <= c /\ Limit(h) \in Nat
    BY <2>2 DEF Limit
  <2> QED BY <2>2, <2>6, <2>8, <2>9, <2>10
<1> QED BY <1>1, Invariance, PTL

(* Every producer a thread can find is on the list that dequeues walk, and  *)
(* producerCount, by which they take a remainder, is never smaller than the *)
(* list, although producers are counted before they are pushed and the push *)
(* may lose its race (concurrentqueue.h:3305-3345).                         *)
THEOREM ListHasAll == Spec => []OnTheList
<1>1. IInv => OnTheList
  <2> SUFFICES ASSUME IInv PROVE OnTheList
    OBVIOUS
  <2>1. TypeOK /\ CallInv /\ LinkInv
    BY DEF IInv
  <2>2. ASSUME NEW e \in Entries PROVE Of(e).value \in List
    <3>1. PICK h \in DOMAIN table : \E i \in 0..(Capacity(h) - 1) :
             /\ Of(e).key = Key(h, i) /\ Of(e).value = Value(h, i)
             /\ Key(h, i) \in Threads /\ Holds(Key(h, i), Value(h, i)) /\ Value(h, i) \in DOMAIN next
      BY EntryIs
    <3>2. PICK i \in 0..(Capacity(h) - 1) :
             /\ Of(e).key = Key(h, i) /\ Of(e).value = Value(h, i)
             /\ Key(h, i) \in Threads /\ Holds(Key(h, i), Value(h, i)) /\ Value(h, i) \in DOMAIN next
      BY <3>1
    <3>3. HasId(h, Key(h, i))
      BY DEF HasId
    <3>4. ~At(Key(h, i), "push")
      BY <2>1, <3>2, <3>3 DEF CallInv, CallOK
    <3> QED BY <2>1, <3>2, <3>4 DEF LinkInv
  <2>3. next \in Seq(Nat) /\ Len(next) \in Nat /\ DOMAIN next = 1..Len(next)
    <3>1. next \in Seq(Nat)
      BY <2>1 DEF TypeOK
    <3> QED BY <3>1
  <2>4. List \subseteq 1..Len(next)
    BY <2>3 DEF List
  <2>5. Cardinality(List) <= producerCount
    <3>1. IsFiniteSet(1..Len(next)) /\ Cardinality(1..Len(next)) = Len(next)
      <4>1. 1 \in Int /\ Len(next) \in Int
        BY <2>3
      <4>2. /\ IsFiniteSet(1..Len(next))
            /\ Cardinality(1..Len(next)) = IF 1 > Len(next) THEN 0 ELSE Len(next) - 1 + 1
        BY <4>1, FS_Interval
      <4> QED BY <2>3, <4>2
    <3>2. Cardinality(List) <= Len(next)
      BY <2>4, <3>1, FS_Subset
    <3> QED BY <2>1, <3>2 DEF LinkInv
  <2> QED BY <2>2, <2>5 DEF OnTheList
<1> QED BY <1>1, Invariance, PTL

===============================================================================
