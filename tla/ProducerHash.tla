---------------------------- MODULE ProducerHash ----------------------------
(***************************************************************************)
(* How a thread finds its implicit producer in the vendored queue: a chain *)
(* of hash tables keyed by thread id, the newest twice as large as the one *)
(* before, and the list of producers that dequeues walk along.  Thread     *)
(* exit notifications are compiled out                                     *)
(* (MOODYCAMEL_CPP11_THREAD_LOCAL_SUPPORTED is commented out), so a key    *)
(* never leaves a table and no implicit producer is recycled: a thread     *)
(* that ends leaves its producer to the next thread with the same id.      *)
(*                                                                         *)
(* A step is one access to shared memory.  A key that is compared and      *)
(* swapped in is one step with the probe before it and with the store of   *)
(* the value behind it: keys never become empty again, and only the thread *)
(* with that id reads the value.  So is the count of producers with the    *)
(* load of the list's tail, which the compare-and-swap checks anyway.      *)
(***************************************************************************)
EXTENDS Naturals, Sequences, FiniteSets

CONSTANTS
  Threads,                              \* thread ids
  invalid_thread_id,
  hash_thread_id,                       \* [Threads -> Nat]
  INITIAL_IMPLICIT_PRODUCER_HASH_SIZE,
  MaxFailures                           \* bound: allocations that fail

ASSUME HashAssumption ==
  /\ invalid_thread_id \notin Threads /\ IsFiniteSet(Threads)
  /\ hash_thread_id \in [Threads -> Nat] /\ MaxFailures \in Nat
  /\ INITIAL_IMPLICIT_PRODUCER_HASH_SIZE \in Nat \ {0}
  /\ \E k \in 0..INITIAL_IMPLICIT_PRODUCER_HASH_SIZE : INITIAL_IMPLICIT_PRODUCER_HASH_SIZE = 2 ^ k

VARIABLES
  table,                     \* every table allocated: entries, prev
  mainHash,                  \* implicitProducerHash: the newest table
  hashCount,                 \* implicitProducerHashCount
  resizing,                  \* implicitProducerHashResizeInProgress
  next,                      \* next[p]: the producer behind p on the list
  listTail, producerCount,   \* producerListTail, 0 when null
  call,                      \* call[t]: its call of get_or_add_implicit_producer
  failures

hash == <<table, mainHash, hashCount, resizing>>
list == <<next, listTail, producerCount>>
vars == <<hash, list, call, failures>>

NoCall == [pc |-> "idle"]
Free == [key |-> invalid_thread_id, value |-> 0]
NewTable(capacity, prev) ==
  [capacity |-> capacity, prev |-> prev, entries |-> [i \in 0..(capacity - 1) |-> Free]]

Init ==
  /\ table = <<NewTable(INITIAL_IMPLICIT_PRODUCER_HASH_SIZE, 0)>> /\ mainHash = 1
  /\ hashCount = 0 /\ resizing = FALSE
  /\ next = <<>> /\ listTail = 0 /\ producerCount = 0
  /\ call = [t \in Threads |-> NoCall] /\ failures = 0

At(t, l) == call[t].pc = l
Go(t, c) == call' = [call EXCEPT ![t] = c]
With(t, l) == [call[t] EXCEPT !.pc = l]
Return(t) == Go(t, NoCall)
Capacity(h) == table[h].capacity
Slot(t, h) == (hash_thread_id[t] + call[t].step) % Capacity(h)
Probed(t, h) == table[h].entries[Slot(t, h)]

-----------------------------------------------------------------------------

\* main is the table this thread takes for the newest one.
Enter(t) ==
  /\ At(t, "idle")
  /\ Go(t, [pc |-> "search", main |-> mainHash, at |-> mainHash, step |-> 0, n |-> 0, mine |-> 0])
  /\ UNCHANGED <<hash, list, failures>>

\* The thread's id in the tables, newest first; a free slot ends a table.
Search(t) ==
  LET h == call[t].at   e == Probed(t, h)
  IN  /\ At(t, "search")
      /\ IF e.key = t
           THEN IF h = call[t].main THEN Return(t)
                ELSE Go(t, [With(t, "store") EXCEPT !.step = 0, !.at = 0, !.mine = e.value])
         ELSE IF e.key # invalid_thread_id THEN Go(t, [call[t] EXCEPT !.step = @ + 1])
         ELSE IF table[h].prev = 0 THEN Go(t, [With(t, "count") EXCEPT !.step = 0])
         ELSE Go(t, [call[t] EXCEPT !.at = table[h].prev, !.step = 0])
      /\ UNCHANGED <<hash, list, failures>>

\* The id, found in an older table or new, goes into the first free slot.
Store(t) ==
  LET h == call[t].main
  IN  /\ At(t, "store")
      /\ IF Probed(t, h).key = invalid_thread_id
           THEN /\ table' = [table EXCEPT ![h].entries[Slot(t, h)] =
                               [key |-> t, value |-> call[t].mine]]
                /\ Return(t)
           ELSE Go(t, [call[t] EXCEPT !.step = @ + 1]) /\ UNCHANGED table
      /\ UNCHANGED <<mainHash, hashCount, resizing, list, failures>>

Count(t) ==
  /\ At(t, "count") /\ Go(t, [With(t, "grow") EXCEPT !.n = hashCount + 1])
  /\ hashCount' = hashCount + 1
  /\ UNCHANGED <<table, mainHash, resizing, list, failures>>

HalfFull(t, h) == call[t].n >= Capacity(h) \div 2

\* Half full: whoever sets the flag first makes the next table.
Grow(t) ==
  /\ At(t, "grow")
  /\ LET lock == HalfFull(t, call[t].main) /\ ~resizing
     IN  /\ Go(t, With(t, IF lock THEN "locked" ELSE "fit"))
         /\ resizing' = (resizing \/ lock)
  /\ UNCHANGED <<table, mainHash, hashCount, list, failures>>

\* Under the flag the newest table is loaded again; it may be large enough.
Locked_Stale(t) ==
  /\ At(t, "locked") /\ Go(t, With(t, "resize")) /\ UNCHANGED <<hash, list, failures>>
Locked(t) ==
  /\ At(t, "locked")
  /\ Go(t, [With(t, IF HalfFull(t, mainHash) THEN "resize" ELSE "unlock") EXCEPT !.main = mainHash])
  /\ UNCHANGED <<hash, list, failures>>

\* Capacity doubles until half of it exceeds the count.
NewCapacity(c, n) ==
  {k \in (2 * c)..(2 * c + 4 * n) :
     /\ \E e \in 1..(n + 1) : k = c * 2 ^ e
     /\ n < k \div 2 /\ (k > 2 * c => n >= k \div 4)}
Resize(t) ==
  /\ At(t, "resize")
  /\ \E capacity \in NewCapacity(Capacity(call[t].main), call[t].n) :
        table' = Append(table, NewTable(capacity, call[t].main))
  /\ mainHash' = Len(table')
  /\ Go(t, [With(t, "unlock") EXCEPT !.main = mainHash'])
  /\ UNCHANGED <<hashCount, resizing, list, failures>>

Unlock(t) ==
  /\ At(t, "unlock") /\ Go(t, With(t, "fit")) /\ resizing' = FALSE
  /\ UNCHANGED <<table, mainHash, hashCount, list, failures>>

\* Up to three quarters the id still goes into the table at hand, otherwise the
\* thread waits for the next one.
Room_Whole(t) == call[t].n <= Capacity(call[t].main)
Room(t) == call[t].n < Capacity(call[t].main) \div 2 + Capacity(call[t].main) \div 4

Reload(t) ==
  /\ At(t, "fit") /\ ~Room(t)
  /\ Go(t, [With(t, "grow") EXCEPT !.main = mainHash])
  /\ UNCHANGED <<hash, list, failures>>

\* A new producer (no implicit one is ever inactive) is counted and put in front
\* of the list.
Create(t) ==
  /\ At(t, "fit") /\ Room(t)
  /\ next' = Append(next, listTail) /\ producerCount' = producerCount + 1
  /\ Go(t, [With(t, "push") EXCEPT !.mine = Len(next'), !.n = 0])
  /\ UNCHANGED <<hash, listTail, failures>>

\* Allocation failed, of a table or of a producer: the count goes back.
Fail(t) ==
  /\ \/ At(t, "resize")
     \/ At(t, "fit") /\ Room(t)
  /\ failures < MaxFailures /\ failures' = failures + 1
  /\ hashCount' = hashCount - 1
  /\ IF At(t, "resize") THEN Go(t, With(t, "abandon")) ELSE Return(t)
  /\ UNCHANGED <<table, mainHash, resizing, list>>

Abandon_KeepsFlag(t) ==
  At(t, "abandon") /\ Return(t) /\ UNCHANGED <<hash, list, failures>>
Abandon(t) ==
  /\ At(t, "abandon") /\ Return(t) /\ resizing' = FALSE
  /\ UNCHANGED <<table, mainHash, hashCount, list, failures>>

PushIf(t, first) ==
  /\ At(t, "push")
  /\ IF first
       THEN /\ listTail' = call[t].mine /\ UNCHANGED next
            /\ Go(t, With(t, "store"))
       ELSE next' = [next EXCEPT ![call[t].mine] = listTail] /\ UNCHANGED <<listTail, call>>
  /\ UNCHANGED <<hash, producerCount, failures>>
Push_Stores(t) == PushIf(t, TRUE)
Push(t) == PushIf(t, next[call[t].mine] = listTail)

GetOrAdd(t) ==
  \/ Search(t) \/ Store(t) \/ Count(t) \/ Grow(t) \/ Locked(t) \/ Resize(t) \/ Unlock(t)
  \/ Reload(t) \/ Create(t) \/ Push(t) \/ Fail(t) \/ Abandon(t)

Next == \E t \in Threads : Enter(t) \/ GetOrAdd(t)

\* A thread that is in the call goes on; no thread has to call.
Spec == Init /\ [][Next]_vars /\ \A t \in Threads : WF_vars(GetOrAdd(t))

-----------------------------------------------------------------------------
(* Properties *)

Entries == {e \in UNION {{h} \X (0..(Capacity(h) - 1)) : h \in DOMAIN table} :
              table[e[1]].entries[e[2]].key # invalid_thread_id}
Of(e) == table[e[1]].entries[e[2]]

\* A thread has one producer whatever tables its id is in, and shares it with no
\* other thread, although it may have entered an older table while a new one was
\* being published and entries are copied forward lazily.
OneProducerEach ==
  \A d, e \in Entries :
    /\ (Of(d).key = Of(e).key) <=> (Of(d).value = Of(e).value)
    /\ d # e /\ d[1] = e[1] => Of(d).key # Of(e).key

\* "Not an infinite loop because at least one slot is free in the hash table":
\* every table keeps a free slot, those that lag behind the newest one too.
FreeSlot == \A h \in DOMAIN table : \E i \in DOMAIN table[h].entries :
              table[h].entries[i].key = invalid_thread_id

\* The list that dequeues walk along: its tail, and what is behind on the list.
FollowsLinks(S) == listTail \in S \cup {0} /\ \A p \in S : next[p] \in S \cup {0}
List == {p \in DOMAIN next : \A S \in SUBSET DOMAIN next : FollowsLinks(S) => p \in S}

\* Every producer a thread can find is on the list that dequeues walk along, and
\* the count they take the remainder by is never smaller than the list.
OnTheList ==
  /\ {Of(e).value : e \in Entries} \subseteq List
  /\ Cardinality(List) <= producerCount

\* Every call returns, even for a thread that has to wait for another one's table.
CallReturns == \A t \in Threads : ~At(t, "idle") ~> At(t, "idle")

=============================================================================
