-------------------------- MODULE ConcurrentQueue --------------------------
(***************************************************************************)
(* The multi-producer queue of the vendored library, as comms_v2 and       *)
(* comms_v2_bundles use it: only the try_ calls, so nothing is allocated   *)
(* after construction.  A queue is a set of producers, each a FIFO of its  *)
(* own kept in blocks: a thread without a token gets an implicit producer, *)
(* which gives emptied blocks back to the pool and finds the block of an   *)
(* index in a circular index of keyed entries; a writer's ProducerToken is *)
(* an explicit producer, which keeps its blocks in a ring.                 *)
(*                                                                         *)
(* A step is one access to memory that threads share, but for the three    *)
(* loads that begin a dequeue, which only decide how much to ask for, for  *)
(* stores to memory that nobody can reach yet, and for the entries that    *)
(* GiveUp and ImplicitUndo clear before they put the blocks back: no call  *)
(* looks for the numbers of these any more.  Indices are counted           *)
(* without the wrap-around at 2^64.  The free list is a set; FreeList      *)
(* models how it works.  Producers that are not looked at only take blocks *)
(* from the pool and give them back (Borrow, Restore).                     *)
(***************************************************************************)
EXTENDS Integers, Sequences, FiniteSets, SequencesExt, FiniteSetsExt

CONSTANTS
  Producers,                 \* the producers looked at, of either kind
  Consumers,                 \* calls of the dequeue functions
  Blocks, NoBlock,           \* the initial block pool
  BLOCK_SIZE,
  EXPLICIT_INITIAL_INDEX_SIZE, IMPLICIT_INITIAL_INDEX_SIZE,
  Sizes,                     \* bound: the counts that calls ask for
  MaxElements,               \* bound: elements enqueued by all producers
  MaxOver                    \* bound: overcommit at which a dequeue begins

ASSUME QueueAssumption ==
  /\ NoBlock \notin Blocks /\ IsFiniteSet(Blocks) /\ IsFiniteSet(Consumers)
  /\ {BLOCK_SIZE, EXPLICIT_INITIAL_INDEX_SIZE, IMPLICIT_INITIAL_INDEX_SIZE,
      MaxElements, MaxOver} \cup Sizes \subseteq Nat \ {0}

VARIABLES
  q,        \* q[p]: a producer: its counters, block index and ring of blocks
  entry,    \* entry[p][s]: slot s of its block index: block number and block
  blk,      \* blk[b]: the cells of a block and how many were dequeued
  fresh,    \* blocks of the initial pool never taken
  free,     \* the free list
  away,     \* blocks that other producers hold
  plan,     \* plan[p]: the enqueue call of p
  take      \* take[c]: the dequeue call of c

vars == <<q, entry, blk, fresh, free, away, plan, take>>
pool == <<fresh, free, away>>

Least(a, b) == IF a < b THEN a ELSE b
BlockNo(i) == i \div BLOCK_SIZE
Hole == <<>>     \* a cell without element

\* The constructor of an explicit producer makes its index as large as the pool.
CeilPow2(n) == CHOOSE k \in 1..(2 * n) : k >= n /\ k < 2 * n /\ \E e \in 0..n : k = 2 ^ e

\* There is a power of two from n to below 2 * n for every n > 0, the pool's size
\* among them; the pool has a block.
ASSUME PowerOfTwo ==
  \E k \in 1 .. 2 * Cardinality(Blocks) :
    /\ k >= Cardinality(Blocks) /\ k < 2 * Cardinality(Blocks)
    /\ \E e \in 0 .. Cardinality(Blocks) : k = 2 ^ e

ExplicitIndexSize ==
  LET n == CeilPow2(Cardinality(Blocks))
  IN  IF n > EXPLICIT_INITIAL_INDEX_SIZE THEN n ELSE EXPLICIT_INITIAL_INDEX_SIZE
Size(isExplicit) == IF isExplicit THEN ExplicitIndexSize ELSE IMPLICIT_INITIAL_INDEX_SIZE
IndexSize(p) == Size(q[p].isExplicit)
Slot(p, s) == s % IndexSize(p)

NoCall == [pc |-> "idle"]

\* last is the published slot (tail of the implicit index, front of the
\* explicit one), front and used the producer's own pr_blockIndexFront and
\* pr_blockIndexSlotsUsed, ring its blocks in the order of next, the tail block
\* last; of an implicit producer the tail block only.  undone, which is not in the
\* code, says that an enqueue of an explicit producer once failed halfway.
Init ==
  /\ \E kind \in [Producers -> BOOLEAN] :
       /\ q = [p \in Producers |->
                [isExplicit |-> kind[p], tail |-> 0, head |-> 0, opt |-> 0, over |-> 0,
                 last |-> Size(kind[p]) - 1, front |-> 0, used |-> 0, ring |-> <<>>,
                 undone |-> FALSE]]
       /\ entry = [p \in Producers |->
                    [s \in 0..(Size(kind[p]) - 1) |-> [key |-> -1, block |-> NoBlock]]]
  /\ blk = [b \in Blocks |-> [cell |-> [o \in 0..(BLOCK_SIZE - 1) |-> Hole], done |-> 0]]
  /\ fresh = Blocks /\ free = {} /\ away = {}
  /\ plan = [p \in Producers |-> NoCall]
  /\ take = [c \in Consumers |-> NoCall]

-----------------------------------------------------------------------------
(* Enqueueing *)

At(p, l) == plan[p].pc = l
Plan(p, l, new) == plan' = [plan EXCEPT ![p] = [@ EXCEPT !.pc = l, !.new = new]]
Return(p) == plan' = [plan EXCEPT ![p] = NoCall]

\* How many blocks the n elements need beyond the tail block.
Begin(p, n) ==
  /\ At(p, "idle") /\ MapThenSumSet(LAMBDA r : q[r].tail, Producers) + n <= MaxElements
  /\ plan' = [plan EXCEPT ![p] =
       [pc |-> "grow", n |-> n, new |-> <<>>,
        need |-> BlockNo(q[p].tail + n - 1) - BlockNo(q[p].tail - 1),
        start |-> q[p].ring, front |-> q[p].front, used |-> q[p].used]]
  /\ UNCHANGED <<q, entry, blk, pool, take>>

Growing(p, l) == At(p, l) /\ Len(plan[p].new) < plan[p].need
NewKey(p) == BlockNo(q[p].tail - 1) + Len(plan[p].new) + 1

\* requisition_block: the initial pool first, then the free list.
Available == IF fresh # {} THEN fresh ELSE free
Requisition(b) == b \in Available /\ fresh' = fresh \ {b} /\ free' = free \ {b} /\ away' = away
AddToFreeList(bs) == free' = free \cup bs /\ UNCHANGED <<fresh, away>>

\* Other producers of the queue take blocks and give them back.
Borrow == /\ \E b \in Available :
                fresh' = fresh \ {b} /\ free' = free \ {b} /\ away' = away \cup {b}
          /\ UNCHANGED <<q, entry, blk, plan, take>>
Restore == /\ \E b \in away :
                 free' = free \cup {b} /\ away' = away \ {b} /\ UNCHANGED fresh
           /\ UNCHANGED <<q, entry, blk, plan, take>>

\* insert_block_index_entry: the next entry must be unused.  (A reader that sees
\* the key before the slot is published reads as before or as after.)
InsertKey_Overwrites(p) ==
  LET s == Slot(p, q[p].last + 1)
  IN  /\ Growing(p, "grow") /\ Plan(p, "block", plan[p].new)
      /\ entry' = [entry EXCEPT ![p][s].key = NewKey(p)]
      /\ q' = [q EXCEPT ![p].last = s]
      /\ UNCHANGED <<blk, pool, take>>
InsertKey(p) ==
  entry[p][Slot(p, q[p].last + 1)].block = NoBlock /\ InsertKey_Overwrites(p)

\* The new block, emptied, goes into the entry.
InstallBlock(p) ==
  /\ At(p, "block")
  /\ \E b \in Available :
        /\ Requisition(b)
        /\ blk' = [blk EXCEPT ![b].done = 0]
        /\ entry' = [entry EXCEPT ![p][q[p].last].block = b]
        /\ Plan(p, "grow", Append(plan[p].new, b))
  /\ UNCHANGED <<q, take>>

\* No entry or no block: the entries are cleared, the tail of the index goes
\* back over them, the blocks go to the free list.
ImplicitUndo(p) ==
  LET new == plan[p].new
      rewound == Len(new) + (IF At(p, "block") THEN 1 ELSE 0)
  IN  /\ \/ Growing(p, "grow") /\ entry[p][Slot(p, q[p].last + 1)].block # NoBlock
         \/ At(p, "block") /\ Available = {}
      /\ q' = [q EXCEPT ![p].last = Slot(p, @ - rewound)]
      /\ entry' = [entry EXCEPT ![p] = [s \in DOMAIN @ |->
                     IF @[s].block \in ToSet(new) THEN [@[s] EXCEPT !.block = NoBlock] ELSE @[s]]]
      /\ AddToFreeList(ToSet(new))
      /\ Return(p)
      /\ UNCHANGED <<blk, take>>

\* enqueue_bulk of an explicit producer: a block of the ring and its entry.
Enter(p, l, b, ring, used) ==
  /\ entry' = [entry EXCEPT ![p][q[p].front] = [key |-> NewKey(p), block |-> b]]
  /\ q' = [q EXCEPT ![p].front = Slot(p, @ + 1), ![p].ring = ring, ![p].used = used]
  /\ Plan(p, l, Append(plan[p].new, b))

\* The next block of the ring was dequeued completely: it is used again.
CanReuse(p) ==
  LET r == q[p].ring
  IN  r # <<>> /\ blk[r[1]].done = BLOCK_SIZE /\ r[1] \notin ToSet(plan[p].new)
ReuseAhead(p) ==
  /\ Growing(p, "grow") /\ CanReuse(p)
  /\ Enter(p, "grow", q[p].ring[1], Append(Tail(q[p].ring), q[p].ring[1]), q[p].used)
  /\ UNCHANGED <<blk, pool, take>>

\* From then on blocks come from the pool only.
Injecting(p) == Growing(p, "inject") \/ (Growing(p, "grow") /\ ~CanReuse(p))

\* A block of the pool goes behind the tail block, marked empty in case the
\* call fails later.
InjectBlock(p) ==
  /\ Injecting(p) /\ q[p].used # IndexSize(p)
  /\ \E b \in Available :
        /\ Requisition(b)
        /\ blk' = [blk EXCEPT ![b].done = BLOCK_SIZE]
        /\ Enter(p, "inject", b, Append(q[p].ring, b), q[p].used + 1)
  /\ UNCHANGED take

\* No room in the index or no block: front and used go back, the blocks stay
\* in the ring ahead of the tail block.
Rotate(r, k) == SubSeq(r, k + 1, Len(r)) \o SubSeq(r, 1, k)
ExplicitUndo(p) ==
  LET r == q[p].ring   new == plan[p].new
  IN  /\ Injecting(p) /\ (q[p].used = IndexSize(p) \/ Available = {})
      /\ q' = [q EXCEPT
           ![p].front = plan[p].front, ![p].used = plan[p].used,
           ![p].undone = @ \/ new # <<>>,
           ![p].ring = IF plan[p].start = <<>>
                         THEN (IF r = <<>> THEN r ELSE Rotate(r, 1))
                         ELSE Rotate(r, Len(r) - Len(new))]
      /\ Return(p)
      /\ UNCHANGED <<entry, blk, pool, take>>

\* All blocks are there: they count as full, and the index shows them.
ShowBlocks(p) ==
  /\ At(p, "grow") \/ At(p, "inject")
  /\ Len(plan[p].new) = plan[p].need
  /\ IF q[p].isExplicit /\ plan[p].new # <<>>
       THEN /\ blk' = [b \in Blocks |-> IF b \in ToSet(plan[p].new)
                                         THEN [blk[b] EXCEPT !.done = 0] ELSE blk[b]]
            /\ q' = [q EXCEPT ![p].last = Slot(p, q[p].front - 1)]
       ELSE UNCHANGED <<blk, q>>
  /\ Plan(p, "fill", plan[p].new)
  /\ UNCHANGED <<entry, pool, take>>

\* The elements, and then the tail that shows them.
BlockOf(p, i) ==
  LET k == BlockNo(i) - BlockNo(q[p].tail - 1)
  IN  IF k = 0 THEN Last(plan[p].start) ELSE plan[p].new[k]
Fill(p) ==
  LET ids == q[p].tail .. (q[p].tail + plan[p].n - 1)
      at(b, o) == {i \in ids : BlockOf(p, i) = b /\ i % BLOCK_SIZE = o}
  IN  /\ At(p, "fill") /\ Return(p)
      /\ blk' = [b \in Blocks |-> [blk[b] EXCEPT !.cell = [o \in DOMAIN @ |->
                   IF at(b, o) = {} THEN @[o] ELSE <<p, CHOOSE i \in at(b, o) : TRUE>>]]]
      /\ q' = [q EXCEPT ![p].tail = @ + plan[p].n,
                        ![p].ring = IF q[p].isExplicit \/ plan[p].new = <<>> THEN @
                                    ELSE <<Last(plan[p].new)>>]
      /\ UNCHANGED <<entry, pool, take>>

ImplicitEnqueue(p) ==
  \/ \E n \in Sizes : Begin(p, n)
  \/ InsertKey(p) \/ InstallBlock(p) \/ ImplicitUndo(p) \/ ShowBlocks(p) \/ Fill(p)
ExplicitEnqueue(p) ==
  \/ \E n \in Sizes : Begin(p, n)
  \/ ReuseAhead(p) \/ InjectBlock(p) \/ ExplicitUndo(p) \/ ShowBlocks(p) \/ Fill(p)

-----------------------------------------------------------------------------
(* Dequeueing *)

In(c, l) == take[c].pc = l
Go(c, call) == take' = [take EXCEPT ![c] = call]
Prod(c) == take[c].prod

\* tail, overcommit and the optimistic count promise up to max elements.
Look(c, p, max) ==
  LET n == Least(max, q[p].tail - (q[p].opt - q[p].over))
  IN  /\ In(c, "idle") /\ q[p].over <= MaxOver /\ n > 0
      /\ Go(c, [pc |-> "claim", prod |-> p, want |-> n, over |-> q[p].over])
      /\ UNCHANGED <<q, entry, blk, pool, plan>>

Claim(c) ==
  /\ In(c, "claim")
  /\ Go(c, [pc |-> "check", prod |-> Prod(c), want |-> take[c].want, over |-> take[c].over,
            mine |-> q[Prod(c)].opt])
  /\ q' = [q EXCEPT ![Prod(c)].opt = @ + take[c].want]
  /\ UNCHANGED <<entry, blk, pool, plan>>

\* The tail loaded again says how many of them there really are.
Got_Trusts(c) == take[c].want
Got(c) == LET left == q[Prod(c)].tail - (take[c].mine - take[c].over)
          IN  IF left <= 0 THEN 0 ELSE Least(left, take[c].want)
Check(c) ==
  /\ In(c, "check")
  /\ Go(c, [pc |-> IF Got(c) < take[c].want THEN "back" ELSE "head", prod |-> Prod(c),
            excess |-> take[c].want - Got(c), got |-> Got(c)])
  /\ UNCHANGED <<q, entry, blk, pool, plan>>

Back(c, n) ==
  /\ In(c, "back")
  /\ q' = [q EXCEPT ![Prod(c)].over = @ + n]
  /\ Go(c, IF take[c].got = 0 THEN NoCall ELSE [take[c] EXCEPT !.pc = "head", !.excess = 0])
  /\ UNCHANGED <<entry, blk, pool, plan>>
GiveBack_OnlyWhenEmpty(c) == Back(c, IF take[c].got = 0 THEN take[c].excess ELSE 0)
GiveBack(c) == Back(c, take[c].excess)

Advance(c) ==
  /\ In(c, "head")
  /\ Go(c, [pc |-> "last", prod |-> Prod(c), got |-> take[c].got, index |-> q[Prod(c)].head])
  /\ q' = [q EXCEPT ![Prod(c)].head = @ + take[c].got]
  /\ UNCHANGED <<entry, blk, pool, plan>>

\* The published slot and its key give the slot of the index.
LoadLast(c) ==
  /\ In(c, "last")
  /\ Go(c, [pc |-> "key", prod |-> Prod(c), got |-> take[c].got, index |-> take[c].index,
            slot |-> q[Prod(c)].last])
  /\ UNCHANGED <<q, entry, blk, pool, plan>>

SlotOf(p, i, s) == Slot(p, s + BlockNo(i) - entry[p][s].key)
LoadKey(c) ==
  /\ In(c, "key")
  /\ Go(c, [take[c] EXCEPT !.pc = "copy", !.slot = SlotOf(Prod(c), take[c].index, @)])
  /\ UNCHANGED <<q, entry, blk, pool, plan>>

\* The block in the slot, and the indices of the call that lie in it.
BlockAt(c) == entry[Prod(c)][take[c].slot].block
Part(c) == LET i == take[c].index
           IN  i .. (Least(i + take[c].got, (BlockNo(i) + 1) * BLOCK_SIZE) - 1)

CopyOut(c) ==
  LET cells == {i % BLOCK_SIZE : i \in Part(c)}
  IN  /\ In(c, "copy")
      /\ Go(c, [pc |-> "empty", prod |-> Prod(c), got |-> take[c].got, index |-> take[c].index,
                slot |-> take[c].slot, block |-> BlockAt(c)])
      /\ blk' = [blk EXCEPT ![BlockAt(c)].cell =
                   [o \in DOMAIN @ |-> IF o \in cells THEN Hole ELSE @[o]]]
      /\ UNCHANGED <<q, entry, pool, plan>>

\* The next block of the call, or its end.
NextPart(c) ==
  LET n == Cardinality(Part(c))
  IN  IF take[c].got = n THEN Go(c, NoCall)
      ELSE Go(c, [pc |-> "copy", prod |-> Prod(c), got |-> take[c].got - n,
                  index |-> take[c].index + n, slot |-> Slot(Prod(c), take[c].slot + 1)])

\* set_many_empty: whoever empties a block of an implicit producer takes it
\* out of the index and then gives it to the free list.
SetEmpty(c) ==
  LET b == take[c].block   n == Cardinality(Part(c))
  IN  /\ In(c, "empty")
      /\ blk' = [blk EXCEPT ![b].done = @ + n]
      /\ IF ~q[Prod(c)].isExplicit /\ blk[b].done + n = BLOCK_SIZE
           THEN Go(c, [take[c] EXCEPT !.pc = "release"])
           ELSE NextPart(c)
      /\ UNCHANGED <<q, entry, pool, plan>>

GiveUp(c, b) ==
  /\ In(c, "release") /\ NextPart(c)
  /\ entry' = [entry EXCEPT ![Prod(c)][take[c].slot].block = b]
  /\ AddToFreeList({take[c].block})
  /\ UNCHANGED <<q, blk, plan>>
Release_Keeps(c) == GiveUp(c, take[c].block)
Release(c) == GiveUp(c, NoBlock)

TakeFrom(c, P) ==
  \/ \E p \in P, max \in Sizes : Look(c, p, max)
  \/ /\ ~In(c, "idle") /\ Prod(c) \in P
     /\ \/ Claim(c) \/ Check(c) \/ GiveBack(c) \/ Advance(c) \/ LoadLast(c)
        \/ LoadKey(c) \/ CopyOut(c) \/ SetEmpty(c) \/ Release(c)

ImplicitDequeue(c) == TakeFrom(c, {p \in Producers : ~q[p].isExplicit})
ExplicitDequeue(c) == TakeFrom(c, {p \in Producers : q[p].isExplicit})

-----------------------------------------------------------------------------
(* The destructors, which run when no call does: the cells whose elements they *)
(* destroy, and the blocks they give back.                                     *)

\* From the oldest entry on, the block that was dequeued in part, if any.
HalfDequeued(p) ==
  LET at(n) == entry[p][Slot(p, q[p].front - q[p].used + n)]
      passed(n) == (at(n).key + 1) * BLOCK_SIZE < q[p].head
  IN  at(CHOOSE n \in 0..IndexSize(p) : ~passed(n) /\ \A m \in 0..(n - 1) : passed(m)).block

\* Every block of the ring that is not empty, to the tail.
ExplicitDestroyed(p) ==
  LET ring == q[p].ring   head == q[p].head % BLOCK_SIZE   tail == q[p].tail % BLOCK_SIZE
      from(b) == IF head # 0 /\ b = HalfDequeued(p) THEN head ELSE 0
      to(b) == IF b = Last(ring) /\ tail # 0 THEN tail ELSE BLOCK_SIZE
  IN  UNION {{<<b, o>> : o \in from(b)..(to(b) - 1)} :
               b \in {b \in ToSet(ring) : blk[b].done # BLOCK_SIZE}}

\* Every index from head to tail; a block when the next one begins, and the tail
\* block at the end.
ImplicitBlock(p, i) == entry[p][SlotOf(p, i, q[p].last)].block
ImplicitDestroyed(p) ==
  {<<ImplicitBlock(p, i), i % BLOCK_SIZE>> : i \in q[p].head..(q[p].tail - 1)}
ImplicitFreed(p) ==
  LET begin == BlockNo(q[p].head)
      passed == IF q[p].head = q[p].tail THEN 0 ELSE BlockNo(q[p].tail - 1) - begin
  IN  [k \in 1..passed |-> ImplicitBlock(p, (begin + k) * BLOCK_SIZE - 1)]
      \o (IF q[p].head # q[p].tail \/ q[p].tail % BLOCK_SIZE # 0 THEN q[p].ring ELSE <<>>)

Next ==
  \/ \E p \in Producers : IF q[p].isExplicit THEN ExplicitEnqueue(p) ELSE ImplicitEnqueue(p)
  \/ \E c \in Consumers : ImplicitDequeue(c) \/ ExplicitDequeue(c)
  \/ Borrow \/ Restore

Spec == Init /\ [][Next]_vars

-----------------------------------------------------------------------------
(* Properties *)

\* Nobody claims an index that is not enqueued: the optimistic count and the
\* overcommit, each read and raised at a different time by every consumer, never
\* let more calls through to the head than there are elements.
NeverOverdrawn == \A p \in Producers : q[p].head <= q[p].tail

\* A consumer about to move elements out finds, in the block the index led it
\* to, the elements of the very indices it claimed: no entry was overwritten, no
\* block emptied, reused or filled by somebody else meanwhile.
RightElement ==
  \A c \in Consumers : In(c, "copy") =>
    /\ BlockAt(c) # NoBlock
    /\ \A i \in Part(c) : blk[BlockAt(c)].cell[i % BLOCK_SIZE] = <<Prod(c), i>>

\* A block is in the index or ring of one producer, on the free list or unused,
\* and its count never passes the block size, whatever calls failed.
Attached(p) == IF q[p].isExplicit THEN ToSet(q[p].ring)
               ELSE {entry[p][s].block : s \in DOMAIN entry[p]} \ {NoBlock}
OneOwner ==
  /\ fresh \cap free = {} /\ (fresh \cup free) \cap away = {}
  /\ \A p \in Producers : Attached(p) \cap (fresh \cup free \cup away) = {}
  /\ \A p, r \in Producers : p # r => Attached(p) \cap Attached(r) = {}
  /\ \A b \in Blocks : blk[b].done <= BLOCK_SIZE

\* When no call is running, every block has an owner, the two counts differ by the
\* elements taken, and a destructor destroys the elements nobody took, each block
\* given back once: calls that lost a race and enqueues that failed halfway leave
\* no trace.  But one: what an explicit producer counts as used does not include
\* the blocks that a failed enqueue left in its ring.
Left(p) == {e \in Blocks \X (0..(BLOCK_SIZE - 1)) :
              LET c == blk[e[1]].cell[e[2]] IN c # Hole /\ c[1] = p}
Settles ==
  (\A p \in Producers : At(p, "idle")) /\ (\A c \in Consumers : In(c, "idle")) =>
    /\ Blocks = fresh \cup free \cup away \cup UNION {Attached(p) : p \in Producers}
    /\ \A p \in Producers : q[p].opt - q[p].over = q[p].head
    /\ \A p \in Producers :
         IF q[p].isExplicit
           THEN q[p].undone \/ ExplicitDestroyed(p) = Left(p)
           ELSE /\ ImplicitDestroyed(p) = Left(p)
                /\ IsInjective(ImplicitFreed(p)) /\ ToSet(ImplicitFreed(p)) = Attached(p)

=============================================================================
