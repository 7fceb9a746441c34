------------------------------ MODULE FreeList ------------------------------
(***************************************************************************)
(* The lock-free free list of the vendored queue library, on which the     *)
(* queues of comms_v2 and comms_v2_bundles keep their empty blocks: a      *)
(* stack whose nodes carry a reference count, so that a thread may read    *)
(* the successor of the head without the node being taken and put back     *)
(* meanwhile.  The top bit of the count, Should, says that the node should *)
(* be on the list; whoever drops the last reference then puts it there.    *)
(*                                                                         *)
(* A step is one access to shared memory, and the memory is sequentially   *)
(* consistent.  A thread owns the nodes in held[t]; it adds one of them or *)
(* asks for one, again and again.                                          *)
(***************************************************************************)
EXTENDS Naturals, FiniteSets

CONSTANTS Nodes, Threads, NoNode,
          Should         \* SHOULD_BE_ON_FREELIST, the top bit of the word

ASSUME ListAssumption ==
  /\ IsFiniteSet(Nodes) /\ IsFiniteSet(Threads) /\ NoNode \notin Nodes
  /\ Should \in Nat /\ Should > Cardinality(Threads) + 1

VARIABLES
  top,      \* freeListHead
  word,     \* word[n]: freeListRefs
  next,     \* next[n]: freeListNext
  held,     \* held[t]: the nodes thread t owns
  loc       \* loc[t]: control state and local variables of thread t

vars == <<top, word, next, held, loc>>

\* node is the node being added or looked at, head, then and refs the local
\* variables head, next and refs, get whether the thread is in try_get.
Idle == [pc |-> "idle", node |-> NoNode, head |-> NoNode, then |-> NoNode,
         refs |-> 0, get |-> FALSE]

\* The nodes begin as blocks of the producers, spread over the threads.
Init ==
  /\ top = NoNode
  /\ word = [n \in Nodes |-> 0]
  /\ next = [n \in Nodes |-> NoNode]
  /\ \E owner \in [Nodes -> Threads] :
        held = [t \in Threads |-> {n \in Nodes : owner[n] = t}]
  /\ loc = [t \in Threads |-> Idle]

At(t, l) == loc[t].pc = l
Node(t) == loc[t].node

\* Thread t goes on with the locals to, at l with the locals it has; it returns.
Go(t, to) == loc' = [loc EXCEPT ![t] = to]
With(t, l) == [loc[t] EXCEPT !.pc = l]
Return(t) == Go(t, Idle)

\* fetch_add on the word, which wraps.
FetchAdd(n, d) == word' = [word EXCEPT ![n] = (@ + d) % (2 * Should)]
FetchSub(n, d) == FetchAdd(n, 2 * Should - d)
References(w) == w % Should

\* The loop of try_get, with the head that the last exchange left in head.
Loop(t, h) == IF h = NoNode THEN Return(t)
              ELSE Go(t, [Idle EXCEPT !.pc = "refs", !.get = TRUE, !.node = h])

-----------------------------------------------------------------------------
(* add and add_knowing_refcount_is_zero *)

\* The bit is set; the thread that finds no reference puts the node on the list.
Add(t) ==
  /\ At(t, "idle")
  /\ \E n \in held[t] :
        /\ FetchAdd(n, Should)
        /\ held' = [held EXCEPT ![t] = @ \ {n}]
        /\ IF word[n] = 0 THEN Go(t, [With(t, "head") EXCEPT !.node = n]) ELSE UNCHANGED loc
  /\ UNCHANGED <<top, next>>

LoadHead(t) ==
  /\ At(t, "head") /\ Go(t, [With(t, "link") EXCEPT !.head = top])
  /\ UNCHANGED <<top, word, next, held>>

Link(t) ==
  /\ At(t, "link") /\ Go(t, With(t, "count"))
  /\ next' = [next EXCEPT ![Node(t)] = loc[t].head]
  /\ UNCHANGED <<top, word, held>>

\* The reference of the list itself.
SetCount(t) ==
  /\ At(t, "count") /\ Go(t, With(t, "push"))
  /\ word' = [word EXCEPT ![Node(t)] = 1]
  /\ UNCHANGED <<top, next, held>>

PushDone(t) == IF loc[t].get THEN Loop(t, loc[t].then) ELSE Return(t)

Push(t) ==
  /\ At(t, "push")
  /\ IF top = loc[t].head
       THEN top' = Node(t) /\ PushDone(t)
       ELSE Go(t, [With(t, "repush") EXCEPT !.head = top]) /\ UNCHANGED top
  /\ UNCHANGED <<word, next, held>>

\* The head moved: the reference of the list is given back and the bit set
\* again.  Whoever drops the last reference tries again.
Repush(t) ==
  /\ At(t, "repush")
  /\ FetchAdd(Node(t), Should - 1)
  /\ IF word[Node(t)] = 1 THEN Go(t, With(t, "link")) ELSE PushDone(t)
  /\ UNCHANGED <<top, next, held>>

-----------------------------------------------------------------------------
(* try_get *)

LoadTop(t) ==
  /\ At(t, "idle") \/ At(t, "load")
  /\ Loop(t, top)
  /\ UNCHANGED <<top, word, next, held>>

\* A node without reference is not on the list any more.
LoadRefs_Unchecked(t) ==
  /\ At(t, "refs") /\ Go(t, [With(t, "ref") EXCEPT !.refs = word[Node(t)]])
  /\ UNCHANGED <<top, word, next, held>>

LoadRefs(t) ==
  /\ At(t, "refs")
  /\ LET w == word[Node(t)]
     IN  IF References(w) = 0 THEN Go(t, With(t, "load")) ELSE Go(t, [With(t, "ref") EXCEPT !.refs = w])
  /\ UNCHANGED <<top, word, next, held>>

AddRef(t) ==
  /\ At(t, "ref")
  /\ IF word[Node(t)] = loc[t].refs
       THEN FetchAdd(Node(t), 1) /\ Go(t, [With(t, "next") EXCEPT !.refs = 0])
       ELSE UNCHANGED word /\ Go(t, [With(t, "load") EXCEPT !.refs = 0])
  /\ UNCHANGED <<top, next, held>>

LoadNext(t) ==
  /\ At(t, "next") /\ Go(t, [With(t, "pop") EXCEPT !.then = next[Node(t)]])
  /\ UNCHANGED <<top, word, next, held>>

Pop(t) ==
  /\ At(t, "pop")
  /\ IF top = Node(t)
       THEN top' = loc[t].then /\ Go(t, With(t, "take"))
       ELSE UNCHANGED top /\ Go(t, [With(t, "drop") EXCEPT !.then = top])
  /\ UNCHANGED <<word, next, held>>

\* The references of the thread and of the list; the node is the caller's.
Take(t, given) ==
  /\ At(t, "take") /\ Return(t)
  /\ FetchSub(Node(t), given)
  /\ held' = [held EXCEPT ![t] = @ \cup {Node(t)}]
  /\ UNCHANGED <<top, next>>

TakeNode_KeepsOne(t) == Take(t, 1)
TakeNode(t) == Take(t, 2)

\* The head changed.  The thread that drops the last reference of a node that
\* should be on the list puts it there, then goes on with the new head.
Drop(t, lastOne) ==
  /\ At(t, "drop")
  /\ FetchSub(Node(t), 1)
  /\ IF lastOne THEN Go(t, With(t, "head")) ELSE Loop(t, loc[t].then)
  /\ UNCHANGED <<top, next, held>>

DropRef_Forgets(t) == Drop(t, FALSE)
DropRef(t) == Drop(t, word[Node(t)] = Should + 1)

Next == \E t \in Threads :
  \/ Add(t) \/ LoadHead(t) \/ Link(t) \/ SetCount(t) \/ Push(t) \/ Repush(t)
  \/ LoadTop(t) \/ LoadRefs(t) \/ AddRef(t) \/ LoadNext(t) \/ Pop(t) \/ TakeNode(t)
  \/ DropRef(t)

\* Some thread keeps running; which one is the scheduler's choice.
Spec == Init /\ [][Next]_vars /\ WF_vars(Next)

-----------------------------------------------------------------------------
(* Properties *)

\* The nodes reached from n: those in every set that follows the links from n.
FollowsLinks(S) == \A m \in S \ {NoNode} : next[m] \in S
Chain(n) == {m \in Nodes : \A S \in SUBSET (Nodes \cup {NoNode}) :
                             n \in S /\ FollowsLinks(S) => m \in S}

\* A node that a thread owns is in no other thread's hands and cannot be
\* reached from the head: try_get never returns a block twice, although the
\* thread that pops it may have read its successor long ago (ABA).
OnlyOnce ==
  /\ \A s, t \in Threads : s # t => held[s] \cap held[t] = {}
  /\ \A t \in Threads : held[t] \cap Chain(top) = {}
  /\ \A t \in Threads : At(t, "take") => word[Node(t)] < Should

\* When no call is running, every node is owned by a thread or on the list: the
\* failed exchanges and the handing over of the push lose no block.
NothingLost ==
  (\A t \in Threads : At(t, "idle")) =>
    Nodes = Chain(top) \cup UNION {held[t] : t \in Threads}

\* The list is lock-free: whatever the scheduler does, calls keep returning, so
\* that threads do not drive each other round their retry loops for ever.
LockFree == []<><<\E t \in Threads : At(t, "idle")' /\ (At(t, "idle") => held'[t] # held[t])>>_vars

=============================================================================
