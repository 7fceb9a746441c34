---------------------------- MODULE FreeListProofs ----------------------------
(***************************************************************************)
(* The free list hands out no block twice and loses none, for any number of*)
(* nodes and threads.                                                      *)
(***************************************************************************)
EXTENDS FreeList, FiniteSetTheorems, TLAPS

MaybeNode == Nodes \cup {NoNode}
Word      == 0 .. 2 * Should - 1
Referring == {"next", "pop", "take", "drop"}
Waiting   == {"head", "link", "count"}
Counted   == {"push", "repush", "take"}
Locals    == [pc : {"idle", "load", "refs", "ref"} \cup Referring \cup Waiting \cup Counted,
              node : MaybeNode, head : MaybeNode, then : MaybeNode,
              refs : Word, get : BOOLEAN]

TypeOK ==
  /\ top  \in MaybeNode
  /\ word \in [Nodes -> Word]
  /\ next \in [Nodes -> MaybeNode]
  /\ held \in [Threads -> SUBSET Nodes]
  /\ loc  \in [Threads -> Locals]
  /\ \A t \in Threads : loc[t].pc # "idle" => Node(t) \in Nodes

(* The nodes reached from n when f is the function of the links.            *)
Follows(f, S) == \A m \in S \ {NoNode} : f[m] \in S
ChainOf(f, n) == {m \in Nodes : \A S \in SUBSET MaybeNode : n \in S /\ Follows(f, S) => m \in S}

(* Where a node is: on the list, with the thread that owns it, or with one  *)
(* that is about to put it on the list (Waiting, or Counted once the count  *)
(* is set) or has just taken it off (Counted too).                          *)
Listed       == ChainOf(next, top)
Owned(n)     == \E t \in Threads : n \in held[t]
By(n, where) == \E t \in Threads : Node(t) = n /\ loc[t].pc \in where
Works(t)     == loc[t].pc \in Waiting \cup Counted
Refs(n)      == {t \in Threads : Node(t) = n /\ loc[t].pc \in Referring}

(* It is in one of these places at most ...                                 *)
OnePlace ==
  /\ \A s, t \in Threads : s # t => held[s] \cap held[t] = {}
  /\ \A s, t \in Threads : Works(s) /\ Works(t) /\ s # t => Node(s) # Node(t)
  /\ \A t \in Threads : Works(t) => ~Owned(Node(t)) /\ Node(t) \notin Listed
  /\ \A n \in Nodes : Owned(n) => n \notin Listed

(* ... and its word tells in which: it counts the threads that refer to the *)
(* node and the list.  A node in none of them has the bit set, and a thread *)
(* that refers to it will put it on the list.                               *)
CountOf(n) ==
  /\ Owned(n) => word[n] = Cardinality(Refs(n))
  /\ By(n, Waiting) => word[n] = Should /\ Refs(n) = {}
  /\ By(n, Counted) \/ n \in Listed => word[n] = 1 + Cardinality(Refs(n))
  /\ ~(Owned(n) \/ By(n, Waiting) \/ By(n, Counted) \/ n \in Listed) =>
       word[n] = Should + Cardinality(Refs(n)) /\ Refs(n) # {}

Counts == \A n \in Nodes : CountOf(n)

(* The list has no cycle, and what a thread read of a link still holds when *)
(* it exchanges the head: a node that is referred to is not linked again.   *)
Links ==
  /\ \A n \in Listed : n \notin ChainOf(next, next[n])
  /\ \A t \in Threads : loc[t].pc = "pop" => loc[t].then = next[Node(t)]
  /\ \A t \in Threads : loc[t].pc \in {"count", "push"} => loc[t].head = next[Node(t)]
  /\ \A t \in Threads : loc[t].pc = "ref" => References(loc[t].refs) # 0

IInv == TypeOK /\ OnePlace /\ Counts /\ Links
-------------------------------------------------------------------------------
(* Numbers.                                                                 *)

(* References and the list's own one fit under the bit.                     *)
LEMMA RefCount ==
  ASSUME NEW S \in SUBSET Threads
  PROVE  /\ Cardinality(S) \in Nat /\ Cardinality(S) + 1 < Should
         /\ Cardinality(S) = 0 <=> S = {}
         /\ \A t \in Threads \ S : Cardinality(S \cup {t}) = Cardinality(S) + 1
         /\ \A t \in S : Cardinality(S \ {t}) = Cardinality(S) - 1
<1>1. IsFiniteSet(Threads) /\ Should \in Nat /\ Should > Cardinality(Threads) + 1
  BY ListAssumption DEF ListAssumption
<1>2. IsFiniteSet(S) /\ Cardinality(S) <= Cardinality(Threads)
  BY <1>1, FS_Subset
<1>3. Cardinality(S) \in Nat /\ Cardinality(Threads) \in Nat
  BY <1>1, <1>2, FS_CardinalityType
<1>4. Cardinality(S) = 0 <=> S = {}
  BY <1>2, FS_EmptySet
<1>5. \A t \in Threads \ S : Cardinality(S \cup {t}) = Cardinality(S) + 1
  BY <1>2, FS_AddElement
<1>6. \A t \in S : Cardinality(S \ {t}) = Cardinality(S) - 1
  BY <1>2, FS_RemoveElement
<1> QED BY <1>1, <1>2, <1>3, <1>4, <1>5, <1>6

(* The operations on a word do not wrap when the sum or difference fits.    *)
LEMMA Words ==
  /\ Should \in Nat /\ Should > 1
  /\ \A w \in Word : w % (2 * Should) = w /\ (w + 2 * Should) % (2 * Should) = w
  /\ \A w \in 0 .. Should - 1 : References(w) = w /\ References(Should + w) = w
<1>1. Should \in Nat /\ Should > 1
  <2>1. Should \in Nat /\ Should > Cardinality(Threads) + 1 /\ IsFiniteSet(Threads)
    BY ListAssumption DEF ListAssumption
  <2> QED BY <2>1, FS_CardinalityType
<1>2. ASSUME NEW w \in Word
      PROVE  w % (2 * Should) = w /\ (w + 2 * Should) % (2 * Should) = w
  BY <1>1 DEF Word
<1>3. ASSUME NEW w \in 0 .. Should - 1
      PROVE  References(w) = w /\ References(Should + w) = w
  BY <1>1 DEF References
<1> QED BY <1>1, <1>2, <1>3
-------------------------------------------------------------------------------
(* Chains.                                                                  *)

(* A set that follows the links and has n has the chain of n.               *)
LEMMA ChainWithin ==
  ASSUME NEW f, NEW n, NEW S \in SUBSET MaybeNode, n \in S, Follows(f, S)
  PROVE  ChainOf(f, n) \subseteq S
BY DEF ChainOf

(* The chain of n has n and follows the links, to the end.                  *)
LEMMA ChainClosed ==
  ASSUME NEW f \in [Nodes -> MaybeNode], NEW n \in MaybeNode
  PROVE  /\ ChainOf(f, n) \subseteq Nodes
         /\ n \in Nodes => n \in ChainOf(f, n)
         /\ Follows(f, ChainOf(f, n) \cup {NoNode})
         /\ NoNode \notin Nodes
<1>1. NoNode \notin Nodes
  BY ListAssumption DEF ListAssumption
<1>2. ASSUME NEW m \in ChainOf(f, n), f[m] # NoNode PROVE f[m] \in ChainOf(f, n)
  <2>1. m \in Nodes /\ f[m] \in Nodes
    BY <1>2 DEF ChainOf, MaybeNode
  <2>2. ASSUME NEW S \in SUBSET MaybeNode, n \in S, Follows(f, S) PROVE f[m] \in S
    BY <1>1, <2>1, <2>2 DEF ChainOf, Follows
  <2> QED BY <2>1, <2>2 DEF ChainOf
<1>3. Follows(f, ChainOf(f, n) \cup {NoNode})
  BY <1>2 DEF Follows
<1> QED BY <1>1, <1>3 DEF ChainOf

(* Nothing is behind the end.                                               *)
LEMMA ChainNone ==
  ASSUME NEW f \in [Nodes -> MaybeNode]
  PROVE  ChainOf(f, NoNode) = {}
<1>1. ChainOf(f, NoNode) \subseteq {NoNode}
  BY ChainWithin DEF MaybeNode, Follows
<1> QED BY <1>1, ChainClosed DEF MaybeNode

(* The chain of a node is the node and the chain of its successor.          *)
LEMMA ChainStep ==
  ASSUME NEW f \in [Nodes -> MaybeNode], NEW n \in Nodes
  PROVE  ChainOf(f, n) = {n} \cup ChainOf(f, f[n])
<1> DEFINE C == ChainOf(f, n) \cup {NoNode}
           D == {n} \cup ChainOf(f, f[n]) \cup {NoNode}
<1>0. n \in MaybeNode /\ f[n] \in MaybeNode /\ NoNode \notin Nodes
  BY ChainClosed DEF MaybeNode
<1>1. ChainOf(f, n) \subseteq D
  <2>1. Follows(f, ChainOf(f, f[n]) \cup {NoNode}) /\ ChainOf(f, f[n]) \subseteq Nodes
        /\ (f[n] \in Nodes => f[n] \in ChainOf(f, f[n]))
    BY <1>0, ChainClosed
  <2>2. Follows(f, D)
    BY <1>0, <2>1 DEF Follows, MaybeNode
  <2>3. D \in SUBSET MaybeNode /\ n \in D
    BY <2>1 DEF MaybeNode
  <2> QED BY <2>2, <2>3, ChainWithin
<1>2. ChainOf(f, f[n]) \subseteq C
  <2>1. Follows(f, C) /\ n \in C /\ ChainOf(f, n) \subseteq Nodes
    BY <1>0, ChainClosed
  <2>2. f[n] \in C /\ C \in SUBSET MaybeNode
    BY <1>0, <2>1 DEF Follows, MaybeNode
  <2> QED BY <2>1, <2>2, ChainWithin
<1>3. n \in ChainOf(f, n) /\ ChainOf(f, n) \subseteq Nodes /\ ChainOf(f, f[n]) \subseteq Nodes
  BY <1>0, ChainClosed
<1> QED BY <1>0, <1>1, <1>2, <1>3

(* A node that the chain does not have can be linked anew.                  *)
LEMMA ChainSame ==
  ASSUME NEW f \in [Nodes -> MaybeNode], NEW n \in MaybeNode,
         NEW x \in Nodes, NEW y \in MaybeNode, x \notin ChainOf(f, n)
  PROVE  ChainOf([f EXCEPT ![x] = y], n) = ChainOf(f, n)
<1> DEFINE g == [f EXCEPT ![x] = y]
<1>0. g \in [Nodes -> MaybeNode] /\ \A m \in Nodes \ {x} : g[m] = f[m]
  OBVIOUS
<1> HIDE DEF g
<1>1. ChainOf(g, n) \subseteq ChainOf(f, n)
  <2>1. /\ Follows(f, ChainOf(f, n) \cup {NoNode}) /\ ChainOf(f, n) \subseteq Nodes
        /\ (n \in Nodes => n \in ChainOf(f, n)) /\ NoNode \notin Nodes
    BY ChainClosed
  <2>2. Follows(g, ChainOf(f, n) \cup {NoNode})
    BY <1>0, <2>1 DEF Follows
  <2>3. n \in ChainOf(f, n) \cup {NoNode} /\ ChainOf(f, n) \cup {NoNode} \in SUBSET MaybeNode
    BY <2>1 DEF MaybeNode
  <2>4. ChainOf(g, n) \subseteq ChainOf(f, n) \cup {NoNode}
    BY <2>2, <2>3, ChainWithin
  <2> QED BY <1>0, <2>1, <2>4, ChainClosed
<1>2. ChainOf(f, n) \subseteq ChainOf(g, n)
  <2>1. /\ Follows(g, ChainOf(g, n) \cup {NoNode}) /\ ChainOf(g, n) \subseteq Nodes
        /\ (n \in Nodes => n \in ChainOf(g, n)) /\ NoNode \notin Nodes
    BY <1>0, ChainClosed
  <2>2. Follows(f, ChainOf(g, n) \cup {NoNode})
    BY <1>0, <1>1, <2>1 DEF Follows
  <2>3. n \in ChainOf(g, n) \cup {NoNode} /\ ChainOf(g, n) \cup {NoNode} \in SUBSET MaybeNode
    BY <2>1 DEF MaybeNode
  <2>4. ChainOf(f, n) \subseteq ChainOf(g, n) \cup {NoNode}
    BY <2>2, <2>3, ChainWithin
  <2>5. ChainOf(f, n) \subseteq Nodes
    BY ChainClosed
  <2> QED BY <2>1, <2>4, <2>5
<1> QED BY <1>1, <1>2 DEF g

(* The chain of a node that another chain has is part of it.                *)
LEMMA ChainPart ==
  ASSUME NEW f \in [Nodes -> MaybeNode], NEW n \in MaybeNode, NEW m \in ChainOf(f, n)
  PROVE  ChainOf(f, m) \subseteq ChainOf(f, n)
<1>1. /\ Follows(f, ChainOf(f, n) \cup {NoNode}) /\ ChainOf(f, n) \subseteq Nodes
      /\ NoNode \notin Nodes
  BY ChainClosed
<1>2. m \in MaybeNode /\ ChainOf(f, n) \cup {NoNode} \in SUBSET MaybeNode
  BY <1>1 DEF MaybeNode
<1>3. ChainOf(f, m) \subseteq ChainOf(f, n) \cup {NoNode}
  BY <1>1, <1>2, ChainWithin
<1>4. ChainOf(f, m) \subseteq Nodes
  BY <1>2, ChainClosed
<1> QED BY <1>1, <1>3, <1>4

(* These are the chains of the list.                                        *)
LEMMA Chains == \A n : Chain(n) = ChainOf(next, n)
BY DEF Chain, ChainOf, FollowsLinks, Follows, MaybeNode
-------------------------------------------------------------------------------
(* What a step does to the places of the nodes.                             *)

(* When thread t goes on with the locals c, it alone changes its part.      *)
LEMMA Moves ==
  ASSUME TypeOK, NEW t \in Threads, NEW c \in Locals, Go(t, c)
  PROVE  /\ loc' \in [Threads -> Locals]
         /\ loc'[t] = c /\ \A s \in Threads \ {t} : loc'[s] = loc[s]
         /\ Node(t)' = c.node /\ \A s \in Threads \ {t} : Node(s)' = Node(s)
BY DEF TypeOK, Go, Node

(* A node that neither its old nor its new locals give t a part in keeps    *)
(* its place.                                                               *)
LEMMA Elsewhere ==
  ASSUME TypeOK, NEW t \in Threads, NEW c \in Locals, Go(t, c), NEW n,
         Node(t) # n \/ loc[t].pc \notin Referring \cup Waiting \cup Counted,
         c.node # n \/ c.pc \notin Referring \cup Waiting \cup Counted
  PROVE  /\ Refs(n)' = Refs(n)
         /\ By(n, Waiting)' <=> By(n, Waiting)
         /\ By(n, Counted)' <=> By(n, Counted)
<1>1. /\ loc'[t] = c /\ \A s \in Threads \ {t} : loc'[s] = loc[s]
      /\ Node(t)' = c.node /\ \A s \in Threads \ {t} : Node(s)' = Node(s)
  BY Moves
<1>2. Refs(n)' = {s \in Threads : Node(s)' = n /\ loc'[s].pc \in Referring}
  BY DEF Refs
<1>3. ASSUME NEW s \in Threads
      PROVE  /\ Node(s)' = n /\ loc'[s].pc \in Referring <=> Node(s) = n /\ loc[s].pc \in Referring
             /\ Node(s)' = n /\ loc'[s].pc \in Waiting <=> Node(s) = n /\ loc[s].pc \in Waiting
             /\ Node(s)' = n /\ loc'[s].pc \in Counted <=> Node(s) = n /\ loc[s].pc \in Counted
  BY <1>1
<1>4. Refs(n)' = Refs(n)
  BY <1>2, <1>3 DEF Refs
<1>5. By(n, Waiting)' <=> By(n, Waiting)
  BY <1>3 DEF By
<1>6. By(n, Counted)' <=> By(n, Counted)
  BY <1>3 DEF By
<1> QED BY <1>4, <1>5, <1>6

(* A node keeps its count with its place and word.                          *)
LEMMA SameCount ==
  ASSUME NEW n, CountOf(n), word'[n] = word[n], Refs(n)' = Refs(n),
         Owned(n)' <=> Owned(n), (n \in Listed)' <=> n \in Listed,
         By(n, Waiting)' <=> By(n, Waiting), By(n, Counted)' <=> By(n, Counted)
  PROVE  CountOf(n)'
BY DEF CountOf

(* When t keeps its part in its node, or has none before and after, and only*)
(* t's locals change, nodes keep their places and counts.                   *)
LEMMA SamePlaces ==
  ASSUME TypeOK, OnePlace, Counts, NEW t \in Threads, NEW c \in Locals, Go(t, c),
         UNCHANGED <<word, held>>, Listed' = Listed,
         c.pc \in Referring <=> loc[t].pc \in Referring,
         c.pc \in Waiting <=> loc[t].pc \in Waiting,
         c.pc \in Counted <=> loc[t].pc \in Counted,
         c.pc \in Referring \cup Waiting \cup Counted => c.node = Node(t)
  PROVE  OnePlace' /\ Counts'
<1>1. /\ loc'[t] = c /\ \A s \in Threads \ {t} : loc'[s] = loc[s]
      /\ Node(t)' = c.node /\ \A s \in Threads \ {t} : Node(s)' = Node(s)
  BY Moves
<1>2. ASSUME NEW s \in Threads
      PROVE  /\ loc'[s].pc \in Referring <=> loc[s].pc \in Referring
             /\ loc'[s].pc \in Waiting <=> loc[s].pc \in Waiting
             /\ loc'[s].pc \in Counted <=> loc[s].pc \in Counted
             /\ loc[s].pc \in Referring \cup Waiting \cup Counted => Node(s)' = Node(s)
  BY <1>1
<1>3. ASSUME NEW s \in Threads
      PROVE  (Works(s)' <=> Works(s)) /\ (Works(s) => Node(s)' = Node(s))
  BY <1>2 DEF Works
<1>4. \A n : Owned(n)' <=> Owned(n)
  BY DEF Owned
<1>5. OnePlace'
  BY <1>3, <1>4 DEF OnePlace
<1>6. ASSUME NEW n \in Nodes PROVE CountOf(n)'
  <2>1. \A s \in Threads : Node(s)' = n /\ loc'[s].pc \in Referring <=> Node(s) = n /\ loc[s].pc \in Referring
    BY <1>2
  <2>2. Refs(n)' = {s \in Threads : Node(s)' = n /\ loc'[s].pc \in Referring}
    BY DEF Refs
  <2>3. Refs(n)' = Refs(n)
    BY <2>1, <2>2 DEF Refs
  <2>4. By(n, Waiting)' <=> By(n, Waiting)
    BY <1>2 DEF By
  <2>5. By(n, Counted)' <=> By(n, Counted)
    BY <1>2 DEF By
  <2> QED BY <1>4, <2>3, <2>4, <2>5, SameCount DEF Counts
<1> QED BY <1>5, <1>6 DEF Counts

(* A thread is at the loop of try_get, or has returned.                     *)
Leaves(t) == \E c \in Locals : Go(t, c) /\ c.pc \in {"idle", "refs"}
                              /\ (c.pc # "idle" => c.node \in Nodes)

(* Which is what the loop does, and the end of a push.                      *)
LEMMA Leaving ==
  ASSUME TypeOK, NEW t \in Threads
  PROVE  /\ \A h \in MaybeNode : Loop(t, h) => Leaves(t)
         /\ Return(t) => Leaves(t)
         /\ PushDone(t) => Leaves(t)
<1>1. Idle \in Locals /\ Idle.pc = "idle"
  BY Words DEF Idle, Locals, MaybeNode, Word
<1>2. Return(t) => Leaves(t)
  BY <1>1 DEF Return, Leaves
<1>3. ASSUME NEW h \in MaybeNode, Loop(t, h) PROVE Leaves(t)
  <2>1. CASE h = NoNode
    BY <1>2, <1>3, <2>1 DEF Loop
  <2>2. CASE h # NoNode
    <3> DEFINE c == [Idle EXCEPT !.pc = "refs", !.get = TRUE, !.node = h]
    <3>1. c \in Locals /\ c.pc = "refs" /\ c.node = h
      BY <1>1, Words DEF Idle, Locals, Word
    <3>2. Go(t, c) /\ h \in Nodes
      BY <1>3, <2>2 DEF Loop, MaybeNode
    <3> QED BY <3>1, <3>2 DEF Leaves
  <2> QED BY <2>1, <2>2
<1>4. loc[t].then \in MaybeNode
  BY DEF TypeOK, Locals
<1> QED BY <1>2, <1>3, <1>4 DEF PushDone

(* Links that stay, and locals that say nothing of them.                    *)
LEMMA SameLinks ==
  ASSUME TypeOK, Links, NEW t \in Threads, NEW c \in Locals, Go(t, c),
         UNCHANGED <<top, next>>,
         c.pc = "pop" => c.then = next[c.node],
         c.pc \in {"count", "push"} => c.head = next[c.node],
         c.pc = "ref" => References(c.refs) # 0
  PROVE  Links' /\ Listed' = Listed
<1>1. /\ loc'[t] = c /\ \A s \in Threads \ {t} : loc'[s] = loc[s]
      /\ Node(t)' = c.node /\ \A s \in Threads \ {t} : Node(s)' = Node(s)
  BY Moves
<1>2. Listed' = Listed
  BY DEF Listed
<1>3. \A n \in Listed' : n \notin ChainOf(next', next'[n])
  BY <1>2 DEF Links
<1>4. ASSUME NEW s \in Threads
      PROVE  /\ loc'[s].pc = "pop" => loc'[s].then = next'[Node(s)']
             /\ loc'[s].pc \in {"count", "push"} => loc'[s].head = next'[Node(s)']
             /\ loc'[s].pc = "ref" => References(loc'[s].refs) # 0
  BY <1>1 DEF Links
<1> QED BY <1>2, <1>3, <1>4 DEF Links

(* Leaving takes no part.                                                   *)
LEMMA LeavesSame ==
  ASSUME IInv, NEW t \in Threads, Leaves(t), UNCHANGED <<top, word, next, held>>,
         loc[t].pc \notin Referring \cup Waiting \cup Counted
  PROVE  IInv'
<1>1. PICK c \in Locals : Go(t, c) /\ c.pc \in {"idle", "refs"} /\ (c.pc # "idle" => c.node \in Nodes)
  BY DEF Leaves
<1>2. Links' /\ Listed' = Listed
  BY <1>1, SameLinks DEF IInv
<1>3. OnePlace' /\ Counts'
  BY <1>1, <1>2, SamePlaces DEF IInv, Referring, Waiting, Counted
<1>4. TypeOK'
  BY <1>1, Moves DEF IInv, TypeOK
<1> QED BY <1>2, <1>3, <1>4 DEF IInv

(* So does a step that changes only t's locals and not its part.            *)
LEMMA LocalStep ==
  ASSUME IInv, NEW t \in Threads, NEW c \in Locals, Go(t, c), UNCHANGED <<top, word, next, held>>,
         c.node = Node(t), Node(t) \in Nodes,
         c.pc = "pop" => c.then = next[c.node],
         c.pc \in {"count", "push"} => c.head = next[c.node],
         c.pc = "ref" => References(c.refs) # 0,
         c.pc \in Referring <=> loc[t].pc \in Referring,
         c.pc \in Waiting <=> loc[t].pc \in Waiting,
         c.pc \in Counted <=> loc[t].pc \in Counted
  PROVE  IInv'
<1>1. Links' /\ Listed' = Listed
  BY SameLinks DEF IInv
<1>2. OnePlace' /\ Counts'
  BY <1>1, SamePlaces DEF IInv
<1>3. TypeOK'
  BY Moves DEF IInv, TypeOK
<1> QED BY <1>1, <1>2, <1>3 DEF IInv
(* Places stay apart when no thread comes to work on a node.                *)
LEMMA StaysApart ==
  ASSUME TypeOK, OnePlace, NEW t \in Threads, NEW c \in Locals, Go(t, c),
         UNCHANGED held, Listed' = Listed,
         c.pc \in Waiting \cup Counted => Works(t) /\ c.node = Node(t)
  PROVE  OnePlace'
<1>1. /\ loc'[t] = c /\ \A s \in Threads \ {t} : loc'[s] = loc[s]
      /\ Node(t)' = c.node /\ \A s \in Threads \ {t} : Node(s)' = Node(s)
  BY Moves
<1>2. ASSUME NEW s \in Threads, Works(s)' PROVE Works(s) /\ Node(s)' = Node(s)
  BY <1>1, <1>2 DEF Works
<1>3. \A n : Owned(n)' <=> Owned(n)
  BY DEF Owned
<1> QED BY <1>2, <1>3 DEF OnePlace

(* A node that a thread works on is in no other place.                      *)
LEMMA OnlyWorker ==
  ASSUME OnePlace, NEW t \in Threads, Works(t)
  PROVE  /\ ~Owned(Node(t)) /\ Node(t) \notin Listed
         /\ \A s \in Threads \ {t} : Node(s) = Node(t) => loc[s].pc \notin Waiting \cup Counted
BY DEF OnePlace, Works
(* A thread that refers to a node gives references back.                    *)
LEMMA GivesBack ==
  ASSUME TypeOK, NEW t \in Threads, NEW c \in Locals, Go(t, c), NEW n \in Nodes, n = Node(t),
         loc[t].pc \in Referring, c.pc \notin Referring
  PROVE  /\ Refs(n) \in SUBSET Threads /\ t \in Refs(n) /\ Refs(n)' = Refs(n) \ {t}
         /\ Cardinality(Refs(n)) \in Nat /\ Cardinality(Refs(n)) + 1 < Should
         /\ Cardinality(Refs(n)') \in Nat /\ Cardinality(Refs(n)) = Cardinality(Refs(n)') + 1
         /\ Cardinality(Refs(n)') = 0 <=> Refs(n)' = {}
<1>1. /\ loc'[t] = c /\ \A s \in Threads \ {t} : loc'[s] = loc[s]
      /\ Node(t)' = c.node /\ \A s \in Threads \ {t} : Node(s)' = Node(s)
  BY Moves
<1>2. Refs(n) \in SUBSET Threads /\ t \in Refs(n)
  BY DEF Refs
<1>3. Refs(n)' = Refs(n) \ {t}
  <2>1. \A s \in Threads : Node(s)' = n /\ loc'[s].pc \in Referring <=> s # t /\ Node(s) = n /\ loc[s].pc \in Referring
    BY <1>1
  <2>2. Refs(n)' = {s \in Threads : Node(s)' = n /\ loc'[s].pc \in Referring}
    BY DEF Refs
  <2> QED BY <2>1, <2>2 DEF Refs
<1>4. Refs(n)' \in SUBSET Threads
  BY <1>2, <1>3
<1>5. /\ Cardinality(Refs(n)) \in Nat /\ Cardinality(Refs(n)) + 1 < Should
      /\ Cardinality(Refs(n) \ {t}) = Cardinality(Refs(n)) - 1
  BY <1>2, RefCount
<1>6. Cardinality(Refs(n)') \in Nat /\ (Cardinality(Refs(n)') = 0 <=> Refs(n)' = {})
  BY <1>4, RefCount
<1>7. Cardinality(Refs(n)) = Cardinality(Refs(n)') + 1
  BY <1>3, <1>5
<1> QED BY <1>2, <1>3, <1>5, <1>6, <1>7
-------------------------------------------------------------------------------
(* One lemma per action: it preserves the invariant.                        *)

(* The push of a node loads the head.                                       *)
LEMMA LoadHeadStep ==
  ASSUME IInv, NEW t \in Threads, LoadHead(t)
  PROVE  IInv'
<1> DEFINE c == [With(t, "link") EXCEPT !.head = top]
<1>1. c \in Locals /\ c.pc = "link" /\ c.node = Node(t)
  BY DEF IInv, TypeOK, Locals, With, Node, Waiting
<1>2. Go(t, c) /\ UNCHANGED <<top, word, next, held>> /\ loc[t].pc = "head"
  BY DEF LoadHead, At
<1>3. Node(t) \in Nodes
  BY <1>2 DEF IInv, TypeOK
<1> HIDE DEF c
<1> QED BY <1>1, <1>2, <1>3, LocalStep DEF Waiting, Referring, Counted

(* try_get loads the head.                                                  *)
LEMMA LoadTopStep ==
  ASSUME IInv, NEW t \in Threads, LoadTop(t)
  PROVE  IInv'
<1>1. Leaves(t)
  BY Leaving DEF IInv, TypeOK, LoadTop
<1> QED BY <1>1, LeavesSame DEF LoadTop, At, Referring, Waiting, Counted

(* try_get looks at the count.                                              *)
LEMMA LoadRefsStep ==
  ASSUME IInv, NEW t \in Threads, LoadRefs(t)
  PROVE  IInv'
<1>1. loc[t].pc = "refs" /\ UNCHANGED <<top, word, next, held>> /\ Node(t) \in Nodes
  BY DEF LoadRefs, At, IInv, TypeOK
<1>2. CASE References(word[Node(t)]) = 0
  <2> DEFINE c == With(t, "load")
  <2>1. c \in Locals /\ c.pc = "load" /\ c.node = Node(t)
    BY DEF IInv, TypeOK, Locals, With, Node
  <2>2. Go(t, c)
    BY <1>2 DEF LoadRefs
  <2> HIDE DEF c
  <2> QED BY <1>1, <2>1, <2>2, LocalStep DEF Waiting, Referring, Counted
<1>3. CASE References(word[Node(t)]) # 0
  <2> DEFINE c == [With(t, "ref") EXCEPT !.refs = word[Node(t)]]
  <2>1. c \in Locals /\ c.pc = "ref" /\ c.node = Node(t) /\ c.refs = word[Node(t)]
    BY <1>1 DEF IInv, TypeOK, Locals, With, Node
  <2>2. Go(t, c)
    BY <1>3 DEF LoadRefs
  <2> HIDE DEF c
  <2> QED BY <1>1, <1>3, <2>1, <2>2, LocalStep DEF Waiting, Referring, Counted
<1> QED BY <1>2, <1>3

(* try_get reads the successor of a node that it refers to.                 *)
LEMMA LoadNextStep ==
  ASSUME IInv, NEW t \in Threads, LoadNext(t)
  PROVE  IInv'
<1> DEFINE c == [With(t, "pop") EXCEPT !.then = next[Node(t)]]
<1>1. loc[t].pc = "next" /\ UNCHANGED <<top, word, next, held>> /\ Node(t) \in Nodes /\ Go(t, c)
  BY DEF LoadNext, At, IInv, TypeOK
<1>2. c \in Locals /\ c.pc = "pop" /\ c.node = Node(t) /\ c.then = next[Node(t)]
  BY <1>1 DEF IInv, TypeOK, Locals, With, Node, Referring
<1> HIDE DEF c
<1> QED BY <1>1, <1>2, LocalStep DEF Waiting, Referring, Counted

(* A node is linked in front of the head that was loaded.                   *)
LEMMA LinkStep ==
  ASSUME IInv, NEW t \in Threads, Link(t)
  PROVE  IInv'
<1> DEFINE c == With(t, "count")
<1>0. PICK n \in Nodes : n = Node(t)
  BY DEF Link, At, IInv, TypeOK
<1> USE <1>0
<1>1. /\ loc[t].pc = "link" /\ UNCHANGED <<top, word, held>> /\ n \in Nodes /\ Go(t, c)
      /\ loc[t].head \in MaybeNode
      /\ next' = [next EXCEPT ![n] = loc[t].head]
  BY DEF Link, At, IInv, TypeOK, Locals
<1>2. c \in Locals /\ c.pc = "count" /\ c.node = n /\ c.head = loc[t].head
  BY DEF IInv, TypeOK, Locals, With, Node, Waiting
<1> HIDE DEF c
<1>3. TypeOK /\ OnePlace /\ Counts /\ Links
  BY DEF IInv
<1>4. /\ loc'[t] = c /\ \A s \in Threads \ {t} : loc'[s] = loc[s]
      /\ Node(t)' = c.node /\ \A s \in Threads \ {t} : Node(s)' = Node(s)
      /\ loc' \in [Threads -> Locals]
  BY <1>1, <1>2, <1>3, Moves
<1>5. n \notin Listed /\ Refs(n) = {} /\ Works(t)
  BY <1>1, <1>3 DEF OnePlace, Works, Counts, CountOf, By, Waiting
<1>6. next \in [Nodes -> MaybeNode] /\ top \in MaybeNode
  BY <1>3 DEF TypeOK
<1>7. Listed' = Listed
  BY <1>1, <1>5, <1>6, ChainSame, ZenonT(60) DEF Listed
<1>8. ASSUME NEW m \in Listed PROVE m \notin ChainOf(next', next'[m])
  <2>1. m \in Nodes /\ m # n /\ next'[m] = next[m] /\ next[m] \in MaybeNode
    BY <1>1, <1>5, <1>6, ChainClosed DEF Listed
  <2>2. ChainOf(next, next[m]) \subseteq Listed
    BY <1>6, <2>1, ChainStep, ChainPart DEF Listed
  <2>3. ChainOf(next', next[m]) = ChainOf(next, next[m])
    <3>1. n \notin ChainOf(next, next[m])
      BY <1>5, <2>2
    <3>2. ChainOf([next EXCEPT ![n] = loc[t].head], next[m]) = ChainOf(next, next[m])
      BY <1>1, <1>6, <2>1, <3>1, ChainSame, ZenonT(60)
    <3> QED BY <1>1, <3>2
  <2> QED BY <1>3, <2>1, <2>3 DEF Links
<1>9. ASSUME NEW s \in Threads
      PROVE  /\ loc'[s].pc = "pop" => loc'[s].then = next'[Node(s)']
             /\ loc'[s].pc \in {"count", "push"} => loc'[s].head = next'[Node(s)']
             /\ loc'[s].pc = "ref" => References(loc'[s].refs) # 0
  <2>1. CASE s = t
    BY <1>1, <1>2, <1>4, <1>6, <2>1
  <2>2. CASE s # t
    <3>1. loc'[s] = loc[s] /\ Node(s)' = Node(s)
      BY <1>4, <2>2
    <3>2. loc[s].pc = "pop" => Node(s) # n
      BY <1>5 DEF Refs, Referring
    <3>3. loc[s].pc \in {"count", "push"} => Node(s) # n
      BY <1>3, <1>5, <2>2 DEF OnePlace, Works, Waiting, Counted
    <3>4. loc[s].pc \in {"pop", "count", "push"} => Node(s) \in Nodes
      BY <1>3 DEF TypeOK
    <3> QED BY <1>1, <1>3, <1>6, <3>1, <3>2, <3>3, <3>4 DEF Links
  <2> QED BY <2>1, <2>2
<1>10. Links'
  BY <1>7, <1>8, <1>9 DEF Links
<1>11. OnePlace' /\ Counts'
  BY <1>1, <1>2, <1>3, <1>7, SamePlaces DEF Waiting, Referring, Counted
<1>12. TypeOK'
  BY <1>1, <1>2, <1>3, <1>4 DEF TypeOK
<1> QED BY <1>10, <1>11, <1>12 DEF IInv

(* The reference of the list is set.                                        *)
LEMMA SetCountStep ==
  ASSUME IInv, NEW t \in Threads, SetCount(t)
  PROVE  IInv'
<1> DEFINE c == With(t, "push")
<1>0. PICK n \in Nodes : n = Node(t)
  BY DEF SetCount, At, IInv, TypeOK
<1> USE <1>0
<1>1. /\ loc[t].pc = "count" /\ UNCHANGED <<top, next, held>> /\ n \in Nodes /\ Go(t, c)
      /\ word' = [word EXCEPT ![n] = 1]
  BY DEF SetCount, At, IInv, TypeOK, Locals
<1>2. c \in Locals /\ c.pc = "push" /\ c.node = n /\ c.head = loc[t].head
  BY DEF IInv, TypeOK, Locals, With, Node, Counted
<1> HIDE DEF c
<1>3. TypeOK /\ OnePlace /\ Counts /\ Links
  BY DEF IInv
<1>4. /\ loc'[t] = c /\ \A s \in Threads \ {t} : loc'[s] = loc[s]
      /\ Node(t)' = c.node /\ \A s \in Threads \ {t} : Node(s)' = Node(s)
      /\ loc' \in [Threads -> Locals]
  BY <1>1, <1>2, <1>3, Moves
<1>5. Links' /\ Listed' = Listed
  BY <1>1, <1>2, <1>3, SameLinks DEF Links
<1>6. Works(t)
  BY <1>1 DEF Works, Waiting
<1>7. OnePlace'
  BY <1>1, <1>2, <1>3, <1>5, <1>6, StaysApart
<1>8. 1 \in Word
  BY Words DEF Word
<1>9. TypeOK'
  BY <1>1, <1>2, <1>3, <1>4, <1>8 DEF TypeOK
<1>10. \A m : Owned(m)' <=> Owned(m)
  BY <1>1 DEF Owned
<1>11. ASSUME NEW m \in Nodes, m # n PROVE CountOf(m)'
  <2>1. word'[m] = word[m]
    BY <1>1, <1>3, <1>11 DEF TypeOK
  <2> QED BY <1>1, <1>2, <1>3, <1>5, <1>10, <1>11, <2>1, Elsewhere, SameCount DEF Counts
<1>12. CountOf(n)'
  <2>1. Refs(n) = {} /\ ~Owned(n) /\ n \notin Listed
    BY <1>1, <1>3, <1>6, OnlyWorker DEF Counts, CountOf, By, Waiting
  <2>2. Refs(n)' = {}
    BY <1>2, <1>4, <2>1 DEF Refs, Referring
  <2>3. ~By(n, Waiting)' /\ By(n, Counted)'
    BY <1>2, <1>3, <1>4, <1>6, OnlyWorker DEF By, Waiting, Counted
  <2>4. word'[n] = 1 /\ Cardinality({}) = 0
    BY <1>1, <1>3, FS_EmptySet DEF TypeOK
  <2> QED BY <1>5, <1>10, <2>1, <2>2, <2>3, <2>4 DEF CountOf
<1> QED BY <1>5, <1>7, <1>9, <1>11, <1>12 DEF IInv, Counts

(* A node comes off the list.                                               *)
LEMMA PopStep ==
  ASSUME IInv, NEW t \in Threads, Pop(t)
  PROVE  IInv'
<1>0. PICK n \in Nodes : n = Node(t)
  BY DEF Pop, At, IInv, TypeOK
<1> USE <1>0
<1>1. loc[t].pc = "pop" /\ UNCHANGED <<word, next, held>> /\ n \in Nodes
  BY DEF Pop, At, IInv, TypeOK
<1>2. TypeOK /\ OnePlace /\ Counts /\ Links
  BY DEF IInv
<1>3. CASE top # n
  <2> DEFINE c == [With(t, "drop") EXCEPT !.then = top]
  <2>1. c \in Locals /\ c.pc = "drop" /\ c.node = n
    BY DEF IInv, TypeOK, Locals, With, Node, Referring
  <2>2. Go(t, c) /\ UNCHANGED top
    BY <1>3 DEF Pop
  <2> HIDE DEF c
  <2> QED BY <1>1, <2>1, <2>2, LocalStep DEF Waiting, Referring, Counted
<1>4. CASE top = n
  <2> DEFINE c == With(t, "take")
  <2>1. c \in Locals /\ c.pc = "take" /\ c.node = n
    BY DEF IInv, TypeOK, Locals, With, Node, Counted
  <2>2. Go(t, c) /\ top' = next[n]
    BY <1>1, <1>2, <1>4 DEF Pop, Links
  <2> HIDE DEF c
  <2>3. /\ loc'[t] = c /\ \A s \in Threads \ {t} : loc'[s] = loc[s]
        /\ Node(t)' = c.node /\ \A s \in Threads \ {t} : Node(s)' = Node(s)
        /\ loc' \in [Threads -> Locals]
    BY <1>2, <2>1, <2>2, Moves
  <2>4. next \in [Nodes -> MaybeNode]
    BY <1>2 DEF TypeOK
  <2>5. n \in Listed /\ Listed' = Listed \ {n}
    <3>1. Listed = {n} \cup ChainOf(next, next[n])
      BY <1>1, <1>4, <2>4, ChainStep DEF Listed
    <3>2. n \notin ChainOf(next, next[n])
      BY <1>2, <3>1 DEF Links
    <3>3. Listed' = ChainOf(next, next[n])
      BY <1>1, <2>2 DEF Listed
    <3> QED BY <3>1, <3>2, <3>3
  <2>6. \A m : Owned(m)' <=> Owned(m)
    BY <1>1 DEF Owned
  <2>7. OnePlace'
    <3>1. \A s \in Threads \ {t} : (Works(s)' <=> Works(s)) /\ (Works(s) => Node(s) # n)
      BY <1>2, <2>3, <2>5 DEF Works, OnePlace
    <3>2. ~Owned(n) /\ n \notin Listed'
      BY <1>1, <1>2, <2>5 DEF OnePlace
    <3> QED BY <1>1, <1>2, <2>1, <2>3, <2>5, <2>6, <3>1, <3>2 DEF OnePlace
  <2>8. Links'
    <3>1. \A m \in Listed' : m \notin ChainOf(next', next'[m])
      BY <1>1, <1>2, <2>5 DEF Links
    <3>2. ASSUME NEW s \in Threads
          PROVE  /\ loc'[s].pc = "pop" => loc'[s].then = next'[Node(s)']
                 /\ loc'[s].pc \in {"count", "push"} => loc'[s].head = next'[Node(s)']
                 /\ loc'[s].pc = "ref" => References(loc'[s].refs) # 0
      BY <1>1, <1>2, <2>1, <2>3 DEF Links
    <3> QED BY <3>1, <3>2 DEF Links
  <2>9. TypeOK'
    BY <1>1, <1>2, <2>1, <2>2, <2>3, <2>4 DEF TypeOK
  <2>10. ASSUME NEW m \in Nodes, m # n PROVE CountOf(m)'
    <3>1. (m \in Listed)' <=> m \in Listed
      BY <2>5, <2>10
    <3> QED BY <1>1, <1>2, <2>1, <2>2, <2>6, <2>10, <3>1, Elsewhere, SameCount DEF Counts
  <2>11. CountOf(n)'
    <3>1. ~Owned(n) /\ \A s \in Threads : Node(s) = n => loc[s].pc \notin Waiting \cup Counted
      BY <1>1, <1>2, <2>5 DEF OnePlace, Works
    <3>2. ~By(n, Waiting)' /\ By(n, Counted)'
      BY <2>1, <2>3, <3>1 DEF By, Waiting, Counted
    <3>3. Refs(n)' = Refs(n)
      <4>1. \A s \in Threads : Node(s)' = n /\ loc'[s].pc \in Referring <=> Node(s) = n /\ loc[s].pc \in Referring
        BY <1>1, <2>1, <2>3 DEF Referring
      <4>2. Refs(n)' = {s \in Threads : Node(s)' = n /\ loc'[s].pc \in Referring}
        BY DEF Refs
      <4> QED BY <4>1, <4>2 DEF Refs
    <3>4. word'[n] = 1 + Cardinality(Refs(n))
      BY <1>1, <1>2, <2>5 DEF Counts, CountOf
    <3> QED BY <2>6, <3>1, <3>2, <3>3, <3>4 DEF CountOf
  <2> QED BY <2>7, <2>8, <2>9, <2>10, <2>11 DEF IInv, Counts
<1> QED BY <1>3, <1>4

(* A node comes onto the list.                                              *)
LEMMA PushStep ==
  ASSUME IInv, NEW t \in Threads, Push(t)
  PROVE  IInv'
<1>0. PICK n \in Nodes : n = Node(t)
  BY DEF Push, At, IInv, TypeOK
<1> USE <1>0
<1>1. loc[t].pc = "push" /\ UNCHANGED <<word, next, held>> /\ n \in Nodes
  BY DEF Push, At, IInv, TypeOK
<1>2. TypeOK /\ OnePlace /\ Counts /\ Links
  BY DEF IInv
<1>3. CASE top # loc[t].head
  <2> DEFINE c == [With(t, "repush") EXCEPT !.head = top]
  <2>1. c \in Locals /\ c.pc = "repush" /\ c.node = n
    BY DEF IInv, TypeOK, Locals, With, Node, Counted
  <2>2. Go(t, c) /\ UNCHANGED top
    BY <1>3 DEF Push
  <2> HIDE DEF c
  <2> QED BY <1>1, <2>1, <2>2, LocalStep DEF Waiting, Referring, Counted
<1>4. CASE top = loc[t].head
  <2>1. PICK c \in Locals : Go(t, c) /\ c.pc \in {"idle", "refs"} /\ (c.pc # "idle" => c.node \in Nodes)
    BY <1>2, <1>4, Leaving DEF Push, Leaves
  <2>2. top' = n /\ next[n] = top
    BY <1>1, <1>2, <1>4 DEF Push, Links
  <2>3. /\ loc'[t] = c /\ \A s \in Threads \ {t} : loc'[s] = loc[s]
        /\ Node(t)' = c.node /\ \A s \in Threads \ {t} : Node(s)' = Node(s)
        /\ loc' \in [Threads -> Locals]
    BY <1>2, <2>1, Moves
  <2>4. next \in [Nodes -> MaybeNode]
    BY <1>2 DEF TypeOK
  <2>5. Works(t)
    BY <1>1 DEF Works, Counted
  <2>6. n \notin Listed /\ ~Owned(n) /\ Listed' = Listed \cup {n}
    <3>1. ChainOf(next, n) = {n} \cup ChainOf(next, next[n])
      BY <1>1, <2>4, ChainStep
    <3>2. Listed' = ChainOf(next, n)
      BY <1>1, <2>2 DEF Listed
    <3> QED BY <1>2, <2>2, <2>5, <3>1, <3>2, OnlyWorker DEF Listed
  <2>7. \A m : Owned(m)' <=> Owned(m)
    BY <1>1 DEF Owned
  <2>8. OnePlace'
    <3>1. ~Works(t)'
      BY <2>1, <2>3 DEF Works, Waiting, Counted
    <3>2. \A s \in Threads \ {t} : (Works(s)' <=> Works(s)) /\ (Works(s) => Node(s) # n)
      BY <1>2, <2>3, <2>5 DEF Works, OnePlace
    <3> QED BY <1>1, <1>2, <2>3, <2>6, <2>7, <3>1, <3>2 DEF OnePlace
  <2>9. Links'
    <3>1. n \notin ChainOf(next, next[n])
      BY <2>2, <2>6 DEF Listed
    <3>2. \A m \in Listed' : m \notin ChainOf(next', next'[m])
      BY <1>1, <1>2, <2>6, <3>1 DEF Links
    <3>3. ASSUME NEW s \in Threads
          PROVE  /\ loc'[s].pc = "pop" => loc'[s].then = next'[Node(s)']
                 /\ loc'[s].pc \in {"count", "push"} => loc'[s].head = next'[Node(s)']
                 /\ loc'[s].pc = "ref" => References(loc'[s].refs) # 0
      BY <1>1, <1>2, <2>1, <2>3 DEF Links
    <3> QED BY <3>2, <3>3 DEF Links
  <2>10. TypeOK'
    BY <1>1, <1>2, <2>1, <2>2, <2>3 DEF TypeOK, MaybeNode
  <2>11. ASSUME NEW m \in Nodes, m # n PROVE CountOf(m)'
    <3>1. (m \in Listed)' <=> m \in Listed
      BY <2>6, <2>11
    <3>2. c.pc \notin Referring \cup Waiting \cup Counted
      BY <2>1 DEF Referring, Waiting, Counted
    <3> QED BY <1>1, <1>2, <2>1, <2>7, <2>11, <3>1, <3>2, Elsewhere, SameCount DEF Counts
  <2>12. CountOf(n)'
    <3>1. ~By(n, Waiting)'
      BY <1>2, <2>1, <2>3, <2>5, OnlyWorker DEF By, Waiting
    <3>2. Refs(n)' = Refs(n)
      <4>1. \A s \in Threads : Node(s)' = n /\ loc'[s].pc \in Referring <=> Node(s) = n /\ loc[s].pc \in Referring
        BY <1>1, <2>1, <2>3 DEF Referring
      <4>2. Refs(n)' = {s \in Threads : Node(s)' = n /\ loc'[s].pc \in Referring}
        BY DEF Refs
      <4> QED BY <4>1, <4>2 DEF Refs
    <3>3. By(n, Counted)
      BY <1>1 DEF By, Counted
    <3>4. word'[n] = 1 + Cardinality(Refs(n))
      BY <1>1, <1>2, <3>3 DEF Counts, CountOf
    <3> QED BY <2>6, <2>7, <3>1, <3>2, <3>4 DEF CountOf
  <2> QED BY <2>8, <2>9, <2>10, <2>11, <2>12 DEF IInv, Counts
<1> QED BY <1>3, <1>4

(* The head had moved: the push is given back, or tried again.              *)
LEMMA RepushStep ==
  ASSUME IInv, NEW t \in Threads, Repush(t)
  PROVE  IInv'
<1>0. PICK n \in Nodes : n = Node(t)
  BY DEF Repush, At, IInv, TypeOK
<1> USE <1>0
<1>1. TypeOK /\ OnePlace /\ Counts /\ Links
  BY DEF IInv
<1>2. /\ loc[t].pc = "repush" /\ UNCHANGED <<top, next, held>>
      /\ word' = [word EXCEPT ![n] = (word[n] + (Should - 1)) % (2 * Should)]
  BY DEF Repush, At, FetchAdd
<1>3. word[n] = 1 + Cardinality(Refs(n)) /\ Works(t) /\ ~Owned(n) /\ n \notin Listed
  BY <1>1, <1>2 DEF Counts, CountOf, By, Counted, Works, OnePlace
<1>4. word' \in [Nodes -> Word] /\ word'[n] = Should + Cardinality(Refs(n))
  <2>1. Refs(n) \in SUBSET Threads
    BY DEF Refs
  <2>2. Cardinality(Refs(n)) \in Nat /\ Cardinality(Refs(n)) + 1 < Should
    BY <2>1, RefCount
  <2>3. word[n] + (Should - 1) = Should + Cardinality(Refs(n)) /\ Should + Cardinality(Refs(n)) \in Word
    BY <1>3, <2>2, Words DEF Word
  <2>4. (Should + Cardinality(Refs(n))) % (2 * Should) = Should + Cardinality(Refs(n))
    BY <2>3, Words
  <2> QED BY <1>1, <1>2, <2>3, <2>4 DEF TypeOK
<1>5. PICK c \in Locals :
        /\ Go(t, c)
        /\ \/ word[n] = 1 /\ c.pc = "link" /\ c.node = n
           \/ word[n] # 1 /\ c.pc \in {"idle", "refs"} /\ (c.pc # "idle" => c.node \in Nodes)
  <2>1. CASE word[n] = 1
    <3>1. With(t, "link") \in Locals /\ With(t, "link").pc = "link" /\ With(t, "link").node = n
      BY <1>1 DEF TypeOK, Locals, With, Node, Waiting
    <3>2. Go(t, With(t, "link"))
      BY <2>1 DEF Repush
    <3> QED BY <2>1, <3>1, <3>2
  <2>2. CASE word[n] # 1
    <3>1. Leaves(t)
      BY <1>1, <2>2, Leaving DEF Repush
    <3> QED BY <2>2, <3>1 DEF Leaves
  <2> QED BY <2>1, <2>2
<1>6. /\ loc'[t] = c /\ \A s \in Threads \ {t} : loc'[s] = loc[s]
      /\ Node(t)' = c.node /\ \A s \in Threads \ {t} : Node(s)' = Node(s)
      /\ loc' \in [Threads -> Locals]
  BY <1>1, <1>5, Moves
<1>7. Links' /\ Listed' = Listed
  BY <1>1, <1>2, <1>5, SameLinks
<1>8. OnePlace'
  BY <1>1, <1>2, <1>3, <1>5, <1>7, StaysApart DEF Waiting, Counted
<1>9. TypeOK'
  BY <1>1, <1>2, <1>4, <1>5, <1>6 DEF TypeOK
<1>10. \A m : Owned(m)' <=> Owned(m)
  BY <1>2 DEF Owned
<1>11. ASSUME NEW m \in Nodes, m # n PROVE CountOf(m)'
  <2>1. word'[m] = word[m]
    BY <1>1, <1>2, <1>11 DEF TypeOK
  <2>2. c.node # m \/ c.pc \notin Referring \cup Waiting \cup Counted
    BY <1>5, <1>11 DEF Referring, Waiting, Counted
  <2> QED BY <1>1, <1>5, <1>7, <1>10, <1>11, <2>1, <2>2, Elsewhere, SameCount DEF Counts
<1>12. CountOf(n)'
  <2>1. Refs(n)' = Refs(n)
    <3>1. \A s \in Threads : Node(s)' = n /\ loc'[s].pc \in Referring <=> Node(s) = n /\ loc[s].pc \in Referring
      BY <1>2, <1>5, <1>6 DEF Referring
    <3>2. Refs(n)' = {s \in Threads : Node(s)' = n /\ loc'[s].pc \in Referring}
      BY DEF Refs
    <3> QED BY <3>1, <3>2 DEF Refs
  <2>2. ~By(n, Counted)'
    BY <1>1, <1>3, <1>5, <1>6, OnlyWorker DEF By, Counted
  <2>3. By(n, Waiting)' <=> word[n] = 1
    BY <1>1, <1>3, <1>5, <1>6, OnlyWorker DEF By, Waiting
  <2>4. word[n] = 1 <=> Refs(n) = {}
    <3>1. Refs(n) \in SUBSET Threads
      BY DEF Refs
    <3>2. Cardinality(Refs(n)) \in Nat /\ (Cardinality(Refs(n)) = 0 <=> Refs(n) = {})
      BY <3>1, RefCount
    <3> QED BY <1>3, <3>2
  <2>5. Refs(n) = {} => Cardinality(Refs(n)) = 0
    BY FS_EmptySet
  <2>6. Refs(n) = {} => word'[n] = Should
    BY <1>4, <2>5, Words
  <2> QED BY <1>3, <1>4, <1>7, <1>10, <2>1, <2>2, <2>3, <2>4, <2>6 DEF CountOf
<1> QED BY <1>7, <1>8, <1>9, <1>11, <1>12 DEF IInv, Counts

(* A thread refers to a node from now on, if the count is the one it read.  *)
LEMMA AddRefStep ==
  ASSUME IInv, NEW t \in Threads, AddRef(t)
  PROVE  IInv'
<1>0. PICK n \in Nodes : n = Node(t)
  BY DEF AddRef, At, IInv, TypeOK
<1> USE <1>0
<1>1. TypeOK /\ OnePlace /\ Counts /\ Links
  BY DEF IInv
<1>2. loc[t].pc = "ref" /\ UNCHANGED <<top, next, held>> /\ 0 \in Word
  BY Words DEF AddRef, At, Word
<1>3. CASE word[n] # loc[t].refs
  <2> DEFINE c == [With(t, "load") EXCEPT !.refs = 0]
  <2>1. c \in Locals /\ c.pc = "load" /\ c.node = n
    BY <1>1, <1>2 DEF TypeOK, Locals, With, Node
  <2>2. Go(t, c) /\ UNCHANGED word
    BY <1>3 DEF AddRef
  <2> HIDE DEF c
  <2> QED BY <1>2, <2>1, <2>2, LocalStep DEF Waiting, Referring, Counted
<1>4. CASE word[n] = loc[t].refs
  <2> DEFINE c == [With(t, "next") EXCEPT !.refs = 0]
  <2>1. c \in Locals /\ c.pc = "next" /\ c.node = n
    BY <1>1, <1>2 DEF TypeOK, Locals, With, Node, Referring
  <2>2. Go(t, c) /\ word' = [word EXCEPT ![n] = (word[n] + 1) % (2 * Should)]
    BY <1>4 DEF AddRef, FetchAdd
  <2> HIDE DEF c
  <2>3. /\ loc'[t] = c /\ \A s \in Threads \ {t} : loc'[s] = loc[s]
        /\ Node(t)' = c.node /\ \A s \in Threads \ {t} : Node(s)' = Node(s)
        /\ loc' \in [Threads -> Locals]
    BY <1>1, <2>1, <2>2, Moves
  <2>4. Links' /\ Listed' = Listed
    BY <1>1, <1>2, <2>1, <2>2, SameLinks
  <2>5. OnePlace'
    BY <1>1, <1>2, <2>1, <2>2, <2>4, StaysApart DEF Waiting, Counted
  <2>6. Refs(n) \in SUBSET Threads /\ t \notin Refs(n)
    BY <1>2 DEF Refs, Referring
  <2>7. Refs(n)' = Refs(n) \cup {t}
    <3>1. \A s \in Threads : Node(s)' = n /\ loc'[s].pc \in Referring <=> s = t \/ (Node(s) = n /\ loc[s].pc \in Referring)
      BY <2>1, <2>3 DEF Referring
    <3>2. Refs(n)' = {s \in Threads : Node(s)' = n /\ loc'[s].pc \in Referring}
      BY DEF Refs
    <3> QED BY <3>1, <3>2 DEF Refs
  <2>8. /\ Cardinality(Refs(n)) \in Nat /\ Cardinality(Refs(n)) + 1 < Should
        /\ Cardinality(Refs(n)') = Cardinality(Refs(n)) + 1
    BY <2>6, <2>7, RefCount
  <2>9. word[n] \in Word /\ References(word[n]) # 0
    BY <1>1, <1>2, <1>4 DEF TypeOK, Links
  <2>10. word[n] # Should /\ word[n] + 1 \in Word
    <3>1. References(Should) = 0
      BY Words DEF References
    <3>2. word[n] # Should
      BY <2>9, <3>1
    <3>3. word[n] \in {Cardinality(Refs(n)), Should, 1 + Cardinality(Refs(n)), Should + Cardinality(Refs(n))}
      BY <1>1 DEF Counts, CountOf
    <3>4. PICK w \in Int, k \in Nat : w = word[n] /\ k = Cardinality(Refs(n))
      BY <2>8, <3>3, Words
    <3>5. w \in {k, Should, 1 + k, Should + k} /\ w # Should /\ k + 1 < Should
      BY <2>8, <3>2, <3>3, <3>4
    <3>6. w + 1 \in 0..2 * Should - 1
      BY <3>4, <3>5, Words
    <3>7. word[n] + 1 \in Word
      BY <3>4, <3>6 DEF Word
    <3> QED BY <3>2, <3>7
  <2>11. word'[n] = word[n] + 1 /\ word' \in [Nodes -> Word]
    BY <1>1, <2>2, <2>10, Words DEF TypeOK
  <2>12. TypeOK'
    BY <1>1, <1>2, <2>1, <2>3, <2>11 DEF TypeOK
  <2>13. \A m : Owned(m)' <=> Owned(m)
    BY <1>2 DEF Owned
  <2>14. ASSUME NEW m \in Nodes, m # n PROVE CountOf(m)'
    <3>1. word'[m] = word[m]
      BY <1>1, <2>2, <2>14 DEF TypeOK
    <3> QED BY <1>1, <2>1, <2>2, <2>4, <2>13, <2>14, <3>1, Elsewhere, SameCount DEF Counts
  <2>15. CountOf(n)'
    <3>1. ~By(n, Waiting)
      BY <1>1, <2>10 DEF Counts, CountOf
    <3>2. ~By(n, Waiting)' /\ (By(n, Counted)' <=> By(n, Counted))
      BY <1>2, <2>1, <2>3, <3>1 DEF By, Waiting, Counted
    <3>3. /\ Owned(n) => word[n] = Cardinality(Refs(n))
          /\ By(n, Counted) \/ n \in Listed => word[n] = 1 + Cardinality(Refs(n))
          /\ ~(Owned(n) \/ By(n, Counted) \/ n \in Listed) => word[n] = Should + Cardinality(Refs(n))
      BY <1>1, <3>1 DEF Counts, CountOf
    <3>4. /\ Owned(n) => word'[n] = Cardinality(Refs(n)')
          /\ By(n, Counted) \/ n \in Listed => word'[n] = 1 + Cardinality(Refs(n)')
          /\ ~(Owned(n) \/ By(n, Counted) \/ n \in Listed) => word'[n] = Should + Cardinality(Refs(n)')
      BY <2>8, <2>11, <3>3, Words
    <3> QED BY <2>4, <2>7, <2>13, <3>2, <3>4 DEF CountOf
  <2> QED BY <2>4, <2>5, <2>12, <2>14, <2>15 DEF IInv, Counts
<1> QED BY <1>3, <1>4

(* The thread that took a node owns it.                                     *)
LEMMA TakeNodeStep ==
  ASSUME IInv, NEW t \in Threads, TakeNode(t)
  PROVE  IInv'
<1>0. PICK n \in Nodes : n = Node(t)
  BY DEF TakeNode, Take, At, IInv, TypeOK
<1> USE <1>0
<1>1. TypeOK /\ OnePlace /\ Counts /\ Links
  BY DEF IInv
<1>2. /\ loc[t].pc = "take" /\ UNCHANGED <<top, next>> /\ Return(t)
      /\ word' = [word EXCEPT ![n] = (word[n] + (2 * Should - 2)) % (2 * Should)]
      /\ held' = [held EXCEPT ![t] = held[t] \cup {n}]
  BY DEF TakeNode, Take, At, FetchSub, FetchAdd
<1>3. PICK c \in Locals : Go(t, c) /\ c.pc = "idle"
  <2>1. Idle \in Locals /\ Idle.pc = "idle"
    BY Words DEF Idle, Locals, MaybeNode, Word
  <2> QED BY <1>2, <2>1 DEF Return
<1>4. /\ loc'[t] = c /\ \A s \in Threads \ {t} : loc'[s] = loc[s]
      /\ Node(t)' = c.node /\ \A s \in Threads \ {t} : Node(s)' = Node(s)
      /\ loc' \in [Threads -> Locals]
  BY <1>1, <1>3, Moves
<1>5. Links' /\ Listed' = Listed
  BY <1>1, <1>2, <1>3, SameLinks
<1>6. word[n] = 1 + Cardinality(Refs(n)) /\ Works(t) /\ ~Owned(n) /\ n \notin Listed
  BY <1>1, <1>2 DEF Counts, CountOf, By, Counted, Works, OnePlace
<1>7. /\ Refs(n)' = Refs(n) \ {t} /\ Cardinality(Refs(n)') \in Nat
      /\ Cardinality(Refs(n)) = Cardinality(Refs(n)') + 1 /\ Cardinality(Refs(n)) + 1 < Should
  BY <1>1, <1>2, <1>3, GivesBack DEF Referring
<1>8. word' \in [Nodes -> Word] /\ word'[n] = Cardinality(Refs(n)')
  <2>1. Cardinality(Refs(n)') \in Word
    BY <1>7, Words DEF Word
  <2>2. word[n] + (2 * Should - 2) = Cardinality(Refs(n)') + 2 * Should
    BY <1>6, <1>7, Words
  <2>3. (word[n] + (2 * Should - 2)) % (2 * Should) = Cardinality(Refs(n)')
    BY <2>1, <2>2, Words
  <2> QED BY <1>1, <1>2, <2>1, <2>3 DEF TypeOK
<1>9. /\ held' \in [Threads -> SUBSET Nodes]
      /\ held'[t] = held[t] \cup {n} /\ \A s \in Threads \ {t} : held'[s] = held[s]
  BY <1>1, <1>2 DEF TypeOK
<1>10. \A m : Owned(m)' <=> Owned(m) \/ m = n
  BY <1>9 DEF Owned
<1>11. OnePlace'
  <2>1. \A r, s \in Threads : r # s => held'[r] \cap held'[s] = {}
    BY <1>1, <1>6, <1>9 DEF OnePlace, Owned
  <2>2. ~Works(t)'
    BY <1>3, <1>4 DEF Works, Waiting, Counted
  <2>3. \A s \in Threads \ {t} : (Works(s)' <=> Works(s)) /\ (Works(s) => Node(s) # n)
    BY <1>1, <1>4, <1>6 DEF Works, OnePlace
  <2> QED BY <1>1, <1>4, <1>5, <1>6, <1>10, <2>1, <2>2, <2>3 DEF OnePlace
<1>12. TypeOK'
  BY <1>1, <1>2, <1>3, <1>4, <1>8, <1>9 DEF TypeOK
<1>13. ASSUME NEW m \in Nodes, m # n PROVE CountOf(m)'
  <2>1. word'[m] = word[m]
    BY <1>1, <1>2, <1>13 DEF TypeOK
  <2>2. c.node # m \/ c.pc \notin Referring \cup Waiting \cup Counted
    BY <1>3 DEF Referring, Waiting, Counted
  <2>3. Owned(m)' <=> Owned(m)
    BY <1>10, <1>13
  <2> QED BY <1>1, <1>3, <1>5, <1>13, <2>1, <2>2, <2>3, Elsewhere, SameCount DEF Counts
<1>14. CountOf(n)'
  <2>1. ~By(n, Waiting)' /\ ~By(n, Counted)'
    BY <1>1, <1>3, <1>4, <1>6, OnlyWorker DEF By, Waiting, Counted
  <2> QED BY <1>5, <1>6, <1>8, <1>10, <2>1 DEF CountOf
<1> QED BY <1>5, <1>11, <1>12, <1>13, <1>14 DEF IInv, Counts

(* A reference is given back; whoever gives back the last one of a node that*)
(* waits for it puts the node on the list.                                  *)
LEMMA DropRefStep ==
  ASSUME IInv, NEW t \in Threads, DropRef(t)
  PROVE  IInv'
<1>0. PICK n \in Nodes : n = Node(t)
  BY DEF DropRef, Drop, At, IInv, TypeOK
<1> USE <1>0
<1>1. TypeOK /\ OnePlace /\ Counts /\ Links
  BY DEF IInv
<1>2. /\ loc[t].pc = "drop" /\ UNCHANGED <<top, next, held>>
      /\ word' = [word EXCEPT ![n] = (word[n] + (2 * Should - 1)) % (2 * Should)]
  BY DEF DropRef, Drop, At, FetchSub, FetchAdd
<1>3. PICK c \in Locals :
        /\ Go(t, c)
        /\ \/ word[n] = Should + 1 /\ c.pc = "head" /\ c.node = n
           \/ word[n] # Should + 1 /\ c.pc \in {"idle", "refs"} /\ (c.pc # "idle" => c.node \in Nodes)
  <2>1. CASE word[n] = Should + 1
    <3>1. With(t, "head") \in Locals /\ With(t, "head").pc = "head" /\ With(t, "head").node = n
      BY <1>1 DEF TypeOK, Locals, With, Node, Waiting
    <3>2. Go(t, With(t, "head"))
      BY <2>1 DEF DropRef, Drop
    <3> QED BY <2>1, <3>1, <3>2
  <2>2. CASE word[n] # Should + 1
    <3>1. loc[t].then \in MaybeNode
      BY <1>1 DEF TypeOK, Locals
    <3>2. Leaves(t)
      BY <1>1, <2>2, <3>1, Leaving DEF DropRef, Drop
    <3> QED BY <2>2, <3>2 DEF Leaves
  <2> QED BY <2>1, <2>2
<1>4. /\ loc'[t] = c /\ \A s \in Threads \ {t} : loc'[s] = loc[s]
      /\ Node(t)' = c.node /\ \A s \in Threads \ {t} : Node(s)' = Node(s)
      /\ loc' \in [Threads -> Locals]
  BY <1>1, <1>3, Moves
<1>5. Links' /\ Listed' = Listed
  BY <1>1, <1>2, <1>3, SameLinks
<1>6. /\ t \in Refs(n) /\ Refs(n)' = Refs(n) \ {t} /\ Cardinality(Refs(n)') \in Nat
      /\ Cardinality(Refs(n)) = Cardinality(Refs(n)') + 1 /\ Cardinality(Refs(n)) + 1 < Should
      /\ (Cardinality(Refs(n)') = 0 <=> Refs(n)' = {})
  BY <1>1, <1>2, <1>3, GivesBack DEF Referring
<1>7. ~By(n, Waiting)
  BY <1>1, <1>6 DEF Counts, CountOf
<1>8. word[n] \in {Cardinality(Refs(n)), 1 + Cardinality(Refs(n)), Should + Cardinality(Refs(n))}
  BY <1>1, <1>7 DEF Counts, CountOf
<1>9. word' \in [Nodes -> Word] /\ word'[n] = word[n] - 1
  <2>1. word[n] - 1 \in Word
    BY <1>6, <1>8, Words DEF Word
  <2>2. word[n] + (2 * Should - 1) = (word[n] - 1) + 2 * Should
    BY <1>6, <1>8, Words
  <2>3. (word[n] + (2 * Should - 1)) % (2 * Should) = word[n] - 1
    BY <2>1, <2>2, Words
  <2> QED BY <1>1, <1>2, <2>1, <2>3 DEF TypeOK
<1>10. \A m : Owned(m)' <=> Owned(m)
  BY <1>2 DEF Owned
<1>11. word[n] = Should + 1 => ~Owned(n) /\ n \notin Listed /\ ~By(n, Counted) /\ Refs(n)' = {}
  <2>1. word[n] = Should + 1 => word[n] # Cardinality(Refs(n)) /\ word[n] # 1 + Cardinality(Refs(n))
    BY <1>6, <1>8, Words
  <2>2. word[n] = Should + 1 => ~Owned(n) /\ n \notin Listed /\ ~By(n, Counted)
    BY <1>1, <2>1 DEF Counts, CountOf
  <2>3. word[n] = Should + 1 => word[n] = Should + Cardinality(Refs(n))
    BY <1>8, <2>1
  <2>4. word[n] = Should + 1 => Cardinality(Refs(n)') = 0
    BY <1>6, <2>3, Words
  <2> QED BY <1>6, <2>2, <2>4
<1>12. OnePlace'
  <2>1. \A s \in Threads \ {t} : (Works(s)' <=> Works(s)) /\ (Works(s) => Node(s)' = Node(s))
    BY <1>4 DEF Works
  <2>2. Works(t)' => word[n] = Should + 1 /\ c.node = n
    BY <1>3, <1>4 DEF Works, Waiting, Counted
  <2>3. word[n] = Should + 1 => \A s \in Threads : Works(s) => Node(s) # n
    BY <1>7, <1>11 DEF By, Works
  <2> QED BY <1>1, <1>2, <1>4, <1>5, <1>10, <1>11, <2>1, <2>2, <2>3 DEF OnePlace
<1>13. TypeOK'
  BY <1>1, <1>2, <1>3, <1>4, <1>9 DEF TypeOK
<1>14. ASSUME NEW m \in Nodes, m # n PROVE CountOf(m)'
  <2>1. word'[m] = word[m]
    BY <1>1, <1>2, <1>14 DEF TypeOK
  <2>2. c.node # m \/ c.pc \notin Referring \cup Waiting \cup Counted
    BY <1>3, <1>14 DEF Referring, Waiting, Counted
  <2> QED BY <1>1, <1>3, <1>5, <1>10, <1>14, <2>1, <2>2, Elsewhere, SameCount DEF Counts
<1>15. CountOf(n)'
  <2>1. By(n, Counted)' <=> By(n, Counted)
    BY <1>2, <1>3, <1>4 DEF By, Counted
  <2>2. By(n, Waiting)' <=> word[n] = Should + 1
    BY <1>3, <1>4, <1>7 DEF By, Waiting
  <2>3. /\ Owned(n) => word[n] = Cardinality(Refs(n))
        /\ By(n, Counted) \/ n \in Listed => word[n] = 1 + Cardinality(Refs(n))
        /\ ~(Owned(n) \/ By(n, Counted) \/ n \in Listed) => word[n] = Should + Cardinality(Refs(n))
    BY <1>1, <1>7 DEF Counts, CountOf
  <2>4. /\ Owned(n) => word'[n] = Cardinality(Refs(n)')
        /\ By(n, Counted) \/ n \in Listed => word'[n] = 1 + Cardinality(Refs(n)')
        /\ ~(Owned(n) \/ By(n, Counted) \/ n \in Listed) => word'[n] = Should + Cardinality(Refs(n)')
        /\ word[n] = Should + 1 => word'[n] = Should
    <3>1. Should \in Nat /\ Cardinality(Refs(n)) \in Nat
      BY <1>6, Words
    <3>2. word[n] \in Nat
      BY <1>8, <3>1
    <3> DEFINE k == Cardinality(Refs(n))
               m == Cardinality(Refs(n)')
               w == word[n]
               v == word'[n]
    <3>3. k = m + 1 /\ m \in Nat /\ v = w - 1 /\ w \in Nat
      BY <1>6, <1>9, <3>2
    <3>4. /\ Owned(n) => w = k
          /\ By(n, Counted) \/ n \in Listed => w = 1 + k
          /\ ~(Owned(n) \/ By(n, Counted) \/ n \in Listed) => w = Should + k
      BY <2>3
    <3> HIDE DEF k, m, w, v
    <3>5. w = k => v = m
      BY <3>3
    <3>6. w = 1 + k => v = 1 + m
      BY <3>3
    <3>7. (w = Should + k => v = Should + m) /\ (w = Should + 1 => v = Should)
      BY <3>1, <3>3
    <3>8. /\ Owned(n) => v = m
          /\ By(n, Counted) \/ n \in Listed => v = 1 + m
          /\ ~(Owned(n) \/ By(n, Counted) \/ n \in Listed) => v = Should + m
      BY <3>4, <3>5, <3>6, <3>7
    <3> QED BY <3>7, <3>8 DEF k, m, w, v
  <2>5. ~(Owned(n) \/ By(n, Counted) \/ n \in Listed) /\ Refs(n)' = {} => word[n] = Should + 1
    BY <1>6, <2>3, Words
  <2> QED BY <1>5, <1>10, <1>11, <2>1, <2>2, <2>4, <2>5 DEF CountOf
<1> QED BY <1>5, <1>12, <1>13, <1>14, <1>15 DEF IInv, Counts

(* A thread gives a node up to the list.                                    *)
LEMMA AddStep ==
  ASSUME IInv, NEW t \in Threads, Add(t)
  PROVE  IInv'
<1>1. TypeOK /\ OnePlace /\ Counts /\ Links
  BY DEF IInv
<1>0. PICK n \in held[t] :
        /\ word' = [word EXCEPT ![n] = (word[n] + Should) % (2 * Should)]
        /\ held' = [held EXCEPT ![t] = @ \ {n}]
        /\ IF word[n] = 0 THEN Go(t, [With(t, "head") EXCEPT !.node = n]) ELSE UNCHANGED loc
  BY DEF Add, FetchAdd
<1>2. loc[t].pc = "idle" /\ UNCHANGED <<top, next>> /\ n \in Nodes
  BY <1>1 DEF Add, At, TypeOK
<1>3. PICK c \in Locals :
        /\ Go(t, c)
        /\ \/ word[n] = 0 /\ c.pc = "head" /\ c.node = n
           \/ word[n] # 0 /\ c.pc = "idle"
  <2>1. CASE word[n] = 0
    <3> DEFINE c == [With(t, "head") EXCEPT !.node = n]
    <3>1. c \in Locals /\ c.pc = "head" /\ c.node = n
      BY <1>1, <1>2 DEF TypeOK, Locals, With, Waiting, MaybeNode
    <3>2. Go(t, c)
      BY <1>0, <2>1
    <3> HIDE DEF c
    <3> QED BY <2>1, <3>1, <3>2
  <2>2. CASE word[n] # 0
    <3>1. Go(t, loc[t]) /\ loc[t] \in Locals
      BY <1>0, <1>1, <2>2 DEF Go, TypeOK
    <3> QED BY <1>2, <2>2, <3>1
  <2> QED BY <2>1, <2>2
<1>4. /\ loc'[t] = c /\ \A s \in Threads \ {t} : loc'[s] = loc[s]
      /\ Node(t)' = c.node /\ \A s \in Threads \ {t} : Node(s)' = Node(s)
      /\ loc' \in [Threads -> Locals]
  BY <1>1, <1>3, Moves
<1>5. Links' /\ Listed' = Listed
  BY <1>1, <1>2, <1>3, SameLinks
<1>6. /\ Owned(n) /\ n \notin Listed /\ \A s \in Threads : Works(s) => Node(s) # n
      /\ word[n] = Cardinality(Refs(n))
  BY <1>1, <1>2 DEF OnePlace, Owned, Counts, CountOf
<1>7. /\ Refs(n) \in SUBSET Threads /\ Cardinality(Refs(n)) \in Nat
      /\ Cardinality(Refs(n)) + 1 < Should /\ (Cardinality(Refs(n)) = 0 <=> Refs(n) = {})
  <2>1. Refs(n) \in SUBSET Threads
    BY DEF Refs
  <2> QED BY <2>1, RefCount
<1>8. word' \in [Nodes -> Word] /\ word'[n] = Should + Cardinality(Refs(n))
  <2>1. Cardinality(Refs(n)) + Should \in Word
    BY <1>7, Words DEF Word
  <2>2. (word[n] + Should) % (2 * Should) = Cardinality(Refs(n)) + Should
    BY <1>6, <2>1, Words
  <2>3. word'[n] = Cardinality(Refs(n)) + Should /\ word' \in [Nodes -> Word]
    BY <1>0, <1>1, <1>2, <2>1, <2>2 DEF TypeOK
  <2>4. Cardinality(Refs(n)) + Should = Should + Cardinality(Refs(n))
    BY <1>7, Words
  <2> QED BY <2>3, <2>4
<1>9. /\ held' \in [Threads -> SUBSET Nodes]
      /\ held'[t] = held[t] \ {n} /\ \A s \in Threads \ {t} : held'[s] = held[s]
  BY <1>0, <1>1 DEF TypeOK
<1>10. \A m : Owned(m)' <=> Owned(m) /\ m # n
  <2>1. \A s \in Threads \ {t} : n \notin held[s]
    BY <1>1 DEF OnePlace
  <2> QED BY <1>9, <2>1 DEF Owned
<1>11. OnePlace'
  <2>1. \A r, s \in Threads : r # s => held'[r] \cap held'[s] = {}
    BY <1>1, <1>9 DEF OnePlace
  <2>2. \A s \in Threads \ {t} : (Works(s)' <=> Works(s)) /\ (Works(s) => Node(s) # n)
    BY <1>4, <1>6 DEF Works
  <2>3. Works(t)' => c.node = n
    BY <1>3, <1>4 DEF Works, Waiting, Counted
  <2> QED BY <1>1, <1>4, <1>5, <1>6, <1>10, <2>1, <2>2, <2>3 DEF OnePlace
<1>12. TypeOK'
  BY <1>1, <1>2, <1>3, <1>4, <1>8, <1>9 DEF TypeOK
<1>13. ASSUME NEW m \in Nodes, m # n PROVE CountOf(m)'
  <2>1. word'[m] = word[m]
    BY <1>0, <1>1, <1>13 DEF TypeOK
  <2>2. c.node # m \/ c.pc \notin Referring \cup Waiting \cup Counted
    BY <1>3, <1>13 DEF Referring, Waiting, Counted
  <2>3. loc[t].pc \notin Referring \cup Waiting \cup Counted
    BY <1>2 DEF Referring, Waiting, Counted
  <2>4. Owned(m)' <=> Owned(m)
    BY <1>10, <1>13
  <2> QED BY <1>1, <1>3, <1>5, <1>13, <2>1, <2>2, <2>3, <2>4, Elsewhere, SameCount DEF Counts
<1>14. CountOf(n)'
  <2>1. Refs(n)' = Refs(n)
    <3>1. \A s \in Threads : Node(s)' = n /\ loc'[s].pc \in Referring <=> Node(s) = n /\ loc[s].pc \in Referring
      BY <1>2, <1>3, <1>4 DEF Referring
    <3>2. Refs(n)' = {s \in Threads : Node(s)' = n /\ loc'[s].pc \in Referring}
      BY DEF Refs
    <3> QED BY <3>1, <3>2 DEF Refs
  <2>2. ~By(n, Counted)' /\ (By(n, Waiting)' <=> word[n] = 0)
    BY <1>3, <1>4, <1>6 DEF By, Waiting, Counted, Works
  <2>3. word[n] = 0 <=> Refs(n) = {}
    BY <1>6, <1>7
  <2>4. word[n] = 0 => word'[n] = Should
    BY <1>6, <1>8, Words
  <2> QED BY <1>5, <1>6, <1>8, <1>10, <2>1, <2>2, <2>3, <2>4 DEF CountOf
<1> QED BY <1>5, <1>11, <1>12, <1>13, <1>14 DEF IInv, Counts
-------------------------------------------------------------------------------
(* The invariant holds.                                                     *)

(* It holds when the threads own all nodes.                                 *)
LEMMA InitIInv == Init => IInv
<1> SUFFICES ASSUME Init PROVE IInv
  OBVIOUS
<1>1. PICK owner \in [Nodes -> Threads] : held = [t \in Threads |-> {n \in Nodes : owner[n] = t}]
  BY DEF Init
<1>2. /\ top = NoNode /\ word = [n \in Nodes |-> 0] /\ next = [n \in Nodes |-> NoNode]
      /\ loc = [t \in Threads |-> Idle]
  BY DEF Init
<1>3. Idle \in Locals /\ Idle.pc = "idle" /\ 0 \in Word
  BY Words DEF Idle, Locals, MaybeNode, Word
<1>4. TypeOK
  BY <1>1, <1>2, <1>3 DEF TypeOK, MaybeNode
<1>5. Listed = {}
  BY <1>2, <1>4, ChainNone DEF Listed, TypeOK
<1>6. \A t \in Threads : loc[t].pc = "idle"
  BY <1>2, <1>3
<1>7. \A n \in Nodes : Owned(n) /\ Refs(n) = {} /\ ~By(n, Waiting) /\ ~By(n, Counted) /\ word[n] = 0
  BY <1>1, <1>2, <1>6 DEF Owned, Refs, By, Referring, Waiting, Counted
<1>8. Counts
  BY <1>5, <1>7, FS_EmptySet DEF Counts, CountOf
<1>9. OnePlace
  BY <1>1, <1>5, <1>6 DEF OnePlace, Works, Waiting, Counted
<1>10. Links
  BY <1>5, <1>6 DEF Links
<1> QED BY <1>4, <1>8, <1>9, <1>10 DEF IInv

(* Every step preserves it.                                                 *)
LEMMA NextIInv == IInv /\ [Next]_vars => IInv'
<1> SUFFICES ASSUME IInv, [Next]_vars PROVE IInv'
  OBVIOUS
<1>1. CASE Next
  BY <1>1, AddStep, LoadHeadStep, LinkStep, SetCountStep, PushStep, RepushStep, LoadTopStep,
     LoadRefsStep, AddRefStep, LoadNextStep, PopStep, TakeNodeStep, DropRefStep DEF Next
<1>2. CASE UNCHANGED vars
  BY <1>2 DEF vars, IInv, TypeOK, OnePlace, Counts, CountOf, Links, Listed, Owned, By, Works, Refs, Node
<1> QED BY <1>1, <1>2

(* The inductive invariant is an invariant.                                 *)
LEMMA Invariance == Spec => []IInv
BY InitIInv, NextIInv, PTL DEF Spec

(* The invariant says that a node is at one place.                          *)
LEMMA IInvOnlyOnce ==
  ASSUME IInv
  PROVE  OnlyOnce
<1>1. \A s, t \in Threads : s # t => held[s] \cap held[t] = {}
  BY DEF IInv, OnePlace
<1>2. \A t \in Threads : held[t] \cap Chain(top) = {}
  BY Chains DEF IInv, OnePlace, TypeOK, Owned, Listed
<1>3. ASSUME NEW t \in Threads, At(t, "take") PROVE word[Node(t)] < Should
  <2>1. PICK n \in Nodes : n = Node(t)
    BY <1>3 DEF IInv, TypeOK, At
  <2>2. word[n] = 1 + Cardinality(Refs(n))
    BY <1>3, <2>1 DEF IInv, Counts, CountOf, By, Counted, At
  <2>3. Refs(n) \in SUBSET Threads
    BY DEF Refs
  <2>4. Cardinality(Refs(n)) \in Nat /\ Cardinality(Refs(n)) + 1 < Should
    BY <2>3, RefCount
  <2> QED BY <2>1, <2>2, <2>4
<1> QED BY <1>1, <1>2, <1>3 DEF OnlyOnce

(* And that it is somewhere when no thread works.                           *)
LEMMA IInvNothingLost ==
  ASSUME IInv
  PROVE  NothingLost
<1> SUFFICES ASSUME \A t \in Threads : At(t, "idle")
             PROVE  Nodes = Chain(top) \cup UNION {held[t] : t \in Threads}
  BY DEF NothingLost
<1>1. ASSUME NEW n \in Nodes PROVE n \in Listed \/ Owned(n)
  <2>1. Refs(n) = {} /\ ~By(n, Waiting) /\ ~By(n, Counted)
    BY DEF At, Refs, By, Referring, Waiting, Counted
  <2> QED BY <2>1 DEF IInv, Counts, CountOf
<1>2. Listed = Chain(top) /\ Listed \subseteq Nodes
  BY Chains DEF Listed, ChainOf
<1>3. \A t \in Threads : held[t] \subseteq Nodes
  BY DEF IInv, TypeOK
<1> QED BY <1>1, <1>2, <1>3 DEF Owned

(* try_get returns no block twice and none that is still linked, although   *)
(* the thread that pops it may have read its successor long ago             *)
(* (concurrentqueue.h:1466), for any number of threads and nodes, if the    *)
(* count of references cannot reach the top bit.                            *)
THEOREM HandedOutOnce == Spec => []OnlyOnce
BY IInvOnlyOnce, Invariance, PTL

(* Blocks given to add (concurrentqueue.h:1438) are on the list when no call*)
(* runs, whichever thread had to put them there.                            *)
THEOREM NoBlockLost == Spec => []NothingLost
BY IInvNothingLost, Invariance, PTL
===============================================================================
