---------------------------- MODULE CommsV2Proofs ----------------------------
(***************************************************************************)
(* No packet of comms_v2 is lost on its way through buffer, queues and     *)
(* threads, and nothing is left anywhere when the driver has drained the   *)
(* layer: for any number of writers and readers and all sizes.             *)
(***************************************************************************)
EXTENDS CommsV2, FiniteSetTheorems, TLAPS

(* The types of what counts packets.                                        *)
Lengths == [len : Nat, off : Nat]
TypeOK ==
  /\ dst \in {"local", "remote"}
  /\ main \in [pc : {"create", "await", "submit", "reap", "drain", "stop", "join", "done"},
               left : Nat]
  /\ submitted \in Nat /\ reaped \in Nat /\ buffer \in Nat
  /\ sent \in Lengths /\ back \in [Movers -> Lengths] /\ hands \in [Movers -> Nat]

(* Every submission not reaped is somewhere.                                *)
Partial == IF At("submit") THEN packet_count - main.left ELSE 0
Balance ==
  /\ At("submit") => main.left <= packet_count
  /\ At("create") \/ At("await") => submitted = 0 /\ reaped = 0
  /\ submitted - reaped + Partial = Travelling

(* The layer is shut down when all is reaped.                               *)
Over == At("stop") \/ At("join") \/ At("done")
Emptied == Over => reaped >= submitted

IInv == TypeOK /\ Balance /\ Emptied
-------------------------------------------------------------------------------
(* Totals.                                                                  *)

Units(f) == UNION {{p} \X (1..f[p]) : p \in DOMAIN f}

(* They are natural numbers.                                                *)
LEMMA TotalNat ==
  ASSUME NEW S, IsFiniteSet(S), NEW f \in [S -> Nat]
  PROVE  IsFiniteSet(Units(f)) /\ Total(f) = Cardinality(Units(f)) /\ Total(f) \in Nat
<1> DEFINE F == [c \in S |-> {c} \X (1..f[c])]
           T == {F[c] : c \in S}
<1>1. IsFiniteSet(T)
  <2>1. F \in Surjection(S, T)
    BY DEF Surjection
  <2> QED BY <2>1, FS_Surjection
<1>2. ASSUME NEW c \in S PROVE IsFiniteSet({c} \X (1..f[c]))
  <2>1. IsFiniteSet({c})
    BY FS_Singleton
  <2>2. f[c] \in Int /\ 1 \in Int
    OBVIOUS
  <2>3. IsFiniteSet(1..f[c])
    BY <2>2, FS_Interval
  <2> QED BY <2>1, <2>3, FS_Product
<1>3. \A U \in T : IsFiniteSet(U)
  BY <1>2
<1>4. IsFiniteSet(UNION T)
  BY <1>1, <1>3, FS_UNION
<1>5. Units(f) = UNION T
  BY DEF Units
<1> HIDE DEF T
<1>6. IsFiniteSet(Units(f))
  BY <1>4, <1>5
<1>7. Total(f) = Cardinality(Units(f))
  BY DEF Total, Units
<1> QED BY <1>6, <1>7, FS_CardinalityType

(* The total of a sum is the sum of the totals: the units of g go behind    *)
(* those of f.                                                              *)
LEMMA TotalSum ==
  ASSUME NEW S, IsFiniteSet(S), NEW f \in [S -> Nat], NEW g \in [S -> Nat],
         NEW h \in [S -> Nat], \A c \in S : h[c] = f[c] + g[c]
  PROVE  Total(h) = Total(f) + Total(g)
<1> DEFINE R == UNION {{c} \X (f[c] + 1 .. h[c]) : c \in S}
           B == [u \in Units(g) |-> <<u[1], u[2] + f[u[1]]>>]
<1>1. Units(h) = Units(f) \cup R /\ Units(f) \cap R = {}
  <2>1. ASSUME NEW c \in S PROVE 1..h[c] = (1..f[c]) \cup (f[c] + 1 .. h[c])
    OBVIOUS
  <2>2. ASSUME NEW c \in S PROVE (1..f[c]) \cap (f[c] + 1 .. h[c]) = {}
    OBVIOUS
  <2> QED BY <2>1, <2>2 DEF Units
<1>2. B \in Bijection(Units(g), R)
  <2>1. ASSUME NEW u \in Units(g)
        PROVE  u[1] \in S /\ u[2] \in 1..g[u[1]] /\ u = <<u[1], u[2]>>
    BY DEF Units
  <2>2. ASSUME NEW u \in Units(g) PROVE B[u] \in R
    <3>1. u[1] \in S /\ u[2] \in 1..g[u[1]] /\ f[u[1]] \in Nat /\ g[u[1]] \in Nat
      BY <2>1
    <3>2. u[2] + f[u[1]] \in f[u[1]] + 1 .. h[u[1]]
      BY <3>1
    <3> QED BY <3>1, <3>2
  <2>3. ASSUME NEW u \in Units(g), NEW v \in Units(g), B[u] = B[v] PROVE u = v
    <3>1. u[1] = v[1] /\ u[2] + f[u[1]] = v[2] + f[u[1]]
      BY <2>3
    <3>2. u[2] \in Nat /\ v[2] \in Nat /\ f[u[1]] \in Nat
      BY <2>1
    <3> QED BY <2>1, <3>1, <3>2
  <2>4. ASSUME NEW r \in R PROVE \E u \in Units(g) : B[u] = r
    <3>1. PICK c \in S : r \in {c} \X (f[c] + 1 .. h[c])
      OBVIOUS
    <3>2. r = <<c, r[2]>> /\ r[2] \in f[c] + 1 .. h[c] /\ f[c] \in Nat /\ g[c] \in Nat
      BY <3>1
    <3>3. r[2] - f[c] \in 1..g[c] /\ r[2] - f[c] + f[c] = r[2]
      BY <3>2
    <3>4. <<c, r[2] - f[c]>> \in Units(g)
      BY <3>3 DEF Units
    <3> QED BY <3>2, <3>3, <3>4
  <2> HIDE DEF R
  <2>5. B \in [Units(g) -> R]
    BY <2>2
  <2> HIDE DEF B
  <2> QED BY <2>3, <2>4, <2>5 DEF Bijection, Injection, Surjection, IsInjective
<1>3. IsFiniteSet(Units(f)) /\ IsFiniteSet(Units(g)) /\ Total(f) = Cardinality(Units(f))
      /\ Total(g) = Cardinality(Units(g)) /\ Total(h) = Cardinality(Units(h))
      /\ Total(f) \in Nat /\ Total(g) \in Nat
  BY TotalNat
<1>4. IsFiniteSet(R) /\ Cardinality(R) = Cardinality(Units(g))
  BY <1>2, <1>3, FS_Bijection DEF ExistsBijection
<1> HIDE DEF R, B
<1>5. Cardinality(Units(f) \cup R)
        = Cardinality(Units(f)) + Cardinality(R) - Cardinality(Units(f) \cap R)
  BY <1>3, <1>4, FS_Union
<1>6. Cardinality(Units(f) \cap R) = 0
  BY <1>1, FS_EmptySet
<1>7. Total(h) = Total(f) + Total(g) - 0
  BY <1>1, <1>3, <1>4, <1>5, <1>6
<1> QED BY <1>3, <1>7

(* One value, and bounded values on a part of the domain.                   *)
LEMMA TotalBound ==
  ASSUME NEW S, IsFiniteSet(S), NEW f \in [S -> Nat], NEW T \in SUBSET S, NEW k \in Nat,
         \A c \in T : f[c] <= k, \A c \in S \ T : f[c] = 0
  PROVE  /\ Total(f) <= k * Cardinality(T) /\ Cardinality(T) \in Nat
         /\ (\A c \in T : f[c] = k) => Total(f) = k * Cardinality(T)
<1> DEFINE I == 1..k
<1>1. IsFiniteSet(T) /\ Cardinality(T) \in Nat
  BY FS_Subset, FS_CardinalityType
<1>2. IsFiniteSet(I) /\ Cardinality(I) = k
  <2>1. 1 \in Int /\ k \in Int
    OBVIOUS
  <2>2. IsFiniteSet(1..k) /\ Cardinality(1..k) = IF 1 > k THEN 0 ELSE k - 1 + 1
    BY <2>1, FS_Interval
  <2> QED BY <2>2
<1>3. \A c \in S : c \notin T => 1..f[c] = {}
  OBVIOUS
<1>4. \A c \in T : 1..f[c] \subseteq I
  OBVIOUS
<1>5. Units(f) \subseteq T \X I
  BY <1>3, <1>4 DEF Units
<1>6. (\A c \in T : f[c] = k) => Units(f) = T \X I
  BY <1>3 DEF Units
<1> HIDE DEF I
<1>7. IsFiniteSet(T \X I) /\ Cardinality(T \X I) = Cardinality(T) * Cardinality(I)
  BY <1>1, <1>2, FS_Product
<1>8. Cardinality(Units(f)) <= Cardinality(T \X I)
  BY <1>5, <1>7, FS_Subset
<1>9. Total(f) = Cardinality(Units(f))
  BY TotalNat
<1>10. Cardinality(T) * Cardinality(I) = k * Cardinality(T)
  BY <1>1, <1>2
<1> QED BY <1>1, <1>6, <1>7, <1>8, <1>9, <1>10

(* One value raised by n.                                                   *)
LEMMA TotalAdd ==
  ASSUME NEW S, IsFiniteSet(S), NEW f \in [S -> Nat], NEW p \in S, NEW n \in Nat,
         NEW h \in [S -> Nat], h[p] = f[p] + n, \A c \in S \ {p} : h[c] = f[c]
  PROVE  Total(h) = Total(f) + n
<1> DEFINE g == [c \in S |-> IF c = p THEN n ELSE 0]
<1>1. g \in [S -> Nat] /\ g[p] = n /\ \A c \in S \ {p} : g[c] = 0
  OBVIOUS
<1> HIDE DEF g
<1>2. \A c \in S : h[c] = f[c] + g[c]
  BY <1>1
<1>3. Total(h) = Total(f) + Total(g)
  BY <1>1, <1>2, TotalSum
<1>4. Cardinality({p}) = 1 /\ {p} \in SUBSET S
  BY FS_Singleton
<1>5. \A c \in {p} : g[c] = n /\ g[c] <= n
  BY <1>1
<1>6. Total(g) = n * Cardinality({p})
  BY <1>1, <1>4, <1>5, TotalBound
<1>7. Total(g) = n
  BY <1>4, <1>6
<1> QED BY <1>3, <1>7

-------------------------------------------------------------------------------
(* Steps.                                                                   *)

LEMMA Finite == IsFiniteSet(Movers) /\ catcher \in Movers /\ Writers \subseteq Movers
<1>1. IsFiniteSet(Writers)
  BY CommsV2Assumption, FS_Subset
<1> QED BY <1>1, FS_AddElement DEF Movers

Lens == [p \in Movers |-> back[p].len]
LEMMA Sums ==
  ASSUME TypeOK
  PROVE  /\ Lens \in [Movers -> Nat] /\ Waiting = Total(Lens)
         /\ Waiting \in Nat /\ Total(hands) \in Nat /\ Travelling \in Nat
         /\ Travelling = buffer + sent.len + Waiting + Total(hands)
<1>1. Lens \in [Movers -> Nat] /\ hands \in [Movers -> Nat] /\ buffer \in Nat /\ sent.len \in Nat
  BY DEF TypeOK, Lengths, Lens
<1>2. Waiting = Total(Lens)
  BY DEF Waiting, Lens
<1>3. Total(Lens) \in Nat /\ Total(hands) \in Nat
  BY <1>1, Finite, TotalNat
<1> QED BY <1>1, <1>2, <1>3 DEF Travelling

(* What the counts leave when the packets stay where they are.              *)
LEMMA Still ==
  ASSUME UNCHANGED <<buffer, sent, back, hands>>
  PROVE  Travelling' = Travelling /\ Waiting' = Waiting
BY DEF Travelling, Waiting

LEMMA InitIInv ==
  ASSUME Init
  PROVE  IInv
<1>1. TypeOK
  BY DEF Init, TypeOK, Lengths, Nothing
<1>2. Waiting = 0 /\ Total(hands) = 0
  <2>1. Units(Lens) = {} /\ Units(hands) = {}
    BY DEF Init, Units, Nothing, Lens
  <2>2. Total(Lens) = 0 /\ Total(hands) = 0
    BY <1>1, <2>1, Sums, Finite, TotalNat, FS_EmptySet DEF TypeOK
  <2> QED BY <1>1, <2>2, Sums
<1>3. Travelling = 0
  BY <1>1, <1>2, Sums DEF Init, Nothing
<1>4. Balance /\ Emptied
  BY <1>3 DEF Balance, Emptied, Partial, Over, At, Init
<1> QED BY <1>1, <1>4 DEF IInv

(* The driver goes on, with all packets where they are.                     *)
LEMMA DriverMoves ==
  ASSUME IInv, Start \/ Started \/ Submitted \/ Shutdown \/ Stopped \/ Join
  PROVE  IInv'
<1>1. packet_count \in Nat \ {0}
  BY CommsV2Assumption
<1>2. TypeOK /\ submitted \in Nat /\ reaped \in Nat /\ main.left \in Nat
  BY DEF IInv, TypeOK
<1>3. UNCHANGED <<dst, reaped, buffer, sent, back, hands>>
  BY DEF Start, Started, Submitted, Shutdown, Stopped, Join, packets
<1>4. Travelling' = Travelling
  BY <1>3, Still
<1>5. CASE Start
  <2>1. At("create") /\ main' = [main EXCEPT !.pc = "await"] /\ submitted' = submitted
    BY <1>5 DEF Start, Go, packets
  <2>2. main' \in [pc : {"await"}, left : Nat] /\ At("await")'
    BY <2>1 DEF IInv, TypeOK, At
  <2>3. TypeOK'
    BY <1>3, <2>1, <2>2 DEF IInv, TypeOK
  <2> QED BY <1>3, <1>4, <2>1, <2>2, <2>3 DEF IInv, Balance, Partial, Emptied, Over, At
<1>6. CASE Started
  <2>1. At("await") /\ main' = [pc |-> "submit", left |-> packet_count] /\ submitted' = submitted
    BY <1>6 DEF Started, packets
  <2>2. TypeOK'
    BY <1>1, <1>3, <2>1 DEF IInv, TypeOK
  <2> QED BY <1>1, <1>3, <1>4, <2>1, <2>2 DEF IInv, Balance, Partial, Emptied, Over, At
<1>7. CASE Submitted
  <2>1. At("submit") /\ main.left = 0 /\ submitted' = submitted + packet_count
    BY <1>7 DEF Submitted
  <2>2. \/ main' = [main EXCEPT !.left = packet_count]
        \/ main' = [pc |-> "reap", left |-> 0] \/ main' = [pc |-> "drain", left |-> 0]
    BY <1>7 DEF Submitted
  <2>3. \/ main' = [pc |-> "submit", left |-> packet_count]
        \/ main' = [pc |-> "reap", left |-> 0] \/ main' = [pc |-> "drain", left |-> 0]
    BY <2>1, <2>2 DEF At, IInv, TypeOK
  <2>4. TypeOK'
    BY <1>1, <1>2, <1>3, <2>1, <2>3 DEF IInv, TypeOK
  <2>5. submitted - reaped + packet_count = Travelling
    BY <1>1, <1>2, <2>1 DEF IInv, Balance, Partial
  <2>6. Partial' = 0
    BY <1>1, <2>3 DEF Partial, At
  <2>7. submitted' - reaped' + Partial' = Travelling'
    BY <1>1, <1>2, <1>3, <1>4, <2>1, <2>5, <2>6
  <2>8. Balance' /\ Emptied'
    BY <1>1, <2>3, <2>7 DEF Balance, Emptied, Over, At
  <2> QED BY <2>4, <2>8 DEF IInv
<1>8. CASE Shutdown \/ Stopped \/ Join
  <2>1. PICK l \in {"stop", "join", "done"} : main' = [main EXCEPT !.pc = l]
    BY <1>8 DEF Shutdown, Stopped, Join, Go
  <2>2. main' \in [pc : {"stop", "join", "done"}, left : Nat]
    BY <2>1 DEF IInv, TypeOK
  <2>3. submitted' = submitted /\ ~At("submit") /\ reaped >= submitted
    BY <1>8 DEF Shutdown, Stopped, Join, packets, IInv, Emptied, Over, At, Drained
  <2>4. TypeOK'
    BY <1>3, <2>2, <2>3 DEF IInv, TypeOK
  <2>5. ~At("submit")' /\ ~At("create")' /\ ~At("await")'
    BY <2>2 DEF At
  <2> QED BY <1>2, <1>3, <1>4, <2>3, <2>4, <2>5 DEF IInv, Balance, Partial, Emptied
<1> QED BY <1>5, <1>6, <1>7, <1>8

(* A packet goes into the buffer, or the buffer into the queue.             *)
LEMMA SubmitKeeps ==
  ASSUME IInv, Submit
  PROVE  IInv' /\ Travelling' = Travelling + 1 /\ Waiting' = Waiting
<1>1. /\ packet_count \in Nat \ {0} /\ accessor_buffer_size \in Nat \ {0}
  BY CommsV2Assumption
<1>2. TypeOK /\ submitted \in Nat /\ reaped \in Nat /\ main.left \in Nat /\ buffer \in Nat
      /\ sent.len \in Nat
  BY DEF IInv, TypeOK, Lengths
<1>3. UNCHANGED <<dst, submitted, reaped, back, hands>> /\ At("submit") /\ main.left > 0
      /\ main' = [main EXCEPT !.left = @ - 1]
  BY DEF Submit
<1>4. main' = [pc |-> "submit", left |-> main.left - 1]
  BY <1>3 DEF At, IInv, TypeOK
<1>5. \/ buffer + 1 = accessor_buffer_size /\ buffer' = 0
           /\ sent' = [sent EXCEPT !.len = @ + accessor_buffer_size]
      \/ buffer' = buffer + 1 /\ sent' = sent
  BY DEF Submit, Enqueue
<1>6. buffer' \in Nat /\ sent' \in Lengths /\ buffer' + sent'.len = buffer + sent.len + 1
  BY <1>1, <1>2, <1>5 DEF IInv, TypeOK, Lengths
<1>7. TypeOK'
  BY <1>2, <1>3, <1>4, <1>6 DEF IInv, TypeOK
<1>8. Waiting' = Waiting /\ Total(hands)' = Total(hands)
  BY <1>3 DEF Waiting
<1>9. Waiting \in Nat /\ Total(hands) \in Nat
      /\ Travelling = buffer + sent.len + Waiting + Total(hands)
  BY <1>2, Sums
<1>10. Travelling' = buffer' + sent'.len + Waiting' + Total(hands)'
  BY DEF Travelling
<1>11. Travelling' = Travelling + 1
  <2>1. sent'.len \in Nat
    BY <1>6 DEF Lengths
  <2> QED BY <1>2, <1>6, <1>8, <1>9, <1>10, <2>1
<1>12. main.left <= packet_count /\ submitted - reaped + (packet_count - main.left) = Travelling
  BY <1>3 DEF IInv, Balance, Partial
<1>13. Partial' = packet_count - (main.left - 1) /\ main'.left <= packet_count /\ At("submit")'
  BY <1>1, <1>2, <1>4, <1>12 DEF Partial, At
<1>14. Balance' /\ Emptied'
  BY <1>1, <1>2, <1>3, <1>9, <1>11, <1>12, <1>13 DEF Balance, Emptied, Over, At
<1> QED BY <1>7, <1>8, <1>11, <1>14 DEF IInv

(* What is reaped leaves the queue and is counted.                          *)
LEMMA ReapCounts ==
  ASSUME TypeOK, NEW n \in Nat, Reap(n)
  PROVE  /\ n = Reapable /\ UNCHANGED <<dst, submitted, buffer, sent, hands>>
         /\ back' \in [Movers -> Lengths] /\ reaped' = reaped + n
         /\ Waiting = Waiting' + n /\ Waiting' \in Nat
         /\ Travelling = Travelling' + n /\ Travelling' \in Nat
<1>1. n = Reapable /\ reaped' = reaped + n /\ UNCHANGED <<dst, submitted, buffer, sent, hands>>
  BY DEF Reap
<1>2. PICK part \in [Movers -> 0..n] :
        /\ Total(part) = n /\ \A p \in Movers : part[p] <= back[p].len
        /\ back' = [p \in Movers |-> Dequeue(back[p], part[p])]
  BY DEF Reap
<1>3. BLOCK_SIZE \in Nat \ {0}
  BY CommsV2Assumption
<1>4. ASSUME NEW p \in Movers
      PROVE  /\ back'[p] \in Lengths /\ back'[p].len \in Nat
             /\ back[p].len = back'[p].len + part[p]
  <2>1. back[p].len \in Nat /\ back[p].off \in Nat /\ part[p] \in Nat /\ part[p] <= back[p].len
    BY <1>2 DEF TypeOK, Lengths
  <2>2. back'[p] = [len |-> back[p].len - part[p], off |-> (back[p].off + part[p]) % BLOCK_SIZE]
    BY <1>2 DEF Dequeue
  <2>3. (back[p].off + part[p]) % BLOCK_SIZE \in Nat
    BY <1>3, <2>1
  <2> QED BY <2>1, <2>2, <2>3 DEF Lengths
<1>5. back' \in [Movers -> Lengths]
  BY <1>2, <1>4
<1>6. Lens' \in [Movers -> Nat] /\ Lens \in [Movers -> Nat] /\ part \in [Movers -> Nat]
  BY <1>2, <1>4, Sums DEF Lens
<1>7. \A p \in Movers : Lens[p] = Lens'[p] + part[p]
  BY <1>4 DEF Lens
<1>8. Total(Lens) = Total(Lens') + Total(part)
  BY <1>6, <1>7, Finite, TotalSum
<1>9. Waiting' = Total(Lens') /\ Total(Lens') \in Nat
  <2>1. Waiting' = Total(Lens')
    BY DEF Waiting, Lens
  <2>2. Total(Lens') \in Nat
    BY <1>6, Finite, TotalNat
  <2> QED BY <2>1, <2>2
<1>10. Waiting = Waiting' + n /\ Waiting' \in Nat
  BY <1>2, <1>8, <1>9, Sums
<1>11. /\ Travelling = buffer + sent.len + Waiting + Total(hands)
       /\ Travelling' = buffer + sent.len + Waiting' + Total(hands)
       /\ Total(hands) \in Nat
  BY <1>1, Sums DEF Travelling
<1>12. Travelling = Travelling' + n /\ Travelling' \in Nat
  BY <1>10, <1>11 DEF TypeOK, Lengths
<1> QED BY <1>1, <1>5, <1>10, <1>12

LEMMA ReapKeeps ==
  ASSUME IInv, Resubmit \/ Drain
  PROVE  IInv'
<1>1. packet_count \in Nat \ {0}
  BY CommsV2Assumption
<1>2. PICK n \in 1..packet_count : Reap(n)
  BY DEF Resubmit, Drain
<1>3. n \in Nat /\ TypeOK /\ submitted \in Nat /\ reaped \in Nat
  BY <1>1, <1>2 DEF IInv, TypeOK
<1>4. /\ UNCHANGED <<dst, submitted, buffer, sent, hands>>
      /\ back' \in [Movers -> Lengths] /\ reaped' = reaped + n
      /\ Travelling = Travelling' + n /\ Travelling' \in Nat
  BY <1>2, <1>3, ReapCounts
<1>5. ~At("submit") /\ ~Over /\ ~At("create") /\ ~At("await")
      /\ (main' = [pc |-> "submit", left |-> packet_count] \/ main' = main)
  BY DEF Resubmit, Drain, At, Over
<1>6. TypeOK'
  BY <1>1, <1>3, <1>4, <1>5 DEF IInv, TypeOK
<1>7. submitted - reaped = Travelling /\ Partial' = 0
  BY <1>1, <1>3, <1>5 DEF IInv, Balance, Partial, At
<1>8. submitted' - reaped' + Partial' = Travelling'
  <2>1. submitted' = submitted /\ reaped' = reaped + n /\ Partial' = 0
    BY <1>4, <1>7
  <2>2. PICK t \in Nat : t = Travelling'
    BY <1>4
  <2>3. submitted - reaped = t + n
    BY <1>4, <1>7, <2>2
  <2>4. submitted - (reaped + n) + 0 = t
    BY <1>3, <2>3
  <2> QED BY <2>1, <2>2, <2>4
<1>9. ~At("create")' /\ ~At("await")' /\ ~Over' /\ (At("submit")' => main'.left <= packet_count)
  BY <1>1, <1>5 DEF At, Over
<1> QED BY <1>6, <1>8, <1>9 DEF IInv, Balance, Emptied

LEMMA Reals == packet_count \in Nat \ {0} /\ BLOCK_SIZE \in Nat \ {0} /\ catcher \notin Writers
BY CommsV2Assumption

(* A mover takes packets out of the queue the driver fills ...              *)
LEMMA TakeMoves ==
  ASSUME TypeOK, NEW p \in Movers, Take(p)
  PROVE  /\ TypeOK' /\ Travelling' = Travelling /\ Waiting' = Waiting
         /\ UNCHANGED <<dst, main, submitted, reaped, buffer>> /\ Mine(p)
         /\ \E n \in 1..packet_count : /\ n <= sent.len /\ sent'.len = sent.len - n
                                       /\ hands' = [hands EXCEPT ![p] = n] /\ hands[p] = 0
<1>1. PICK n \in 1..packet_count :
        n <= sent.len /\ hands' = [hands EXCEPT ![p] = n] /\ sent' = Dequeue(sent, n)
  BY DEF Take
<1>2. UNCHANGED <<dst, main, submitted, reaped, buffer, back>> /\ Mine(p) /\ hands[p] = 0
  BY DEF Take, Running
<1>3. n \in Nat /\ sent.len \in Nat /\ sent.off \in Nat /\ buffer \in Nat
  BY <1>1, Reals DEF TypeOK, Lengths
<1>4. sent' = [len |-> sent.len - n, off |-> (sent.off + n) % BLOCK_SIZE]
  BY <1>1 DEF Dequeue
<1>5. (sent.off + n) % BLOCK_SIZE \in Nat
  BY <1>3, Reals
<1>6. sent' \in Lengths /\ sent'.len = sent.len - n
  BY <1>1, <1>3, <1>4, <1>5 DEF Lengths
<1>7. hands' \in [Movers -> Nat] /\ hands'[p] = hands[p] + n
      /\ \A m \in Movers \ {p} : hands'[m] = hands[m]
  BY <1>1, <1>2, <1>3 DEF TypeOK
<1>8. TypeOK'
  BY <1>2, <1>6, <1>7 DEF TypeOK
<1>9. Total(hands') = Total(hands) + n
  BY <1>3, <1>7, Finite, TotalAdd DEF TypeOK
<1>10. Waiting' = Waiting
  BY <1>2 DEF Waiting
<1>11. /\ Travelling' = buffer + sent'.len + Waiting + Total(hands')
       /\ Travelling = buffer + sent.len + Waiting + Total(hands)
       /\ Waiting \in Nat /\ Total(hands) \in Nat
  BY <1>2, <1>10, Sums DEF Travelling
<1>12. Travelling' = Travelling
  BY <1>3, <1>6, <1>9, <1>11
<1> QED BY <1>1, <1>2, <1>6, <1>8, <1>10, <1>12

(* ... and puts them into the reap queue.                                   *)
LEMMA GiveBackMoves ==
  ASSUME TypeOK, NEW p \in Movers, GiveBack(p)
  PROVE  /\ TypeOK' /\ Travelling' = Travelling
         /\ UNCHANGED <<dst, main, submitted, reaped, buffer, sent>>
         /\ hands' = [hands EXCEPT ![p] = 0]
<1> DEFINE n == hands[p]
<1>1. /\ UNCHANGED <<dst, main, submitted, reaped, buffer, sent>>
      /\ hands' = [hands EXCEPT ![p] = 0] /\ back' = [back EXCEPT ![p] = Enqueue(back[p], n)]
  BY DEF GiveBack
<1>2. n \in Nat /\ back[p] \in Lengths /\ back[p].len \in Nat /\ buffer \in Nat /\ sent.len \in Nat
  BY DEF TypeOK, Lengths
<1>3. /\ hands' \in [Movers -> Nat] /\ hands[p] = hands'[p] + n
      /\ \A m \in Movers \ {p} : hands[m] = hands'[m]
  BY <1>1, <1>2 DEF TypeOK
<1>4. back'[p] \in Lengths /\ back'[p].len = back[p].len + n
  <2>1. back'[p] = Enqueue(back[p], n)
    BY <1>1 DEF TypeOK
  <2>2. ASSUME NEW x \in Lengths, NEW k \in Nat
        PROVE  Enqueue(x, k) \in Lengths /\ Enqueue(x, k).len = x.len + k
    BY DEF Enqueue, Lengths
  <2> QED BY <1>2, <2>1, <2>2
<1>5. back' \in [Movers -> Lengths] /\ \A m \in Movers \ {p} : back'[m] = back[m]
  BY <1>1, <1>4 DEF TypeOK
<1>6. TypeOK'
  BY <1>1, <1>3, <1>5 DEF TypeOK
<1>7. /\ Lens' \in [Movers -> Nat] /\ Lens'[p] = Lens[p] + n
      /\ \A m \in Movers \ {p} : Lens'[m] = Lens[m]
  BY <1>4, <1>5 DEF Lens, Lengths
<1>8. Total(Lens') = Total(Lens) + n
  BY <1>2, <1>7, Finite, Sums, TotalAdd
<1>9. Total(hands) = Total(hands') + n
  BY <1>2, <1>3, Finite, TotalAdd DEF TypeOK
<1>10. Total(hands') \in Nat
  BY <1>3, Finite, TotalNat
<1>11. /\ Travelling' = buffer + sent.len + Total(Lens') + Total(hands')
       /\ Travelling = buffer + sent.len + Total(Lens) + Total(hands)
       /\ Total(Lens) \in Nat
  BY <1>1, Sums DEF Travelling, Waiting, Lens
<1>12. Travelling' = Travelling
  BY <1>2, <1>8, <1>9, <1>10, <1>11
<1> QED BY <1>1, <1>6, <1>12

(* The steps of the threads that move no packets.                           *)
Otherwise ==
  \/ \E x \in Layer : Stop(x)
  \/ \E x \in Layer \cup {catcher} : Begin(x) \/ End(x)
  \/ CatcherQuits
  \/ \E w \in Writers : Transmit(w) \/ Miss(w) \/ Quit(w)
  \/ UNCHANGED vars

LEMMA OtherwiseStill ==
  ASSUME Otherwise
  PROVE  UNCHANGED <<dst, main, submitted, reaped, buffer, sent, back, hands>>
<1>1. CASE \E x \in Layer : Stop(x)
  BY <1>1 DEF Stop, packets
<1>2. CASE \E x \in Layer \cup {catcher} : Begin(x) \/ End(x)
  BY <1>2 DEF Begin, End, Leave, packets
<1>3. CASE CatcherQuits
  BY <1>3 DEF CatcherQuits, Leave, packets
<1>4. CASE \E w \in Writers : Transmit(w) \/ Miss(w) \/ Quit(w)
  BY <1>4 DEF Transmit, Miss, Quit
<1>5. CASE UNCHANGED vars
  BY <1>5 DEF vars, packets
<1> QED BY <1>1, <1>2, <1>3, <1>4, <1>5 DEF Otherwise

LEMMA Steps ==
  ASSUME [Next]_vars
  PROVE  \/ Start \/ Started \/ Submitted \/ Shutdown \/ Stopped \/ Join
         \/ Submit \/ Resubmit \/ Drain
         \/ \E p \in Movers : Take(p) \/ GiveBack(p)
         \/ Otherwise
BY DEF Next, Driver, Thread, Mover, Otherwise

LEMMA NextIInv ==
  ASSUME IInv, [Next]_vars
  PROVE  IInv'
<1>1. CASE Start \/ Started \/ Submitted \/ Shutdown \/ Stopped \/ Join
  BY <1>1, DriverMoves
<1>2. CASE Submit
  BY <1>2, SubmitKeeps
<1>3. CASE Resubmit \/ Drain
  BY <1>3, ReapKeeps
<1>4. ASSUME TypeOK', Travelling' = Travelling, UNCHANGED <<main, submitted, reaped>>
      PROVE  IInv'
  BY <1>4 DEF IInv, Balance, Partial, Emptied, Over, At
<1>5. CASE \E p \in Movers : Take(p) \/ GiveBack(p)
  BY <1>4, <1>5, TakeMoves, GiveBackMoves DEF IInv
<1>6. CASE Otherwise
  <2>1. UNCHANGED <<dst, main, submitted, reaped, buffer, sent, back, hands>>
    BY <1>6, OtherwiseStill
  <2>2. TypeOK'
    BY <2>1 DEF IInv, TypeOK
  <2> QED BY <1>4, <2>1, <2>2, Still
<1> QED BY <1>1, <1>2, <1>3, <1>5, <1>6, Steps

LEMMA Invariance == Spec => []IInv
BY InitIInv, NextIInv, PTL DEF Spec

(* When comms_shutdown runs, and until the payloads are freed, no packet is *)
(* in a buffer, a queue or the hands of a thread.                           *)
THEOREM NothingLeftBehind == Spec => []QuietShutdown
<1>1. IInv => QuietShutdown
  <2> SUFFICES ASSUME IInv, Over PROVE Travelling = 0
    BY DEF QuietShutdown, Over
  <2>1. submitted \in Nat /\ reaped \in Nat /\ reaped >= submitted
    BY DEF IInv, TypeOK, Emptied
  <2>2. Partial = 0
    BY DEF Partial, Over, At
  <2>3. submitted - reaped + 0 = Travelling
    BY <2>2 DEF IInv, Balance
  <2>4. Travelling \in Nat
    BY Sums DEF IInv
  <2> QED BY <2>1, <2>3, <2>4
<1> QED BY <1>1, Invariance, PTL

-------------------------------------------------------------------------------
(* How many packets travel.                                                 *)

(* The driver's numbers: an array fills the accessor's buffer whole times   *)
(* (main.cc:86, 130), and the arrays submitted at first fit the queue       *)
(* (main.cc:133; comms_impl.h:21-22).                                       *)
Configured ==
  /\ \E k \in Nat : packet_count = k * accessor_buffer_size
  /\ Rounds * packet_count <= BLOCK_SIZE * IMPLICIT_INITIAL_INDEX_SIZE

Room == BLOCK_SIZE * IMPLICIT_INITIAL_INDEX_SIZE
Busy == {p \in Movers : Mine(p)}
Most == Room + packet_count * (Cardinality(Busy) + 1)
ToSubmit == IF At("submit") THEN main.left ELSE 0

(* What buffer, queue and hands hold, and that there is room for the rest   *)
(* of the array that is being submitted.                                    *)
BoundInv ==
  /\ buffer < accessor_buffer_size
  /\ At("submit") => \E k \in Nat : packet_count - main.left = k * accessor_buffer_size + buffer
  /\ ~At("submit") => buffer = 0
  /\ sent.len + sent.off <= Room
  /\ \A p \in Movers : hands[p] <= packet_count /\ (~Mine(p) => hands[p] = 0)
  /\ Travelling + ToSubmit <= Most

(* Division by a block's size.                                              *)
LEMMA Division ==
  ASSUME NEW a \in Nat, NEW b \in Nat \ {0}, NEW c \in Nat, a \div b < c
  PROVE  a < b * c
<1> DEFINE d == a \div b
<1>1. d \in Nat /\ a < b * (d + 1)
  OBVIOUS
<1> HIDE DEF d
<1>2. d + 1 <= c
  BY <1>1 DEF d
<1>3. PICK e \in Nat : c = d + 1 + e
  <2>1. c - (d + 1) \in Nat /\ c = d + 1 + (c - (d + 1))
    BY <1>1, <1>2
  <2> QED BY <2>1
<1>4. b * c = b * (d + 1) + b * e /\ b * e \in Nat /\ b * (d + 1) \in Nat
  BY <1>1, <1>3
<1> QED BY <1>1, <1>4

LEMMA Modulo ==
  ASSUME NEW a \in Nat, NEW b \in Nat \ {0}
  PROVE  a % b \in Nat /\ a % b <= a
OBVIOUS

(* What is left over of a whole number of buffers is nothing.               *)
LEMMA Leftover ==
  ASSUME NEW b \in Nat \ {0}, NEW r \in Nat, r < b, NEW k \in Nat, NEW j \in Nat,
         k * b = j * b + r
  PROVE  r = 0
<1>1. CASE k = j
  BY <1>1
<1>2. CASE k > j
  <2>1. PICK e \in Nat : k = j + 1 + e
    <3>1. k - (j + 1) \in Nat /\ k = j + 1 + (k - (j + 1))
      BY <1>2
    <3> QED BY <3>1
  <2>2. k * b = j * b + b + e * b /\ e * b \in Nat /\ j * b \in Nat
    BY <2>1
  <2> QED BY <2>2
<1>3. CASE k < j
  <2>1. PICK e \in Nat : j = k + 1 + e
    <3>1. j - (k + 1) \in Nat /\ j = k + 1 + (j - (k + 1))
      BY <1>3
    <3> QED BY <3>1
  <2>2. j * b = k * b + b + e * b /\ e * b \in Nat /\ k * b \in Nat
    BY <2>1
  <2> QED BY <2>2
<1> QED BY <1>1, <1>2, <1>3

LEMMA Sizes ==
  /\ packet_count \in Nat \ {0} /\ accessor_buffer_size \in Nat \ {0} /\ BLOCK_SIZE \in Nat \ {0}
  /\ IMPLICIT_INITIAL_INDEX_SIZE \in Nat \ {0} /\ Rounds \in Nat
  /\ Room \in Nat /\ Cardinality(Busy) \in Nat /\ IsFiniteSet(Busy)
  /\ packet_count * Cardinality(Busy) \in Nat /\ Rounds * packet_count \in Nat
  /\ Most = Room + packet_count * Cardinality(Busy) + packet_count
<1>1. /\ packet_count \in Nat \ {0} /\ accessor_buffer_size \in Nat \ {0}
      /\ BLOCK_SIZE \in Nat \ {0} /\ IMPLICIT_INITIAL_INDEX_SIZE \in Nat \ {0} /\ Rounds \in Nat
  BY CommsV2Assumption
<1>2. IsFiniteSet(Busy) /\ Cardinality(Busy) \in Nat
  BY Finite, FS_Subset, FS_CardinalityType DEF Busy
<1>3. Room \in Nat
  BY <1>1 DEF Room
<1>4. packet_count * Cardinality(Busy) \in Nat /\ Rounds * packet_count \in Nat
  BY <1>1, <1>2
<1>5. packet_count * (Cardinality(Busy) + 1) = packet_count * Cardinality(Busy) + packet_count
  BY <1>1, <1>2
<1> QED BY <1>1, <1>2, <1>3, <1>4, <1>5 DEF Most

(* The packets in hands.                                                    *)
LEMMA InHands ==
  ASSUME TypeOK, BoundInv
  PROVE  Total(hands) <= packet_count * Cardinality(Busy)
<1>1. hands \in [Movers -> Nat] /\ Busy \in SUBSET Movers /\ packet_count \in Nat
  BY Sizes DEF TypeOK, Busy
<1>2. (\A c \in Busy : hands[c] <= packet_count) /\ \A c \in Movers \ Busy : hands[c] = 0
  BY DEF BoundInv, Busy
<1> QED BY <1>1, <1>2, Finite, TotalBound

LEMMA MostStill ==
  ASSUME dst' = dst
  PROVE  Most' = Most /\ Busy' = Busy /\ \A p \in Movers : Mine(p)' = Mine(p)
BY DEF Most, Busy, Mine

LEMMA InitBound ==
  ASSUME Init
  PROVE  BoundInv
<1>1. TypeOK /\ At("create") /\ submitted = 0 /\ reaped = 0
  BY InitIInv DEF IInv, Init, At
<1>2. Travelling = 0
  BY <1>1, InitIInv DEF IInv, Balance, Partial, At
<1>3. ToSubmit = 0
  BY <1>1 DEF ToSubmit, At
<1>4. sent.len + sent.off <= Room
  BY Sizes DEF Init, Nothing
<1>5. Travelling + ToSubmit <= Most
  BY <1>2, <1>3, Sizes
<1>6. buffer = 0 /\ hands = [p \in Movers |-> 0] /\ ~At("submit")
  BY <1>1 DEF Init, At
<1> QED BY <1>4, <1>5, <1>6, Sizes DEF BoundInv

(* A full buffer that fits.                                                 *)
LEMMA FullFits ==
  ASSUME TypeOK, Fits("driver", sent, accessor_buffer_size)
  PROVE  sent.len + accessor_buffer_size + sent.off <= Room
<1> DEFINE a == sent.off + sent.len + accessor_buffer_size - 1
<1>1. "driver" \notin Writers
  BY CommsV2Assumption
<1>2. a \div BLOCK_SIZE < IMPLICIT_INITIAL_INDEX_SIZE
  BY <1>1 DEF Fits, Blocks
<1>3. a \in Nat /\ sent.len \in Nat /\ sent.off \in Nat
  BY Sizes DEF TypeOK, Lengths
<1>4. a < BLOCK_SIZE * IMPLICIT_INITIAL_INDEX_SIZE
  <2> HIDE DEF a
  <2> QED BY <1>2, <1>3, Sizes, Division
<1> QED BY <1>3, <1>4, Sizes DEF Room

LEMMA SubmitBound ==
  ASSUME IInv, BoundInv, Submit
  PROVE  BoundInv'
<1>1. UNCHANGED <<dst, hands>> /\ At("submit") /\ main.left > 0
      /\ main' = [main EXCEPT !.left = @ - 1]
  BY DEF Submit
<1>2. main' = [pc |-> "submit", left |-> main.left - 1] /\ At("submit")'
  BY <1>1 DEF At, IInv, TypeOK
<1>3. main.left \in Nat /\ buffer \in Nat /\ sent.len \in Nat /\ sent.off \in Nat
  BY DEF IInv, TypeOK, Lengths
<1>4. PICK k \in Nat : packet_count - main.left = k * accessor_buffer_size + buffer
  BY <1>1 DEF BoundInv
<1>5. Travelling' + ToSubmit' <= Most'
  <2>1. Travelling' = Travelling + 1 /\ Travelling \in Nat
    BY SubmitKeeps, Sums DEF IInv
  <2>2. ToSubmit' = main.left - 1 /\ ToSubmit = main.left
    BY <1>1, <1>2 DEF ToSubmit, At
  <2>3. PICK t \in Nat : t = Travelling'
    BY <2>1
  <2>4. t + (main.left - 1) = Travelling + main.left
    BY <1>3, <2>1, <2>3
  <2>5. Travelling + main.left <= Most
    BY <2>2 DEF BoundInv
  <2> QED BY <1>1, <2>2, <2>3, <2>4, <2>5, MostStill
<1>6. \A p \in Movers : hands'[p] <= packet_count /\ (~Mine(p)' => hands'[p] = 0)
  BY <1>1, MostStill DEF BoundInv
<1>7. CASE buffer + 1 = accessor_buffer_size
  <2>1. /\ Fits("driver", sent, accessor_buffer_size) /\ buffer' = 0
        /\ sent' = [sent EXCEPT !.len = @ + accessor_buffer_size]
    BY <1>7 DEF Submit, Enqueue
  <2>2. sent'.len = sent.len + accessor_buffer_size /\ sent'.off = sent.off
    BY <2>1 DEF IInv, TypeOK, Lengths
  <2>3. sent'.len + sent'.off <= Room
    <3>1. TypeOK
      BY DEF IInv
    <3>2. sent.len + accessor_buffer_size + sent.off <= Room
      BY <2>1, <3>1, FullFits
    <3>3. PICK l \in Nat, o \in Nat : l = sent'.len /\ o = sent'.off
      BY <1>3, <2>2, Sizes
    <3>4. l = sent.len + accessor_buffer_size /\ o = sent.off
      BY <2>2, <3>3
    <3>5. l + o <= Room
      BY <1>3, <3>2, <3>4, Sizes
    <3>6. sent'.len \in Nat /\ sent'.off \in Nat
      BY <3>3
    <3> QED BY <3>3, <3>5, <3>6
  <2>4. packet_count - main'.left = (k + 1) * accessor_buffer_size + buffer'
    <3>1. packet_count - (main.left - 1) = k * accessor_buffer_size + accessor_buffer_size
      <4>1. PICK m \in Nat : m = k * accessor_buffer_size
        BY Sizes
      <4>2. packet_count - main.left = m + buffer
        BY <1>4, <4>1
      <4>3. packet_count \in Nat /\ accessor_buffer_size \in Nat
            /\ accessor_buffer_size = buffer + 1
        BY <1>7, Sizes
      <4>4. packet_count - (main.left - 1) = m + (buffer + 1)
        BY <1>3, <4>2, <4>3
      <4> QED BY <4>1, <4>3, <4>4
    <3>2. (k + 1) * accessor_buffer_size = k * accessor_buffer_size + accessor_buffer_size
      BY Sizes
    <3>3. k * accessor_buffer_size \in Nat
      BY Sizes
    <3> QED BY <1>2, <2>1, <3>1, <3>2, <3>3, Sizes
  <2>5. k + 1 \in Nat /\ Room' = Room
    BY DEF Room
  <2> QED BY <1>2, <1>5, <1>6, <2>1, <2>3, <2>4, <2>5, Sizes DEF BoundInv
<1>8. CASE buffer + 1 # accessor_buffer_size
  <2>1. buffer' = buffer + 1 /\ sent' = sent
    BY <1>8 DEF Submit
  <2>2. buffer' < accessor_buffer_size
    BY <1>3, <1>8, <2>1, Sizes DEF BoundInv
  <2>3. packet_count - main'.left = k * accessor_buffer_size + buffer'
    <3>1. k * accessor_buffer_size \in Nat
      BY Sizes
    <3> QED BY <1>2, <1>3, <1>4, <2>1, <3>1, Sizes
  <2>4. Room' = Room
    BY DEF Room
  <2> QED BY <1>2, <1>5, <1>6, <2>1, <2>2, <2>3, <2>4 DEF BoundInv
<1> QED BY <1>7, <1>8

(* Between two arrays the buffer is empty.                                  *)
LEMMA BufferEmpty ==
  ASSUME IInv, BoundInv, Configured, At("submit") => main.left = 0
  PROVE  buffer = 0
<1>1. CASE At("submit")
  <2>1. PICK k \in Nat : packet_count - main.left = k * accessor_buffer_size + buffer
    BY <1>1 DEF BoundInv
  <2>2. PICK j \in Nat : packet_count = j * accessor_buffer_size
    BY DEF Configured
  <2>3. main.left = 0 /\ buffer \in Nat /\ buffer < accessor_buffer_size
    BY <1>1 DEF IInv, TypeOK, BoundInv
  <2>4. j * accessor_buffer_size = k * accessor_buffer_size + buffer
    <3>1. packet_count - 0 = packet_count
      BY Sizes
    <3> QED BY <2>1, <2>2, <2>3, <3>1
  <2> QED BY <2>3, <2>4, Sizes, Leftover
<1>2. CASE ~At("submit")
  BY <1>2 DEF BoundInv
<1> QED BY <1>1, <1>2

(* An array begins when all packets and it have room.                       *)
LEMMA Anew ==
  ASSUME BoundInv, buffer = 0, UNCHANGED <<dst, buffer, sent, hands>>,
         main' = [pc |-> "submit", left |-> packet_count],
         NEW t \in Nat, t = Travelling', t + packet_count <= Most
  PROVE  BoundInv'
<1>1. At("submit")' /\ ToSubmit' = packet_count /\ main'.left = packet_count
  BY DEF At, ToSubmit
<1>2. packet_count - packet_count = 0 * accessor_buffer_size + buffer'
  BY Sizes
<1>3. Most' = Most /\ Room' = Room /\ \A p \in Movers : Mine(p)' = Mine(p)
  BY MostStill DEF Room
<1>4. Travelling' + ToSubmit' <= Most'
  BY <1>1, <1>3
<1>5. buffer' < accessor_buffer_size /\ sent'.len + sent'.off <= Room'
      /\ \A p \in Movers : hands'[p] <= packet_count /\ (~Mine(p)' => hands'[p] = 0)
  BY <1>3 DEF BoundInv
<1>6. \E k \in Nat : packet_count - main'.left = k * accessor_buffer_size + buffer'
  BY <1>1, <1>2
<1> QED BY <1>1, <1>4, <1>5, <1>6 DEF BoundInv

(* None begins.                                                             *)
LEMMA NotAnew ==
  ASSUME BoundInv, buffer = 0, UNCHANGED <<dst, buffer, sent, hands>>, ~At("submit")',
         NEW t \in Nat, t = Travelling', t <= Most
  PROVE  BoundInv'
<1>1. ToSubmit' = 0
  BY DEF At, ToSubmit
<1>2. Most' = Most /\ Room' = Room /\ \A p \in Movers : Mine(p)' = Mine(p)
  BY MostStill DEF Room
<1>3. Travelling' + ToSubmit' <= Most'
  BY <1>1, <1>2, Sizes
<1>4. buffer' < accessor_buffer_size /\ sent'.len + sent'.off <= Room'
      /\ \A p \in Movers : hands'[p] <= packet_count /\ (~Mine(p)' => hands'[p] = 0)
  BY <1>2 DEF BoundInv
<1> QED BY <1>3, <1>4 DEF BoundInv

LEMMA DriverBound ==
  ASSUME IInv, BoundInv, Configured, Start \/ Started \/ Submitted \/ Shutdown \/ Stopped \/ Join
  PROVE  BoundInv'
<1>1. UNCHANGED <<dst, reaped, buffer, sent, back, hands>>
  BY DEF Start, Started, Submitted, Shutdown, Stopped, Join, packets
<1>2. Travelling' = Travelling /\ Travelling \in Nat
  BY <1>1, Still, Sums DEF IInv
<1>3. PICK t \in Nat : t = Travelling /\ t = Travelling'
  BY <1>2
<1>4. At("submit") => main.left = 0
  BY DEF Start, Started, Submitted, Shutdown, Stopped, Join, At
<1>5. buffer = 0
  BY <1>4, BufferEmpty
<1>6. t <= Most
  <2>1. ToSubmit = 0
    BY <1>4 DEF ToSubmit
  <2>2. t + 0 <= Most
    BY <1>3, <2>1 DEF BoundInv
  <2> QED BY <2>2
<1>7. CASE Started
  <2>1. t = 0
    BY <1>3, <1>7 DEF Started, IInv, Balance, Partial, At
  <2>2. t + packet_count <= Most
    BY <2>1, Sizes
  <2> QED BY <1>1, <1>3, <1>5, <1>7, <2>2, Anew DEF Started
<1>8. CASE Submitted
  <2>1. At("submit") /\ main.left = 0 /\ submitted' = submitted + packet_count
    BY <1>8 DEF Submitted
  <2>2. CASE submitted' < Rounds * packet_count
    <3>1. main' = [pc |-> "submit", left |-> packet_count]
      BY <1>8, <2>1, <2>2 DEF Submitted, At, IInv, TypeOK
    <3>2. submitted - reaped + packet_count = t /\ submitted \in Nat /\ reaped \in Nat
      BY <1>3, <2>1, Sizes DEF IInv, TypeOK, Balance, Partial
    <3>3. t <= submitted'
      BY <2>1, <3>2, Sizes
    <3>4. submitted' < Room
      BY <2>1, <2>2, <3>2, Sizes DEF Configured, Room
    <3>5. t + packet_count <= Most
      BY <2>1, <3>2, <3>3, <3>4, Sizes
    <3> QED BY <1>1, <1>3, <1>5, <3>1, <3>5, Anew
  <2>3. CASE ~(submitted' < Rounds * packet_count)
    <3>1. ~At("submit")'
      BY <1>8, <2>3 DEF Submitted, At
    <3> QED BY <1>1, <1>3, <1>5, <1>6, <3>1, NotAnew
  <2> QED BY <2>2, <2>3
<1>9. CASE Start \/ Shutdown \/ Stopped \/ Join
  <2>1. PICK l \in {"await", "stop", "join", "done"} : main' = [main EXCEPT !.pc = l]
    BY <1>9 DEF Start, Shutdown, Stopped, Join, Go
  <2>2. ~At("submit")'
    BY <2>1 DEF At, IInv, TypeOK
  <2> QED BY <1>1, <1>3, <1>5, <1>6, <2>2, NotAnew
<1> QED BY <1>7, <1>8, <1>9

(* An array of packets that were not all reaped is only submitted when the  *)
(* reap queue was emptied.                                                  *)
LEMMA ReapBound ==
  ASSUME IInv, BoundInv, Configured, Resubmit \/ Drain
  PROVE  BoundInv'
<1>1. PICK n \in 1..packet_count : Reap(n)
  BY DEF Resubmit, Drain
<1>2. n \in Nat /\ TypeOK
  BY <1>1, Sizes DEF IInv
<1>3. /\ n = Reapable /\ UNCHANGED <<dst, submitted, buffer, sent, hands>>
      /\ Waiting = Waiting' + n /\ Waiting' \in Nat
      /\ Travelling = Travelling' + n /\ Travelling' \in Nat
  BY <1>1, <1>2, ReapCounts
<1>4. PICK t \in Nat : t = Travelling'
  BY <1>3
<1>5. ~At("submit") /\ buffer = 0
  <2>1. ~At("submit")
    BY DEF Resubmit, Drain, At
  <2> QED BY <2>1 DEF BoundInv
<1>6. t + n <= Most
  <2>1. Travelling + 0 <= Most
    BY <1>5 DEF BoundInv, ToSubmit
  <2>2. Travelling = t + n
    BY <1>3, <1>4
  <2> QED BY <1>2, <1>4, <2>1, <2>2
<1>7. CASE Drain
  <2>1. ~At("submit")'
    BY <1>5, <1>7 DEF Drain, At
  <2>2. t <= Most
    BY <1>2, <1>4, <1>6, Sizes
  <2> QED BY <1>3, <1>4, <1>5, <2>1, <2>2, NotAnew
<1>8. CASE Resubmit
  <2>1. main' = [pc |-> "submit", left |-> packet_count]
    BY <1>8 DEF Resubmit
  <2>2. t + packet_count <= Most
    <3>1. CASE n = packet_count
      BY <1>6, <3>1
    <3>2. CASE n # packet_count
      <4>1. n = Waiting /\ Waiting \in Nat
        BY <1>2, <1>3, <3>2, Sums DEF Reapable
      <4>2. t = sent.len + Total(hands)
        <5>1. Travelling = buffer + sent.len + Waiting + Total(hands) /\ Total(hands) \in Nat
          BY <1>2, Sums
        <5>2. sent.len \in Nat /\ Travelling = t + n
          BY <1>2, <1>3, <1>4 DEF TypeOK, Lengths
        <5> QED BY <1>2, <1>4, <1>5, <4>1, <5>1, <5>2
      <4>3. sent.len <= Room
        BY <1>2, Sizes DEF BoundInv, TypeOK, Lengths
      <4>4. Total(hands) <= packet_count * Cardinality(Busy) /\ Total(hands) \in Nat
        BY <1>2, InHands, Sums
      <4>5. sent.len \in Nat
        BY <1>2 DEF TypeOK, Lengths
      <4> QED BY <4>2, <4>3, <4>4, <4>5, Sizes
    <3> QED BY <3>1, <3>2
  <2> QED BY <1>3, <1>4, <1>5, <2>1, <2>2, Anew
<1> QED BY <1>7, <1>8

LEMMA MoverBound ==
  ASSUME IInv, BoundInv, NEW p \in Movers, Take(p) \/ GiveBack(p)
  PROVE  BoundInv'
<1>1. TypeOK /\ sent.len \in Nat /\ sent.off \in Nat
  BY DEF IInv, TypeOK, Lengths
<1>2. /\ UNCHANGED <<dst, main, buffer>> /\ Travelling' = Travelling
      /\ sent'.len + sent'.off <= sent.len + sent.off
      /\ \E n \in 0..packet_count : hands' = [hands EXCEPT ![p] = n] /\ (n = 0 \/ Mine(p))
  <2>1. CASE Take(p)
    <3>1. PICK n \in 1..packet_count : n <= sent.len /\ sent'.len = sent.len - n
                                       /\ hands' = [hands EXCEPT ![p] = n]
      BY <1>1, <2>1, TakeMoves
    <3>2. PICK k \in 1..packet_count : sent' = Dequeue(sent, k)
      BY <2>1 DEF Take
    <3>3. sent'.len = sent.len - k /\ sent'.off = (sent.off + k) % BLOCK_SIZE /\ k \in Nat
      BY <3>2, Sizes DEF Dequeue
    <3>4. PICK o \in Nat : o = (sent.off + k) % BLOCK_SIZE /\ o <= sent.off + k
      <4>1. sent.off + k \in Nat
        BY <1>1, <3>3
      <4> QED BY <4>1, Sizes, Modulo
    <3>5. sent'.len + sent'.off <= sent.len + sent.off
      <4>1. sent'.off = o
        BY <3>3, <3>4
      <4>2. sent.len - k + o <= sent.len + sent.off
        BY <1>1, <3>3, <3>4
      <4>3. sent'.len = sent.len - k /\ sent'.off \in Nat /\ sent'.len \in Int
        BY <1>1, <3>3, <3>4, <4>1
      <4> QED BY <1>1, <3>3, <4>1, <4>2, <4>3
    <3>6. UNCHANGED <<dst, main, buffer>> /\ Travelling' = Travelling /\ Mine(p)
      BY <1>1, <2>1, TakeMoves
    <3>7. n \in 0..packet_count
      BY Sizes
    <3> QED BY <3>1, <3>5, <3>6, <3>7
  <2>2. CASE GiveBack(p)
    <3>1. sent' = sent
      BY <1>1, <2>2, GiveBackMoves
    <3> QED BY <1>1, <2>2, <3>1, Sizes, GiveBackMoves
  <2> QED BY <2>1, <2>2
<1>3. Most' = Most /\ Room' = Room /\ ToSubmit' = ToSubmit /\ At("submit")' = At("submit")
      /\ \A m \in Movers : Mine(m)' = Mine(m)
  BY <1>2, MostStill DEF Room, ToSubmit, At
<1>4. \A m \in Movers : hands'[m] <= packet_count /\ (~Mine(m)' => hands'[m] = 0)
  <2>1. PICK n \in 0..packet_count : hands' = [hands EXCEPT ![p] = n] /\ (n = 0 \/ Mine(p))
    BY <1>2
  <2>2. hands \in [Movers -> Nat]
    BY <1>1 DEF TypeOK
  <2>3. \A m \in Movers : hands[m] <= packet_count /\ (~Mine(m) => hands[m] = 0)
    BY DEF BoundInv
  <2>4. n <= packet_count
    BY Sizes
  <2> QED BY <1>3, <2>1, <2>2, <2>3, <2>4
<1>5. sent'.len + sent'.off <= Room'
  <2>1. sent.len + sent.off <= Room /\ Room \in Nat
    BY Sizes DEF BoundInv
  <2>2. sent' \in Lengths
    BY <1>1, TakeMoves, GiveBackMoves DEF TypeOK
  <2> QED BY <1>1, <1>2, <1>3, <2>1, <2>2 DEF Lengths
<1>6. Travelling' + ToSubmit' <= Most'
  BY <1>2, <1>3 DEF BoundInv
<1>7. buffer' < accessor_buffer_size /\ (~At("submit")' => buffer' = 0)
      /\ (At("submit")' =>
           \E k \in Nat : packet_count - main'.left = k * accessor_buffer_size + buffer')
  BY <1>2, <1>3 DEF BoundInv
<1> QED BY <1>4, <1>5, <1>6, <1>7 DEF BoundInv

LEMMA NextBound ==
  ASSUME IInv, BoundInv, Configured, [Next]_vars
  PROVE  BoundInv'
<1>1. CASE Otherwise
  <2>1. UNCHANGED <<dst, main, submitted, reaped, buffer, sent, back, hands>>
    BY <1>1, OtherwiseStill
  <2>2. Travelling' = Travelling /\ Most' = Most /\ Room' = Room
        /\ (\A m \in Movers : Mine(m)' = Mine(m)) /\ ToSubmit' = ToSubmit
        /\ At("submit")' = At("submit")
    BY <2>1, Still, MostStill DEF Room, ToSubmit, At
  <2> QED BY <2>1, <2>2 DEF BoundInv
<1> QED BY <1>1, Steps, SubmitBound, DriverBound, ReapBound, MoverBound

(* No packet is lost or made up on its way, and those that travel twice do  *)
(* not pile up.                                                             *)
THEOREM NothingLostNothingPilesUp ==
  ASSUME Configured
  PROVE  Spec => []Accounted
<1>1. IInv /\ BoundInv => Accounted
  <2> SUFFICES ASSUME IInv, BoundInv PROVE Accounted
    OBVIOUS
  <2>1. submitted - reaped + Partial = Travelling
    BY DEF IInv, Balance
  <2>2. Travelling <= Most
    <3>1. ToSubmit \in Nat
      BY DEF IInv, TypeOK, ToSubmit
    <3>2. Travelling \in Nat /\ Travelling + ToSubmit <= Most
      BY Sums DEF IInv, BoundInv
    <3> QED BY <3>1, <3>2, Sizes
  <2> QED BY <2>1, <2>2 DEF Accounted, Partial, Most, Room, Busy
<1>2. Init => BoundInv
  BY InitBound
<1>3. IInv /\ BoundInv /\ [Next]_vars => BoundInv'
  BY NextBound
<1> QED BY <1>1, <1>2, <1>3, Invariance, PTL DEF Spec
===============================================================================
