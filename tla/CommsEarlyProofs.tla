---------------------------- MODULE CommsEarlyProofs ----------------------------
(***************************************************************************)
(* Safety of comms and comms_async with their drivers, for any             *)
(* configurations, batch sizes and numbers of packets: a packet is in one  *)
(* place, and packets and objects are freed when no thread is left to use  *)
(* them.                                                                   *)
(***************************************************************************)
EXTENDS CommsEarly, SequenceTheorems, WellFoundedInduction, TLAPS

-----------------------------------------------------------------------------
(* Lists of which no two hold the same packet, and none holds one twice      *)

Items(L, C) == UNION {Range(L[l]) : l \in C}
Apart(L, C) ==
  \A l, m \in C : \A i \in DOMAIN L[l], j \in DOMAIN L[m] :
    L[l][i] = L[m][j] => l = m /\ i = j
OneToOne(q) == \A i, j \in DOMAIN q : q[i] = q[j] => i = j

(* What it is to be in one of the lists.                                     *)
LEMMA InItems ==
  ASSUME NEW L, NEW C, NEW x
  PROVE  x \in Items(L, C) <=> \E l \in C : \E i \in DOMAIN L[l] : L[l][i] = x
<1>1. ASSUME NEW l \in C, NEW i \in DOMAIN L[l], L[l][i] = x
      PROVE  x \in Items(L, C)
  <2>1. x \in Range(L[l])
    BY <1>1 DEF Range
  <2> QED BY <2>1 DEF Items
<1>2. ASSUME x \in Items(L, C)
      PROVE  \E l \in C : \E i \in DOMAIN L[l] : L[l][i] = x
  <2>1. PICK l \in C : x \in Range(L[l])
    BY <1>2 DEF Items
  <2> QED BY <2>1 DEF Range
<1> QED BY <1>1, <1>2

(* What changes only some of the lists is judged by those.                   *)
LEMMA Transfer ==
  ASSUME NEW S, NEW C \in SUBSET S, NEW L, NEW M, NEW D, NEW E,
         Items(L, S) = D, Apart(L, S), D \subseteq E,
         \A l \in S \ C : M[l] = L[l],
         Items(M, C) = Items(L, C) \cup (E \ D),
         Apart(M, C)
  PROVE  Items(M, S) = E /\ Apart(M, S)
<1>1. ASSUME NEW x \in Items(M, S) PROVE x \in E
  <2>1. PICK l \in S : \E i \in DOMAIN M[l] : M[l][i] = x
    BY InItems
  <2>2. CASE l \in C
    <3>1. x \in Items(M, C)
      BY <2>1, <2>2, InItems
    <3>2. x \in Items(L, C) \/ x \in E
      BY <3>1
    <3>3. x \in Items(L, C) => x \in Items(L, S)
      BY InItems
    <3> QED BY <3>2, <3>3
  <2>3. CASE l \notin C
    <3>1. x \in Items(L, S)
      BY <2>1, <2>3, InItems
    <3> QED BY <3>1
  <2> QED BY <2>2, <2>3
<1>2. ASSUME NEW x \in E PROVE x \in Items(M, S)
  <2>1. CASE x \in Items(M, C)
    BY <2>1, InItems
  <2>2. CASE x \notin Items(M, C)
    <3>1. x \in D /\ x \notin Items(L, C)
      BY <2>2
    <3>2. PICK l \in S : \E i \in DOMAIN L[l] : L[l][i] = x
      BY <3>1, InItems
    <3>3. l \notin C
      BY <3>1, <3>2, InItems
    <3>4. M[l] = L[l]
      BY <3>3
    <3> QED BY <3>2, <3>4, InItems
  <2> QED BY <2>1, <2>2
<1>3. ASSUME NEW l \in S, NEW m \in S, NEW i \in DOMAIN M[l], NEW j \in DOMAIN M[m],
             M[l][i] = M[m][j]
      PROVE  l = m /\ i = j
  <2>1. CASE l \in C /\ m \in C
    BY <1>3, <2>1 DEF Apart
  <2>2. CASE l \notin C /\ m \notin C
    <3>1. M[l] = L[l] /\ M[m] = L[m]
      BY <2>2
    <3> QED BY <1>3, <3>1 DEF Apart
  <2>3. ASSUME NEW k \in S, NEW n \in C, k \notin C, NEW a \in DOMAIN M[k], NEW b \in DOMAIN M[n],
               M[k][a] = M[n][b]
        PROVE  FALSE
    <3> DEFINE x == M[k][a]
    <3>1. M[k] = L[k]
      BY <2>3
    <3>2. x \in D
      BY <3>1, InItems
    <3>3. x \in Items(M, C)
      BY <2>3, InItems
    <3>4. x \in Items(L, C)
      BY <3>2, <3>3
    <3>5. PICK o \in C : \E c \in DOMAIN L[o] : L[o][c] = x
      BY <3>4, InItems
    <3>6. o = k
      BY <3>1, <3>5 DEF Apart
    <3> QED BY <2>3, <3>5, <3>6
  <2>4. CASE l \in C /\ m \notin C
    <3>1. M[m][j] = M[l][i]
      BY <1>3
    <3> QED BY <2>3, <2>4, <3>1
  <2>5. CASE l \notin C /\ m \in C
    BY <1>3, <2>3, <2>5
  <2> QED BY <2>1, <2>2, <2>4, <2>5
<1>4. Apart(M, S)
  BY <1>3 DEF Apart
<1> QED BY <1>1, <1>2, <1>4

-----------------------------------------------------------------------------
(* Moving packets from a list to another                                     *)

(* Two lists that share nothing, one after the other.                        *)
LEMMA Join ==
  ASSUME NEW u \in Seq(Nat), NEW v \in Seq(Nat), OneToOne(u), OneToOne(v),
         \A i \in DOMAIN u, j \in DOMAIN v : u[i] # v[j]
  PROVE  /\ u \o v \in Seq(Nat) /\ OneToOne(u \o v)
         /\ Range(u \o v) = Range(u) \cup Range(v)
<1> DEFINE w == u \o v
<1>1. w \in Seq(Nat) /\ Len(w) = Len(u) + Len(v) /\ DOMAIN w = 1..Len(w)
  OBVIOUS
<1>2. Len(u) \in Nat /\ Len(v) \in Nat /\ DOMAIN u = 1..Len(u) /\ DOMAIN v = 1..Len(v)
  OBVIOUS
<1>3. \A i \in DOMAIN w : w[i] = IF i <= Len(u) THEN u[i] ELSE v[i - Len(u)]
  OBVIOUS
<1>4. \A i \in DOMAIN w : i \in DOMAIN u \/ (i > Len(u) /\ i - Len(u) \in DOMAIN v)
  BY <1>1, <1>2
<1>5. \A i \in DOMAIN u : i \in DOMAIN w /\ w[i] = u[i]
  BY <1>1, <1>2, <1>3
<1>6. \A j \in DOMAIN v : Len(u) + j \in DOMAIN w /\ w[Len(u) + j] = v[j]
  <2> TAKE j \in DOMAIN v
  <2>1. Len(u) + j \in DOMAIN w /\ ~(Len(u) + j <= Len(u)) /\ Len(u) + j - Len(u) = j
    BY <1>1, <1>2
  <2> QED BY <1>3, <2>1
<1>7. \A i \in DOMAIN w : i > Len(u) => w[i] = v[i - Len(u)]
  BY <1>1, <1>2, <1>3
<1> HIDE DEF w
<1>8. ASSUME NEW i \in DOMAIN w, NEW j \in DOMAIN w, w[i] = w[j] PROVE i = j
  <2>1. CASE i \in DOMAIN u /\ j \in DOMAIN u
    BY <1>5, <1>8, <2>1 DEF OneToOne
  <2>2. CASE i \in DOMAIN u /\ j \notin DOMAIN u
    BY <1>4, <1>5, <1>7, <1>8, <2>2
  <2>3. CASE i \notin DOMAIN u /\ j \in DOMAIN u
    BY <1>4, <1>5, <1>7, <1>8, <2>3
  <2>4. CASE i \notin DOMAIN u /\ j \notin DOMAIN u
    <3>1. i - Len(u) \in DOMAIN v /\ j - Len(u) \in DOMAIN v /\ i > Len(u) /\ j > Len(u)
      BY <1>4, <2>4
    <3>2. v[i - Len(u)] = v[j - Len(u)]
      BY <1>7, <1>8, <3>1
    <3>3. i - Len(u) = j - Len(u)
      BY <3>1, <3>2 DEF OneToOne
    <3>4. i \in Nat /\ j \in Nat
      BY <1>1
    <3> QED BY <1>2, <3>3, <3>4
  <2> QED BY <2>1, <2>2, <2>3, <2>4
<1>9. ASSUME NEW x PROVE x \in Range(w) <=> x \in Range(u) \cup Range(v)
  <2>1. ASSUME NEW i \in DOMAIN w, w[i] = x PROVE x \in Range(u) \cup Range(v)
    <3>1. CASE i \in DOMAIN u
      BY <1>5, <2>1, <3>1 DEF Range
    <3>2. CASE i > Len(u) /\ i - Len(u) \in DOMAIN v
      BY <1>7, <2>1, <3>2 DEF Range
    <3> QED BY <1>4, <3>1, <3>2
  <2>2. ASSUME NEW i \in DOMAIN u, u[i] = x PROVE x \in Range(w)
    BY <1>5, <2>2 DEF Range
  <2>3. ASSUME NEW i \in DOMAIN v, v[i] = x PROVE x \in Range(w)
    BY <1>6, <2>3 DEF Range
  <2> QED BY <2>1, <2>2, <2>3 DEF Range
<1>10. OneToOne(w) /\ Range(w) = Range(u) \cup Range(v)
  BY <1>8, <1>9 DEF OneToOne
<1> QED BY <1>1, <1>10 DEF w

(* A piece of a list, by its indices.                                        *)
LEMMA Piece ==
  ASSUME NEW u, NEW a \in Int, NEW m \in Int, \A i \in a..m : u[i] \in Nat
  PROVE  /\ SubSeq(u, a, m) \in Seq(Nat)
         /\ Len(SubSeq(u, a, m)) = IF a <= m THEN m - a + 1 ELSE 0
         /\ \A i \in 1..(m - a + 1) : SubSeq(u, a, m)[i] = u[a + i - 1]
BY SubSeqProperties

(* The first n packets of a list and the others.                             *)
LEMMA Split ==
  ASSUME NEW u \in Seq(Nat), NEW n \in 0..Len(u), OneToOne(u)
  PROVE  LET v == SubSeq(u, 1, n)
             w == SubSeq(u, n + 1, Len(u))
         IN  /\ v \in Seq(Nat) /\ w \in Seq(Nat) /\ OneToOne(v) /\ OneToOne(w)
             /\ Range(u) = Range(v) \cup Range(w)
             /\ \A i \in DOMAIN v, j \in DOMAIN w : v[i] # w[j]
             /\ Len(v) = n
<1> DEFINE v == SubSeq(u, 1, n)
           w == SubSeq(u, n + 1, Len(u))
<1>1. Len(u) \in Nat /\ DOMAIN u = 1..Len(u) /\ n \in Nat /\ n <= Len(u)
  OBVIOUS
<1>2. v \in Seq(Nat) /\ Len(v) = n /\ DOMAIN v = 1..n /\ \A i \in 1..n : v[i] = u[i]
  BY <1>1
<1>3. PICK m \in Nat : m = Len(u)
  BY <1>1
<1>4. PICK k \in Nat : k = m - n
  <2>1. m - n \in Nat
    BY <1>1, <1>3
  <2> QED BY <2>1, Zenon
<1>5. \A i \in 1..k : i \in Nat /\ i >= 1 /\ n + i \in 1..m /\ (n + 1) + i - 1 = n + i
  <2>1. n \in Nat /\ n <= m
    BY <1>1, <1>3
  <2> QED BY <1>4, <2>1
<1>6. PICK a \in Nat : a = n + 1
  BY <1>1
<1>7. \A i \in a..m : i \in 1..m
  BY <1>1, <1>6
<1>8. \A i \in a..m : u[i] \in Nat
  BY <1>3, <1>7
<1>9. /\ SubSeq(u, a, m) \in Seq(Nat)
      /\ Len(SubSeq(u, a, m)) = IF a <= m THEN m - a + 1 ELSE 0
      /\ \A i \in 1..(m - a + 1) : SubSeq(u, a, m)[i] = u[a + i - 1]
  <2>1. a \in Int /\ m \in Int
    BY <1>3, <1>6
  <2> QED BY <1>8, <2>1, Piece, Zenon
<1>10. m - a + 1 = k /\ (~(a <= m) => k = 0)
  <2>1. n <= m
    BY <1>1, <1>3
  <2> QED BY <1>1, <1>4, <1>6, <2>1
<1>11. w = SubSeq(u, a, m)
  BY <1>3, <1>6
<1>12. w \in Seq(Nat) /\ Len(w) = k
  BY <1>9, <1>10, <1>11
<1>13. DOMAIN w = 1..k
  BY <1>12
<1>14. \A i \in DOMAIN w : i \in Nat /\ i >= 1 /\ n + i \in DOMAIN u /\ w[i] = u[n + i]
  <2> TAKE i \in DOMAIN w
  <2>1. i \in 1..k /\ w[i] = u[a + i - 1]
    BY <1>9, <1>10, <1>11, <1>13, Zenon
  <2>2. i \in Nat /\ i >= 1 /\ n + i \in 1..m /\ (n + 1) + i - 1 = n + i
    BY <1>5, <2>1, Zenon
  <2>3. w[i] = u[n + i]
    BY <1>6, <2>1, <2>2, Zenon
  <2>4. n + i \in DOMAIN u
    BY <1>1, <1>3, <2>2, Zenon
  <2> QED BY <2>2, <2>3, <2>4
<1> HIDE DEF v, w
<1>15. OneToOne(v)
  BY <1>1, <1>2 DEF OneToOne
<1>16. OneToOne(w)
  <2> SUFFICES ASSUME NEW i \in DOMAIN w, NEW j \in DOMAIN w, w[i] = w[j] PROVE i = j
    BY DEF OneToOne
  <2>1. n + i \in DOMAIN u /\ n + j \in DOMAIN u /\ u[n + i] = u[n + j] /\ i \in Nat /\ j \in Nat
    BY <1>14
  <2>2. n + i = n + j
    BY <2>1 DEF OneToOne
  <2> QED BY <1>1, <2>1, <2>2
<1>17. ASSUME NEW i \in DOMAIN v, NEW j \in DOMAIN w, v[i] = w[j] PROVE FALSE
  <2>1. /\ i \in DOMAIN u /\ n + j \in DOMAIN u /\ u[i] = u[n + j]
        /\ i \in Nat /\ j \in Nat /\ i <= n /\ j >= 1
    BY <1>1, <1>2, <1>17, <1>14
  <2>2. i = n + j
    BY <2>1 DEF OneToOne
  <2> QED BY <1>1, <2>1, <2>2
<1>18. ASSUME NEW x PROVE x \in Range(u) <=> x \in Range(v) \cup Range(w)
  <2>1. ASSUME NEW i \in DOMAIN u, u[i] = x PROVE x \in Range(v) \cup Range(w)
    <3>1. CASE i <= n
      <4>1. i \in DOMAIN v /\ v[i] = x
        BY <1>1, <1>2, <2>1, <3>1
      <4> QED BY <4>1 DEF Range
    <3>2. CASE ~(i <= n)
      <4>1. i - n \in DOMAIN w /\ n + (i - n) = i
        BY <1>1, <1>3, <1>12, <1>4, <2>1, <3>2
      <4>2. w[i - n] = x
        BY <1>14, <2>1, <4>1
      <4> QED BY <4>1, <4>2 DEF Range
    <3> QED BY <3>1, <3>2
  <2>2. ASSUME NEW i \in DOMAIN v, v[i] = x PROVE x \in Range(u)
    <3>1. i \in DOMAIN u /\ u[i] = x
      BY <1>1, <1>2, <2>2
    <3> QED BY <3>1 DEF Range
  <2>3. ASSUME NEW i \in DOMAIN w, w[i] = x PROVE x \in Range(u)
    <3>1. n + i \in DOMAIN u /\ u[n + i] = x
      BY <1>14, <2>3
    <3> QED BY <3>1 DEF Range
  <2> QED BY <2>1, <2>2, <2>3 DEF Range
<1>19. Range(u) = Range(v) \cup Range(w)
  BY <1>18
<1> QED BY <1>2, <1>15, <1>16, <1>17, <1>19, <1>12 DEF v, w

(* New(n) after d packets.                                                   *)
LEMMA Numbers ==
  ASSUME NEW d \in Nat, NEW n \in Nat
  PROVE  LET q == [i \in 1..n |-> d + i]
         IN  /\ q \in Seq(Nat) /\ Len(q) = n /\ OneToOne(q)
             /\ Range(q) = (d + 1)..(d + n)
<1> DEFINE q == [i \in 1..n |-> d + i]
<1>1. q \in Seq(Nat) /\ Len(q) = n
  OBVIOUS
<1>2. OneToOne(q)
  BY DEF OneToOne
<1>3. ASSUME NEW x PROVE x \in Range(q) <=> x \in (d + 1)..(d + n)
  <2>1. ASSUME x \in (d + 1)..(d + n) PROVE x \in Range(q)
    <3>1. x - d \in 1..n /\ d + (x - d) = x
      BY <2>1
    <3>2. q[x - d] = x
      BY <3>1
    <3> QED BY <3>1, <3>2 DEF Range
  <2>2. ASSUME NEW i \in 1..n, q[i] = x PROVE x \in (d + 1)..(d + n)
    BY <2>2
  <2> QED BY <2>1, <2>2 DEF Range
<1> QED BY <1>1, <1>2, <1>3

-----------------------------------------------------------------------------
(* The batches of a round                                                    *)

(* A set of numbers has a least one.                                         *)
LEMMA LeastNumber ==
  ASSUME NEW T \in SUBSET Nat, T # {}
  PROVE  \E m \in T : \A k \in T : m <= k
<1> DEFINE R == OpToRel(<, Nat)
<1>1. IsWellFoundedOn(R, Nat)
  BY NatLessThanWellFounded
<1>2. \A k, m \in Nat : k < m => <<k, m>> \in R
  BY DEF OpToRel
<1> HIDE DEF R
<1>3. PICK m \in T : \A y \in T : ~(<<y, m>> \in R)
  BY <1>1, WFMin
<1>4. ASSUME NEW k \in T PROVE m <= k
  <2>1. ~(k < m)
    BY <1>2, <1>3
  <2> QED BY <2>1
<1> QED BY <1>4

(* The loop over the packets of a list has a result after every packet.      *)
Filled(f, cleared, list, m) ==
  f = [n \in 0..m |-> IF n = 0 THEN cleared ELSE Put(f[n-1], list[n])]

(* The recursive function of Fill exists: the least n up to which it does not is none. *)
LEMMA FilledExists ==
  ASSUME NEW cleared, NEW list, NEW m \in Nat
  PROVE  \E f : Filled(f, cleared, list, m)
<1> DEFINE T == {n \in Nat : ~(\E f : Filled(f, cleared, list, n))}
<1>1. SUFFICES ASSUME T # {} PROVE FALSE
  OBVIOUS
<1>2. PICK k \in T : \A n \in T : k <= n
  BY <1>1, LeastNumber
<1>3. k \in Nat
  OBVIOUS
<1>4. CASE k = 0
  <2> DEFINE f == [n \in 0..k |-> cleared]
  <2>1. f = [n \in 0..k |-> IF n = 0 THEN cleared ELSE Put(f[n-1], list[n])]
    BY <1>4
  <2>2. Filled(f, cleared, list, k)
    BY <2>1 DEF Filled
  <2> QED BY <2>2
<1>5. CASE k # 0
  <2>1. PICK h \in Nat : k = h + 1
    <3>1. k - 1 \in Nat /\ k = (k - 1) + 1
      BY <1>3, <1>5
    <3> QED BY <3>1, Zenon
  <2>2. h \notin T
    BY <1>2, <1>3, <2>1
  <2>3. PICK f : Filled(f, cleared, list, h)
    BY <2>2
  <2> DEFINE g == [n \in 0..k |-> IF n = 0 THEN cleared ELSE Put(f[n-1], list[n])]
  <2>4. ASSUME NEW n \in 0..h PROVE g[n] = f[n]
    <3>1. n \in 0..k
      BY <2>1
    <3>2. g[n] = IF n = 0 THEN cleared ELSE Put(f[n-1], list[n])
      BY <3>1
    <3>3. f[n] = IF n = 0 THEN cleared ELSE Put(f[n-1], list[n])
      BY <2>3 DEF Filled
    <3> QED BY <3>2, <3>3
  <2> DEFINE G(n) == IF n = 0 THEN cleared ELSE Put(g[n-1], list[n])
             F(n) == IF n = 0 THEN cleared ELSE Put(f[n-1], list[n])
  <2>5. ASSUME NEW n \in 0..k PROVE F(n) = G(n)
    <3>1. CASE n = 0
      BY <3>1
    <3>2. CASE n # 0
      <4>1. n - 1 \in 0..h
        BY <2>1, <3>2
      <4>2. f[n-1] = g[n-1]
        BY <2>4, <4>1
      <4> QED BY <4>2
    <3> QED BY <3>1, <3>2
  <2>6. g = [n \in 0..k |-> F(n)]
    OBVIOUS
  <2> HIDE DEF g, F, G
  <2>7. g = [n \in 0..k |-> G(n)]
    BY <2>5, <2>6
  <2>8. Filled(g, cleared, list, k)
    BY <2>7 DEF Filled, G
  <2> QED BY <2>8
<1> QED BY <1>4, <1>5

(* Fill is that function at the end of the list.                             *)
LEMMA FillIs ==
  ASSUME NEW cleared, NEW list, Len(list) \in Nat
  PROVE  \E f : Filled(f, cleared, list, Len(list)) /\ Fill(cleared, list) = f[Len(list)]
<1> DEFINE f == CHOOSE filled : filled = [n \in 0..Len(list) |->
                                  IF n = 0 THEN cleared ELSE Put(filled[n-1], list[n])]
<1>1. \E g : g = [n \in 0..Len(list) |-> IF n = 0 THEN cleared ELSE Put(g[n-1], list[n])]
  <2>1. \E g : Filled(g, cleared, list, Len(list))
    BY FilledExists, Zenon
  <2> QED BY <2>1, Zenon DEF Filled
<1>2. f = [n \in 0..Len(list) |-> IF n = 0 THEN cleared ELSE Put(f[n-1], list[n])]
  BY <1>1, Zenon
<1>3. Fill(cleared, list) = f[Len(list)]
  BY Zenon DEF Fill
<1> HIDE DEF f
<1> QED BY <1>2, <1>3 DEF Filled

(* The batches B hold the first n packets of a list, each at its end point.  *)
Sorted(B, list, n) ==
  /\ B \in [EndPoints -> Seq(Nat)]
  /\ \A e \in EndPoints : \A i \in DOMAIN B[e] :
       \E k \in 1..n : B[e][i] = list[k] /\ EndPoint(list[k]) = e
  /\ \A k \in 1..n : \E i \in DOMAIN B[EndPoint(list[k])] : B[EndPoint(list[k])][i] = list[k]
  /\ \A e \in EndPoints : OneToOne(B[e])

(* One more packet of the list goes to its batch.                            *)
LEMMA PutSorts ==
  ASSUME NEW B, NEW list \in Seq(Nat), NEW n \in Nat, n + 1 \in DOMAIN list, OneToOne(list),
         EndPoint(list[n+1]) \in EndPoints, Sorted(B, list, n)
  PROVE  Sorted(Put(B, list[n+1]), list, n + 1)
<1> DEFINE p == list[n+1]
           e == EndPoint(p)
           C == Put(B, p)
<1>1. p \in Nat /\ e \in EndPoints /\ B \in [EndPoints -> Seq(Nat)]
  BY DEF Sorted
<1>2. C = [B EXCEPT ![e] = Append(B[e], p)]
  BY DEF Put
<1> HIDE DEF C
<1>3. /\ C \in [EndPoints -> Seq(Nat)] /\ C[e] = Append(B[e], p)
      /\ \A f \in EndPoints : f # e => C[f] = B[f]
  <2>1. Append(B[e], p) \in Seq(Nat)
    BY <1>1
  <2> QED BY <1>1, <1>2, <2>1
<1>4. PICK b \in Seq(Nat) : b = B[e]
  BY <1>1
<1>5. /\ DOMAIN Append(b, p) = 1..(Len(b) + 1) /\ Append(b, p)[Len(b) + 1] = p
      /\ \A i \in DOMAIN b : i \in 1..Len(b) /\ Append(b, p)[i] = b[i]
      /\ Len(b) \in Nat /\ DOMAIN b = 1..Len(b)
  BY <1>1, SMTT(60)
<1>6. \A i \in DOMAIN Append(b, p) : i \in DOMAIN b \/ i = Len(b) + 1
  BY <1>5
<1>7. \A k \in 1..(n + 1) : k \in 1..n \/ k = n + 1
  OBVIOUS
<1>8. (1..n) \subseteq 1..(n + 1) /\ n + 1 \in 1..(n + 1) /\ n + 1 \notin 1..n
  OBVIOUS
<1> HIDE DEF p, e
<1>9. ASSUME NEW f \in EndPoints, NEW i \in DOMAIN C[f]
      PROVE  \E k \in 1..(n + 1) : C[f][i] = list[k] /\ EndPoint(list[k]) = f
  <2>1. CASE f # e \/ i \in DOMAIN b
    <3>1. i \in DOMAIN B[f] /\ C[f][i] = B[f][i]
      BY <1>3, <1>4, <1>5, <1>9, <2>1
    <3>2. PICK k \in 1..n : B[f][i] = list[k] /\ EndPoint(list[k]) = f
      BY <3>1 DEF Sorted
    <3> QED BY <1>8, <3>1, <3>2
  <2>2. CASE f = e /\ i = Len(b) + 1
    <3>1. C[f][i] = list[n+1] /\ EndPoint(list[n+1]) = f
      BY <1>3, <1>4, <1>5, <2>2 DEF p, e
    <3> QED BY <1>8, <3>1
  <2> QED BY <1>3, <1>4, <1>6, <2>1, <2>2
<1>10. ASSUME NEW k \in 1..(n + 1)
       PROVE  \E i \in DOMAIN C[EndPoint(list[k])] : C[EndPoint(list[k])][i] = list[k]
  <2>1. CASE k \in 1..n
    <3> DEFINE f == EndPoint(list[k])
    <3>1. PICK i \in DOMAIN B[f] : B[f][i] = list[k]
      BY <2>1 DEF Sorted
    <3>2. CASE f = e
      <4>1. i \in DOMAIN b /\ b[i] = list[k]
        BY <1>4, <3>1, <3>2
      <4>2. i \in DOMAIN C[f] /\ C[f][i] = list[k]
        <5>1. C[f] = Append(b, p)
          BY <1>3, <1>4, <3>2
        <5>2. i \in DOMAIN Append(b, p) /\ Append(b, p)[i] = b[i]
          BY <1>5, <1>6, <4>1
        <5> QED BY <4>1, <5>1, <5>2
      <4> QED BY <4>2
    <3>3. CASE f # e
      <4>1. C[f] = B[f]
        BY <1>2, <1>1, <3>3
      <4> QED BY <3>1, <4>1
    <3> QED BY <3>2, <3>3
  <2>2. CASE k = n + 1
    <3>1. EndPoint(list[k]) = e /\ list[k] = p
      BY <2>2 DEF e, p
    <3>2. Len(b) + 1 \in DOMAIN C[e] /\ C[e][Len(b) + 1] = p
      <4>1. C[e] = Append(b, p)
        BY <1>3, <1>4
      <4>2. Len(b) + 1 \in DOMAIN Append(b, p)
        BY <1>5
      <4> QED BY <1>5, <4>1, <4>2
    <3> QED BY <3>1, <3>2
  <2> QED BY <1>7, <2>1, <2>2
<1>11. ASSUME NEW i \in DOMAIN b PROVE b[i] # p
  <2>1. PICK k \in 1..n : b[i] = list[k]
    BY <1>1, <1>4 DEF Sorted
  <2>2. k \in DOMAIN list /\ k # n + 1
    <3>1. n + 1 <= Len(list) /\ Len(list) \in Nat /\ DOMAIN list = 1..Len(list)
      OBVIOUS
    <3> QED BY <3>1
  <2> QED BY <2>1, <2>2 DEF OneToOne, p
<1>12. ASSUME NEW f \in EndPoints PROVE OneToOne(C[f])
  <2>1. CASE f # e
    BY <1>3, <2>1 DEF Sorted
  <2>2. CASE f = e
    <3>1. OneToOne(b)
      BY <1>1, <1>4 DEF Sorted
    <3>2. ASSUME NEW i \in DOMAIN Append(b, p), NEW j \in DOMAIN Append(b, p),
                 Append(b, p)[i] = Append(b, p)[j]
          PROVE  i = j
      BY <1>5, <1>6, <1>11, <3>1, <3>2 DEF OneToOne
    <3> QED BY <1>3, <1>4, <2>2, <3>2 DEF OneToOne
  <2> QED BY <2>1, <2>2
<1>13. Sorted(C, list, n + 1)
  BY <1>3, <1>9, <1>10, <1>12 DEF Sorted
<1> QED BY <1>13 DEF C, p

(* Batches sorts the list: each packet in one batch, and nothing else.       *)
LEMMA BatchesSort ==
  ASSUME NEW s, NEW list \in Seq(Nat), OneToOne(list),
         \A k \in DOMAIN list : EndPoint(list[k]) \in EndPoints
  PROVE  Sorted(Batches(s, list), list, Len(list))
<1> DEFINE c == [e \in EndPoints |-> <<>>]
<1>1. Len(list) \in Nat /\ DOMAIN list = 1..Len(list)
  OBVIOUS
<1>2. PICK f : Filled(f, c, list, Len(list)) /\ Fill(c, list) = f[Len(list)]
  BY <1>1, FillIs, Zenon
<1>3. f[0] = c /\ \A n \in Nat : n + 1 \in DOMAIN list => f[n+1] = Put(f[n], list[n+1])
  <2> HIDE DEF c
  <2>1. 0 \in 0..Len(list)
    BY <1>1
  <2>2. f[0] = c
    BY <1>2, <2>1 DEF Filled
  <2>3. ASSUME NEW n \in Nat, n + 1 \in DOMAIN list PROVE f[n+1] = Put(f[n], list[n+1])
    <3>1. n + 1 \in 0..Len(list) /\ n + 1 # 0 /\ (n + 1) - 1 = n
      BY <1>1, <2>3
    <3> QED BY <1>2, <3>1 DEF Filled
  <2> QED BY <2>2, <2>3
<1>4. Sorted(c, list, 0)
  <2>1. c \in [EndPoints -> Seq(Nat)] /\ \A e \in EndPoints : c[e] = <<>>
    OBVIOUS
  <2> HIDE DEF c
  <2>2. \A e \in EndPoints : DOMAIN c[e] = {}
    BY <2>1
  <2> QED BY <2>1, <2>2 DEF Sorted, OneToOne
<1> HIDE DEF c
<1> DEFINE T == {n \in 0..Len(list) : ~Sorted(f[n], list, n)}
<1>5. T = {}
  <2> SUFFICES ASSUME T # {} PROVE FALSE
    OBVIOUS
  <2>1. PICK k \in T : \A n \in T : k <= n
    <3>1. T \in SUBSET Nat
      BY <1>1
    <3> QED BY <3>1, LeastNumber
  <2>2. k \in Nat /\ k <= Len(list) /\ ~Sorted(f[k], list, k)
    BY <1>1
  <2>3. k # 0
    BY <1>3, <1>4, <2>2
  <2>4. PICK h \in Nat : k = h + 1
    <3>1. k - 1 \in Nat /\ k = (k - 1) + 1
      BY <2>2, <2>3
    <3> QED BY <3>1, Zenon
  <2>5. h \in 0..Len(list) /\ h + 1 \in DOMAIN list /\ ~(k <= h)
    BY <1>1, <2>2, <2>4
  <2>6. Sorted(f[h], list, h)
    BY <2>1, <2>5
  <2>7. f[k] = Put(f[h], list[h+1])
    BY <1>3, <2>4, <2>5
  <2>8. Sorted(f[k], list, k)
    BY <2>4, <2>5, <2>6, <2>7, PutSorts
  <2> QED BY <2>2, <2>8
<1>6. Sorted(f[Len(list)], list, Len(list))
  <2>1. Len(list) \in 0..Len(list)
    BY <1>1
  <2> QED BY <1>5, <2>1
<1>7. Batches(s, list) = Fill(c, list)
  BY DEF Batches, c
<1> QED BY <1>2, <1>6, <1>7

Starting == {"receiver", "construct", "sender", "driver"}
JoinsReceivers == {"built", "delete", "join receiver"}
AllJoined == {"notify", "ended"}

DriverState ==
  [pc : {"new", "preload", "loop", "submit", "join sender"} \cup JoinsReceivers \cup AllJoined,
   i : Nat, array : Seq(Nat), sent : Nat]
SenderState ==
  [pc : {"new", "run", "test", "wait", "send", "call", "ended"},
   at : Nat, batches : [EndPoints -> Seq(Nat)]]
ReceiverState ==
  [pc : {"new", "run", "build", "check", "serve", "serving", "ended"},
   built : BOOLEAN, server : BOOLEAN, cq : BOOLEAN, down : BOOLEAN]

TypeOK ==
  /\ conf \in Configurations
  /\ main \in (Starting \cup {"wait", "waiting", "join", "freed"}) \X Nat
  /\ driver \in DriverState
  /\ dst \in Seq(EndPoints) /\ sendQ \in Seq(Nat) /\ reapQ \in Seq(Nat)
  /\ flag \in [Senders -> BOOLEAN]
  /\ sender \in [Senders -> SenderState]
  /\ recv \in [Receivers -> ReceiverState]

(* The driver begins after main has started the other threads, without a packet, *)
(* and it keeps none between two submissions.                                *)
DriverInv ==
  /\ driver.pc = "new" <=> main[1] \in Starting
  /\ driver.pc \in {"new", "preload"} => dst = <<>>
  /\ driver.pc # "submit" => driver.array = <<>>

(* A sender works on an end point; comms_async fills the first batch only.   *)
BatchInv ==
  \A s \in Senders : sender[s].pc = "send" =>
    /\ sender[s].at \in EndPoints
    /\ Async => sender[s].at = 1 /\ \A e \in EndPoints \ {1} : sender[s].batches[e] = <<>>

(* Whom the driver has joined has ended.                                     *)
JoinInv ==
  /\ driver.pc = "join sender" =>
       driver.i \in Senders /\ \A s \in Senders : s < driver.i => sender[s].pc = "ended"
  /\ driver.pc \in JoinsReceivers \cup AllJoined => \A s \in Senders : sender[s].pc = "ended"
  /\ driver.pc \in JoinsReceivers =>
       driver.i \in Receivers /\ \A r \in Receivers : r < driver.i => recv[r].pc = "ended"
  /\ driver.pc \in AllJoined => \A r \in Receivers : recv[r].pc = "ended"
  /\ main[1] = "freed" => driver.pc = "ended"

IInv == TypeOK /\ DriverInv /\ BatchInv /\ JoinInv /\ OnePlace

-----------------------------------------------------------------------------
(* Sizes and places                                                          *)

(* What the assumption on the constants says of the configuration of a run.  *)
LEMMA Sizes ==
  ASSUME TypeOK
  PROVE  /\ conf.end_points \in Nat \ {0} /\ conf.receivers \in Nat \ {0}
         /\ conf.senders \in Nat \ {0}
         /\ 1 \in EndPoints /\ 1 \in Receivers /\ 1 \in Senders
         /\ packet_count \in Nat \ {0} /\ send_batch_dequeue \in Nat \ {0} /\ Preload \in Nat \ {0}
<1>1. /\ conf.end_points \in Nat \ {0} /\ conf.receivers \in Nat \ {0}
      /\ conf.senders \in Nat \ {0}
  <2>1. {conf.end_points, conf.receivers, conf.senders} \subseteq Nat \ {0}
    BY EarlyAssumption DEF TypeOK
  <2> QED BY <2>1
<1>2. packet_count \in Nat \ {0} /\ send_batch_dequeue \in Nat \ {0} /\ Preload \in Nat \ {0}
  BY EarlyAssumption
<1> QED BY <1>1, <1>2 DEF EndPoints, Receivers, Senders

(* The places of the driver and the queues, before and after a step.         *)
LEMMA Places ==
  /\ <<0, 1>> \in Lists /\ <<0, 2>> \in Lists /\ <<0, 3>> \in Lists
  /\ List(<<0, 1>>) = driver.array /\ List(<<0, 2>>) = sendQ /\ List(<<0, 3>>) = reapQ
  /\ List(<<0, 1>>)' = driver'.array /\ List(<<0, 2>>)' = sendQ' /\ List(<<0, 3>>)' = reapQ'
  /\ <<0, 1>> # <<0, 2>> /\ <<0, 1>> # <<0, 3>> /\ <<0, 2>> # <<0, 3>>
<1>1. 1 \in 1..3 /\ 2 \in 1..3 /\ 3 \in 1..3
  OBVIOUS
<1>2. <<0, 1>> \in Lists /\ <<0, 2>> \in Lists /\ <<0, 3>> \in Lists
  BY <1>1 DEF Lists
<1>3. List(<<0, 1>>) = driver.array /\ List(<<0, 2>>) = sendQ /\ List(<<0, 3>>) = reapQ
  BY DEF List
<1>4. List(<<0, 1>>)' = driver'.array /\ List(<<0, 2>>)' = sendQ' /\ List(<<0, 3>>)' = reapQ'
  BY DEF List
<1> QED BY <1>2, <1>3, <1>4

(* A place is one of these three or a batch of a sender.                     *)
LEMMA Place ==
  ASSUME NEW l \in Lists
  PROVE  \/ l = <<0, 1>> \/ l = <<0, 2>> \/ l = <<0, 3>>
         \/ \E s \in Senders, e \in EndPoints : l = <<s, e>>
<1>1. ASSUME l \in {0} \X (1..3) PROVE l = <<0, 1>> \/ l = <<0, 2>> \/ l = <<0, 3>>
  <2>1. PICK k \in 1..3 : l = <<0, k>>
    BY <1>1
  <2>2. k = 1 \/ k = 2 \/ k = 3
    OBVIOUS
  <2> QED BY <2>1, <2>2
<1>2. ASSUME l \in Senders \X EndPoints PROVE \E s \in Senders, e \in EndPoints : l = <<s, e>>
  BY <1>2
<1> QED BY <1>1, <1>2 DEF Lists

Batch(s, e) == IF sender[s].pc = "send" /\ e >= sender[s].at THEN sender[s].batches[e] ELSE <<>>

(* The place of a batch is none of those three.                              *)
LEMMA BatchPlace ==
  ASSUME NEW s \in Senders, NEW e \in EndPoints
  PROVE  /\ <<s, e>> \in Lists /\ s # 0
         /\ <<s, e>> # <<0, 1>> /\ <<s, e>> # <<0, 2>> /\ <<s, e>> # <<0, 3>>
         /\ List(<<s, e>>) = Batch(s, e) /\ List(<<s, e>>)' = Batch(s, e)'
<1>1. s # 0
  BY DEF Senders
<1>2. <<s, e>> \in Lists
  BY DEF Lists
<1>3. List(<<s, e>>) = Batch(s, e)
  BY <1>1 DEF List, Batch
<1>4. List(<<s, e>>)' = Batch(s, e)'
  BY <1>1 DEF List, Batch
<1> QED BY <1>1, <1>2, <1>3, <1>4

All == [l \in Lists |-> List(l)]

(* OnePlace in terms of the lists.                                           *)
LEMMA Owned ==
  ASSUME OnePlace
  PROVE  /\ Items(All, Lists) = DOMAIN dst /\ Apart(All, Lists)
         /\ \A l \in Lists : OneToOne(List(l)) /\ Range(List(l)) \subseteq DOMAIN dst
         /\ \A l, m \in Lists : l # m =>
              \A i \in DOMAIN List(l), j \in DOMAIN List(m) : List(l)[i] # List(m)[j]
<1>1. Items(All, Lists) = DOMAIN dst
  <2>1. \A l \in Lists : Range(All[l]) = Range(List(l))
    BY DEF All
  <2> QED BY <2>1 DEF OnePlace, Items
<1>2. Apart(All, Lists)
  BY DEF OnePlace, Apart, All
<1>3. \A l \in Lists : OneToOne(List(l))
  BY DEF OnePlace, OneToOne
<1>4. \A l \in Lists : Range(List(l)) \subseteq DOMAIN dst
  BY DEF OnePlace
<1>5. \A l, m \in Lists : l # m =>
        \A i \in DOMAIN List(l), j \in DOMAIN List(m) : List(l)[i] # List(m)[j]
  BY DEF OnePlace
<1> QED BY <1>1, <1>2, <1>3, <1>4, <1>5

(* A step that changes the lists of C only.                                  *)
LEMMA Moves ==
  ASSUME conf' = conf, OnePlace, NEW C \in SUBSET Lists, NEW M,
         M = [l \in Lists |-> List(l)'],
         \A l \in Lists \ C : List(l)' = List(l),
         DOMAIN dst \subseteq DOMAIN dst',
         Items(M, C) = Items(All, C) \cup (DOMAIN dst' \ DOMAIN dst),
         Apart(M, C)
  PROVE  OnePlace'
<1>1. \A l \in Lists \ C : M[l] = All[l]
  BY DEF All
<1>2. Items(All, Lists) = DOMAIN dst /\ Apart(All, Lists)
  BY Owned
<1>3. Items(M, Lists) = DOMAIN dst' /\ Apart(M, Lists)
  BY <1>1, <1>2, Transfer
<1>4. Lists' = Lists
  BY DEF Lists, Senders, EndPoints
<1>5. UNION {Range(List(l)') : l \in Lists} = DOMAIN dst'
  <2>1. \A l \in Lists : Range(M[l]) = Range(List(l)')
    OBVIOUS
  <2> QED BY <1>3, <2>1 DEF Items
<1>6. \A l, m \in Lists : \A i \in DOMAIN List(l)', j \in DOMAIN List(m)' :
        List(l)'[i] = List(m)'[j] => l = m /\ i = j
  BY <1>3 DEF Apart
<1> QED BY <1>4, <1>5, <1>6 DEF OnePlace

(* The same for two lists, ...                                               *)
LEMMA MovesTwo ==
  ASSUME conf' = conf, OnePlace, NEW x \in Lists, NEW y \in Lists, x # y,
         \A l \in Lists \ {x, y} : List(l)' = List(l),
         DOMAIN dst \subseteq DOMAIN dst',
         Range(List(x)') \cup Range(List(y)')
           = Range(List(x)) \cup Range(List(y)) \cup (DOMAIN dst' \ DOMAIN dst),
         OneToOne(List(x)'), OneToOne(List(y)'),
         \A i \in DOMAIN List(x)', j \in DOMAIN List(y)' : List(x)'[i] # List(y)'[j]
  PROVE  OnePlace'
<1> DEFINE M == [l \in Lists |-> List(l)']
           C == {x, y}
<1>1. C \in SUBSET Lists /\ \A l \in Lists \ C : List(l)' = List(l)
  OBVIOUS
<1>2. M[x] = List(x)' /\ M[y] = List(y)' /\ All[x] = List(x) /\ All[y] = List(y)
  BY DEF All
<1>3. M = [l \in Lists |-> List(l)']
  OBVIOUS
<1> HIDE DEF M
<1>4. \A L : Items(L, C) = Range(L[x]) \cup Range(L[y])
  BY DEF Items
<1>5. Items(M, C) = Items(All, C) \cup (DOMAIN dst' \ DOMAIN dst)
  BY <1>2, <1>4
<1>6. Apart(M, C)
  BY <1>2 DEF Apart, OneToOne
<1> HIDE DEF C
<1> QED BY <1>1, <1>3, <1>5, <1>6, Moves

(* ... and for none.                                                         *)
LEMMA Unmoved ==
  ASSUME conf' = conf, OnePlace, dst' = dst, \A l \in Lists : List(l)' = List(l)
  PROVE  OnePlace'
<1>1. Lists' = Lists
  BY DEF Lists, Senders, EndPoints
<1> QED BY <1>1 DEF OnePlace

(* The lists do not change when the queues, the array and the batches to be  *)
(* sent do not.                                                              *)
LEMMA Still ==
  ASSUME conf' = conf, OnePlace, dst' = dst, UNCHANGED queues, driver'.array = driver.array,
         \A s \in Senders, e \in EndPoints : Batch(s, e)' = Batch(s, e)
  PROVE  OnePlace'
<1>1. ASSUME NEW l \in Lists PROVE List(l)' = List(l)
  <2>1. CASE l = <<0, 1>> \/ l = <<0, 2>> \/ l = <<0, 3>>
    BY <2>1, Places DEF queues
  <2>2. ASSUME NEW s \in Senders, NEW e \in EndPoints, l = <<s, e>> PROVE List(l)' = List(l)
    BY <2>2, BatchPlace
  <2> QED BY <2>1, <2>2, Place
<1> QED BY <1>1, Unmoved

-----------------------------------------------------------------------------
(* Steps that leave the packets where they are                               *)

(* What the driver does not hold, and no sender does, nobody has.            *)
LEMMA Nothing ==
  ASSUME OnePlace, dst = <<>>
  PROVE  \A l \in Lists : DOMAIN List(l) = {}
<1>1. DOMAIN dst = {}
  OBVIOUS
<1>2. \A l \in Lists : Range(List(l)) = {}
  BY <1>1, Owned
<1> QED BY <1>2 DEF Range

(* Nobody has a packet before the driver has made one.                       *)
LEMMA StillEmpty ==
  ASSUME conf' = conf, OnePlace, dst = <<>>, dst' = dst,
         \A l \in Lists : List(l)' = List(l) \/ List(l)' = <<>>
  PROVE  OnePlace'
<1>1. Lists' = Lists
  BY DEF Lists, Senders, EndPoints
<1>2. \A l \in Lists : DOMAIN List(l)' = {}
  BY Nothing
<1>3. DOMAIN dst = {}
  OBVIOUS
<1>4. UNION {Range(List(l)') : l \in Lists} = {}
  BY <1>2 DEF Range
<1> QED BY <1>1, <1>2, <1>3, <1>4 DEF OnePlace

(* Updates of the state of one thread.                                       *)
LEMMA OneState ==
  ASSUME NEW S, NEW T, NEW f \in [S -> T], NEW r, NEW c, r \in S => c \in T
  PROVE  /\ [f EXCEPT ![r] = c] \in [S -> T]
         /\ \A q \in S : q # r => [f EXCEPT ![r] = c][q] = f[q]
         /\ r \in S => [f EXCEPT ![r] = c][r] = c
OBVIOUS

(* Each update of a receiver is a receiver.                                  *)
LEMMA ReceiverFields ==
  ASSUME NEW c \in ReceiverState, NEW b \in BOOLEAN, NEW a \in BOOLEAN, NEW e \in BOOLEAN,
         NEW pc \in {"new", "run", "build", "check", "serve", "serving", "ended"}
  PROVE  /\ [c EXCEPT !.pc = pc] \in ReceiverState
         /\ [c EXCEPT !.pc = pc, !.cq = b] \in ReceiverState
         /\ [c EXCEPT !.server = a, !.cq = b] \in ReceiverState
         /\ [c EXCEPT !.pc = pc, !.server = a, !.built = e] \in ReceiverState
         /\ [c EXCEPT !.down = b] \in ReceiverState
         /\ [c EXCEPT !.server = b] \in ReceiverState
<1>1. [c EXCEPT !.pc = pc] \in ReceiverState
  BY DEF ReceiverState
<1>2. [c EXCEPT !.pc = pc, !.cq = b] \in ReceiverState
  BY DEF ReceiverState
<1>3. [c EXCEPT !.server = a, !.cq = b] \in ReceiverState
  BY DEF ReceiverState
<1>4. [c EXCEPT !.pc = pc, !.server = a, !.built = e] \in ReceiverState
  BY DEF ReceiverState
<1>5. [c EXCEPT !.down = b] \in ReceiverState /\ [c EXCEPT !.server = b] \in ReceiverState
  BY DEF ReceiverState
<1> QED BY <1>1, <1>2, <1>3, <1>4, <1>5

(* Steps of the threads that only wait for others.                           *)
LEMMA ReceiverSteps ==
  ASSUME IInv, NEW r \in Receivers, ReceiverStep(r)
  PROVE  IInv'
<1>1. /\ UNCHANGED <<conf, main, driver, dst, queues, flag, sender>>
      /\ recv[r].pc # "ended"
  BY DEF ReceiverStep, AddQueue, Build, Check, Serve, ServeEnds
<1>2. recv[r] \in ReceiverState
  BY DEF IInv, TypeOK
<1>3. PICK c \in ReceiverState : recv' = [recv EXCEPT ![r] = c]
  <2>1. CASE AddQueue(r)
    <3> DEFINE c == [recv[r] EXCEPT !.pc = "build", !.cq = Async]
    <3>1. c \in ReceiverState
      BY <1>2, ReceiverFields DEF Async
    <3>2. recv' = [recv EXCEPT ![r] = c]
      BY <2>1 DEF AddQueue
    <3> QED BY <3>1, <3>2
  <2>2. CASE Build(r)
    <3>1. PICK up \in BOOLEAN :
            recv' = [recv EXCEPT ![r].pc = "check", ![r].server = up, ![r].built = TRUE]
      BY <2>2 DEF Build
    <3> DEFINE c == [recv[r] EXCEPT !.pc = "check", !.server = up, !.built = TRUE]
    <3>2. c \in ReceiverState
      BY <1>2, ReceiverFields
    <3>3. recv' = [recv EXCEPT ![r] = c]
      BY <3>1
    <3> QED BY <3>2, <3>3
  <2>3. CASE Check(r) \/ Serve(r) \/ ServeEnds(r)
    <3>1. PICK pc \in {"ended", "serve", "serving"} : recv' = [recv EXCEPT ![r].pc = pc]
      BY <2>3 DEF Check, Serve, ServeEnds, Receiver
    <3> DEFINE c == [recv[r] EXCEPT !.pc = pc]
    <3>2. c \in ReceiverState
      BY <1>2, ReceiverFields
    <3>3. recv' = [recv EXCEPT ![r] = c]
      BY <3>1
    <3> QED BY <3>2, <3>3
  <2> QED BY <2>1, <2>2, <2>3 DEF ReceiverStep
<1>4. /\ recv' \in [Receivers -> ReceiverState]
      /\ \A q \in Receivers : q # r => recv'[q] = recv[q]
  BY <1>3, OneState DEF IInv, TypeOK
<1>5. /\ Senders' = Senders /\ Receivers' = Receivers /\ EndPoints' = EndPoints /\ (Async' <=> Async)
      /\ SenderState' = SenderState
  BY <1>1 DEF Senders, Receivers, EndPoints, Async, SenderState
<1>6. TypeOK'
  BY <1>1, <1>4, <1>5 DEF IInv, TypeOK, queues
<1>7. DriverInv'
  BY <1>1 DEF IInv, DriverInv
<1>8. BatchInv'
  BY <1>1, <1>5 DEF IInv, BatchInv
<1>9. JoinInv'
  BY <1>1, <1>4, <1>5 DEF IInv, JoinInv
<1>10. OnePlace'
  BY <1>1, Still DEF IInv, Batch
<1> QED BY <1>6, <1>7, <1>8, <1>9, <1>10 DEF IInv

(* comms_wait and the end of main touch no packet.                           *)
LEMMA WaitSteps ==
  ASSUME IInv, Wait \/ Free, UNCHANGED <<conf, dst, queues, flag>>
  PROVE  IInv'
<1>1. /\ UNCHANGED <<conf, driver, dst, queues, flag, sender, recv>>
      /\ main' \in (Starting \cup {"wait", "waiting", "join", "freed"}) \X Nat
      /\ main[1] \notin Starting /\ main'[1] \notin Starting
      /\ main'[1] = "freed" => driver.pc = "ended"
  <2>1. CASE Wait
    BY <2>1 DEF Wait, Main, At, Starting
  <2>2. CASE Free
    BY <2>2 DEF Free, Main, At, Joined, Starting
  <2> QED BY <2>1, <2>2
<1>2. Senders' = Senders /\ Receivers' = Receivers /\ EndPoints' = EndPoints /\ (Async' <=> Async)
  BY <1>1 DEF Senders, Receivers, EndPoints, Async
<1>3. TypeOK'
  BY <1>1, <1>2 DEF IInv, TypeOK, queues, SenderState, ReceiverState
<1>4. DriverInv'
  BY <1>1 DEF IInv, DriverInv
<1>5. BatchInv'
  BY <1>1, <1>2 DEF IInv, BatchInv
<1>6. JoinInv'
  BY <1>1, <1>2 DEF IInv, JoinInv
<1>7. OnePlace'
  BY <1>1, Still DEF IInv, Batch
<1> QED BY <1>3, <1>4, <1>5, <1>6, <1>7 DEF IInv

(* comms_start touches no packet.                                            *)
LEMMA SpawnSteps ==
  ASSUME IInv, Spawn, UNCHANGED <<conf, dst, queues, flag>>
  PROVE  IInv'
<1> DEFINE i == main[2]
<1>1. main[1] \in Starting /\ driver.pc = "new" /\ dst = <<>> /\ i \in Nat
  BY DEF Spawn, At, Starting, IInv, TypeOK, DriverInv
<1>2. /\ main' \in (Starting \cup {"wait", "waiting", "join", "freed"}) \X Nat
      /\ \/ driver' = driver /\ main'[1] \in Starting
         \/ driver' = [driver EXCEPT !.pc = IF Async THEN "preload" ELSE "loop"] /\ main'[1] = "wait"
  <2>1. CASE At("receiver") \/ At("construct")
    BY <1>1, <2>1 DEF Spawn, Main, At, Starting
  <2>2. CASE At("sender")
    BY <1>1, <2>2 DEF Spawn, Main, At, Starting
  <2>3. CASE At("driver")
    BY <1>1, <2>3 DEF Spawn, Main, At, Starting, Driver
  <2> QED BY <2>1, <2>2, <2>3 DEF Spawn
<1>3. driver.array = <<>> /\ driver \in DriverState
  BY <1>1 DEF IInv, TypeOK, DriverInv
<1>4. /\ driver' \in DriverState /\ driver'.array = <<>>
      /\ driver'.pc \in {"new", "preload", "loop"}
      /\ driver'.pc = "new" <=> main'[1] \in Starting
  <2>1. CASE driver' = driver /\ main'[1] \in Starting
    BY <1>1, <1>3, <2>1
  <2>2. ASSUME NEW pc \in {"preload", "loop"},
               driver' = [driver EXCEPT !.pc = pc], main'[1] = "wait"
        PROVE  /\ driver' \in DriverState /\ driver'.array = <<>>
               /\ driver'.pc \in {"new", "preload", "loop"}
               /\ driver'.pc = "new" <=> main'[1] \in Starting
    BY <1>3, <2>2 DEF DriverState, Starting
  <2> QED BY <1>2, <2>1, <2>2
<1>5. sender' = sender \/ sender' = [sender EXCEPT ![i].pc = "run"]
  BY DEF Spawn, Sender
<1>6. /\ sender' \in [Senders -> SenderState]
      /\ \A s \in Senders : sender'[s] = sender[s] \/ sender'[s].pc = "run"
  <2>1. CASE sender' = sender
    BY <2>1 DEF IInv, TypeOK
  <2>2. CASE sender' = [sender EXCEPT ![i].pc = "run"]
    <3> DEFINE c == [sender[i] EXCEPT !.pc = "run"]
    <3>1. i \in Senders => c \in SenderState /\ c.pc = "run"
      BY DEF IInv, TypeOK, SenderState
    <3>2. sender' = [sender EXCEPT ![i] = c]
      BY <2>2
    <3>3. sender \in [Senders -> SenderState]
      BY DEF IInv, TypeOK
    <3> HIDE DEF c, i
    <3>4. /\ sender' \in [Senders -> SenderState]
          /\ \A s \in Senders : s # i => sender'[s] = sender[s]
          /\ i \in Senders => sender'[i] = c
      BY <3>1, <3>2, <3>3, OneState
    <3> QED BY <3>1, <3>4
  <2> QED BY <1>5, <2>1, <2>2
<1>7. recv' = recv \/ recv' = [recv EXCEPT ![i].pc = "run"]
        \/ recv' = [recv EXCEPT ![i].server = FALSE, ![i].cq = FALSE]
  BY DEF Spawn, Receiver, Construct
<1>8. recv' \in [Receivers -> ReceiverState]
  <2>1. \/ recv' = recv
        \/ recv' = [recv EXCEPT ![i] = [recv[i] EXCEPT !.pc = "run"]]
        \/ recv' = [recv EXCEPT ![i] = [recv[i] EXCEPT !.server = FALSE, !.cq = FALSE]]
    BY <1>7
  <2>2. ASSUME NEW c, i \in Receivers => c \in ReceiverState, recv' = [recv EXCEPT ![i] = c]
        PROVE  recv' \in [Receivers -> ReceiverState]
    <3> HIDE DEF i
    <3>1. recv \in [Receivers -> ReceiverState]
      BY DEF IInv, TypeOK
    <3>2. [recv EXCEPT ![i] = c] \in [Receivers -> ReceiverState]
      BY <2>2, <3>1, OneState, ZenonT(60)
    <3> QED BY <2>2, <3>2
  <2>3. i \in Receivers => /\ [recv[i] EXCEPT !.pc = "run"] \in ReceiverState
                           /\ [recv[i] EXCEPT !.server = FALSE, !.cq = FALSE] \in ReceiverState
    BY ReceiverFields DEF IInv, TypeOK
  <2> QED BY <2>1, <2>2, <2>3 DEF IInv, TypeOK
<1>9. Senders' = Senders /\ Receivers' = Receivers /\ EndPoints' = EndPoints /\ (Async' <=> Async)
  BY DEF Senders, Receivers, EndPoints, Async
<1> HIDE DEF i
<1>10. TypeOK'
  BY <1>2, <1>4, <1>6, <1>8, <1>9 DEF IInv, TypeOK, queues, SenderState
<1>11. DriverInv'
  BY <1>1, <1>4 DEF DriverInv
<1>12. BatchInv'
  <2> SUFFICES ASSUME NEW s \in Senders, sender'[s].pc = "send"
               PROVE  /\ sender'[s].at \in EndPoints
                      /\ Async => /\ sender'[s].at = 1
                                  /\ \A e \in EndPoints \ {1} : sender'[s].batches[e] = <<>>
    BY <1>9 DEF BatchInv
  <2>1. sender'[s] = sender[s]
    BY <1>6
  <2> QED BY <2>1 DEF IInv, BatchInv
<1>13. JoinInv'
  BY <1>2, <1>4 DEF JoinInv, JoinsReceivers, AllJoined, Starting
<1>14. ASSUME NEW l \in Lists PROVE List(l)' = List(l) \/ List(l)' = <<>>
  <2>1. CASE l = <<0, 1>> \/ l = <<0, 2>> \/ l = <<0, 3>>
    BY <1>4, <2>1, Places DEF queues
  <2>2. ASSUME NEW s \in Senders, NEW e \in EndPoints, l = <<s, e>>
        PROVE  List(l)' = List(l) \/ List(l)' = <<>>
    <3>1. Batch(s, e)' = Batch(s, e) \/ Batch(s, e)' = <<>>
      BY <1>6 DEF Batch
    <3> QED BY <2>2, <3>1, BatchPlace
  <2> QED BY <2>1, <2>2, Place
<1>15. OnePlace'
  BY <1>1, <1>14, StillEmpty DEF IInv
<1> QED BY <1>10, <1>11, <1>12, <1>13, <1>15 DEF IInv

-----------------------------------------------------------------------------
(* Steps of a sender                                                         *)

(* A sender at another end point is a sender, ...                            *)
LEMMA SenderAt ==
  ASSUME NEW c \in SenderState, NEW a \in Nat
  PROVE  [c EXCEPT !.at = a] \in SenderState
BY DEF SenderState

(* ... and so is one that has taken packets.                                 *)
LEMMA SenderTakes ==
  ASSUME NEW c \in SenderState, NEW B \in [EndPoints -> Seq(Nat)]
  PROVE  [c EXCEPT !.pc = "send", !.at = 1, !.batches = B] \in SenderState
BY DEF SenderState

(* A sender that is joined has ended, so the driver's knowledge stays true.  *)
LEMMA SenderKeeps ==
  ASSUME IInv, NEW s \in Senders, sender[s].pc # "ended",
         UNCHANGED <<conf, main, driver, dst, recv>>,
         sendQ' \in Seq(Nat), reapQ' \in Seq(Nat), flag' \in [Senders -> BOOLEAN],
         NEW c \in SenderState, sender' = [sender EXCEPT ![s] = c],
         c.pc = "send" =>
           /\ c.at \in EndPoints
           /\ Async => c.at = 1 /\ \A e \in EndPoints \ {1} : c.batches[e] = <<>>
  PROVE  /\ TypeOK' /\ DriverInv' /\ BatchInv' /\ JoinInv'
         /\ sender'[s] = c /\ \A t \in Senders : t # s => sender'[t] = sender[t]
<1>1. sender \in [Senders -> SenderState]
  BY DEF IInv, TypeOK
<1>2. /\ sender' \in [Senders -> SenderState] /\ sender'[s] = c
      /\ \A t \in Senders : t # s => sender'[t] = sender[t]
  BY <1>1, OneState
<1>3. /\ Senders' = Senders /\ Receivers' = Receivers /\ EndPoints' = EndPoints /\ (Async' <=> Async)
      /\ SenderState' = SenderState
  BY DEF Senders, Receivers, EndPoints, Async, SenderState
<1>4. TypeOK'
  BY <1>2, <1>3 DEF IInv, TypeOK
<1>5. DriverInv'
  BY DEF IInv, DriverInv
<1>6. BatchInv'
  <2> SUFFICES ASSUME NEW t \in Senders, sender'[t].pc = "send"
               PROVE  /\ sender'[t].at \in EndPoints
                      /\ Async => /\ sender'[t].at = 1
                                  /\ \A e \in EndPoints \ {1} : sender'[t].batches[e] = <<>>
    BY <1>3 DEF BatchInv
  <2>1. CASE t = s
    BY <1>2, <2>1
  <2>2. CASE t # s
    <3>1. sender'[t] = sender[t]
      BY <1>2, <2>2
    <3> QED BY <3>1 DEF IInv, BatchInv
  <2> QED BY <2>1, <2>2
<1>7. \A t \in Senders : sender[t].pc = "ended" => sender'[t].pc = "ended"
  BY <1>2
<1>8. JoinInv'
  BY <1>3, <1>7 DEF IInv, JoinInv
<1> QED BY <1>2, <1>4, <1>5, <1>6, <1>8

(* A sender that begins, looks at its flag, or takes a completion.           *)
LEMMA RunSteps ==
  ASSUME IInv, NEW s \in Senders, Run(s) \/ Test(s) \/ Complete(s), UNCHANGED <<conf, main, driver, dst, recv>>
  PROVE  IInv'
<1>1. PICK pc \in {"test", "ended", "wait"} : sender' = [sender EXCEPT ![s].pc = pc]
  BY DEF Run, Test, Complete, Sender
<1>2. sender[s].pc \in {"run", "test", "call"} /\ UNCHANGED queues
  BY DEF Run, Test, Complete
<1>3. flag' \in [Senders -> BOOLEAN]
  BY DEF Run, Test, Complete, IInv, TypeOK, Async
<1> DEFINE c == [sender[s] EXCEPT !.pc = pc]
<1>4. c \in SenderState /\ c.pc # "send" /\ sender' = [sender EXCEPT ![s] = c]
  <2>1. sender[s] \in SenderState
    BY DEF IInv, TypeOK
  <2> QED BY <1>1, <2>1 DEF SenderState
<1> HIDE DEF c
<1>5. sendQ' \in Seq(Nat) /\ reapQ' \in Seq(Nat)
  BY <1>2 DEF IInv, TypeOK, queues
<1>6. /\ TypeOK' /\ DriverInv' /\ BatchInv' /\ JoinInv'
      /\ sender'[s] = c /\ \A t \in Senders : t # s => sender'[t] = sender[t]
  BY <1>2, <1>3, <1>4, <1>5, SenderKeeps
<1>7. ASSUME NEW t \in Senders, NEW e \in EndPoints PROVE Batch(t, e)' = Batch(t, e)
  <2>1. CASE t = s
    BY <1>2, <1>4, <1>6, <2>1 DEF Batch
  <2>2. CASE t # s
    BY <1>6, <2>2 DEF Batch
  <2> QED BY <2>1, <2>2
<1>8. OnePlace'
  BY <1>2, <1>7, Still DEF IInv
<1> QED BY <1>6, <1>8 DEF IInv

(* Sending moves a batch to the reap queue.                                  *)
LEMMA SendSteps ==
  ASSUME IInv, NEW s \in Senders, Send(s) \/ Call(s), UNCHANGED <<conf, main, driver, dst, recv>>
  PROVE  IInv'
<1>1. PICK e : e = sender[s].at
  OBVIOUS
<1>2. PICK b : b = sender[s].batches[e]
  OBVIOUS
<1>3. /\ sender[s].pc = "send" /\ reapQ' = reapQ \o b /\ UNCHANGED <<sendQ, flag>>
      /\ IF Async \/ e = conf.end_points
           THEN \E pc \in {"test", "call"} : sender' = [sender EXCEPT ![s].pc = pc]
           ELSE sender' = [sender EXCEPT ![s].at = e + 1]
  <2>1. CASE Send(s)
    BY <1>1, <1>2, <2>1 DEF Send, Sender
  <2>2. CASE Call(s)
    <3>1. Async /\ e = 1
      BY <1>1, <2>2 DEF Call, IInv, BatchInv
    <3> QED BY <1>2, <2>2, <3>1 DEF Call, Sender
  <2> QED BY <2>1, <2>2
<1>4. /\ e \in EndPoints /\ sender[s] \in SenderState
      /\ Async => e = 1 /\ \A f \in EndPoints \ {1} : sender[s].batches[f] = <<>>
  BY <1>3, <1>1 DEF IInv, TypeOK, BatchInv
<1>5. e \in Nat /\ b \in Seq(Nat) /\ reapQ \in Seq(Nat) /\ sendQ \in Seq(Nat)
      /\ conf.end_points \in Nat /\ EndPoints = 1 .. conf.end_points
  <2>1. conf.end_points \in Nat /\ EndPoints = 1 .. conf.end_points
    BY Sizes DEF IInv, EndPoints
  <2>2. e \in Nat
    BY <1>4, <2>1
  <2>3. sender[s].batches \in [EndPoints -> Seq(Nat)]
    BY <1>4 DEF SenderState
  <2>4. b \in Seq(Nat)
    BY <1>4, <1>2, <2>3
  <2> QED BY <2>1, <2>2, <2>4 DEF IInv, TypeOK
<1>6. PICK c \in SenderState :
        /\ sender' = [sender EXCEPT ![s] = c]
        /\ c.batches = sender[s].batches
        /\ IF Async \/ e = conf.end_points
             THEN c.pc \in {"test", "call"}
             ELSE c.pc = "send" /\ c.at = e + 1
  <2>1. CASE Async \/ e = conf.end_points
    <3>3. PICK pc \in {"test", "call"} : sender' = [sender EXCEPT ![s].pc = pc]
      BY <1>3, <2>1
    <3> DEFINE c == [sender[s] EXCEPT !.pc = pc]
    <3>1. c \in SenderState /\ c.pc = pc /\ c.batches = sender[s].batches
      BY <1>4 DEF SenderState
    <3>2. sender' = [sender EXCEPT ![s] = c]
      BY <3>3
    <3> HIDE DEF c
    <3> QED BY <2>1, <3>1, <3>2
  <2>2. CASE ~(Async \/ e = conf.end_points)
    <3> DEFINE c == [sender[s] EXCEPT !.at = e + 1]
    <3>1. e + 1 \in Nat
      BY <1>5
    <3>3. c \in SenderState
      BY <1>4, <3>1, SenderAt
    <3>4. c.pc = "send" /\ c.at = e + 1 /\ c.batches = sender[s].batches
      BY <1>3, <1>4 DEF SenderState
    <3>2. sender' = [sender EXCEPT ![s] = c]
      BY <1>3, <2>2
    <3> HIDE DEF c
    <3> QED BY <2>2, <3>2, <3>3, <3>4
  <2> QED BY <2>1, <2>2
<1>7. c.pc = "send" => c.at \in EndPoints /\ ~Async
  BY <1>4, <1>5, <1>6
<1>8. /\ b = List(<<s, e>>) /\ reapQ = List(<<0, 3>>)
      /\ <<s, e>> \in Lists /\ <<0, 3>> \in Lists /\ <<s, e>> # <<0, 3>>
  <2>1. Batch(s, e) = b
    BY <1>3, <1>5, <1>1, <1>2 DEF Batch
  <2> QED BY <1>4, <2>1, BatchPlace, Places
<1>9. /\ OneToOne(b) /\ OneToOne(reapQ)
      /\ \A i \in DOMAIN reapQ, j \in DOMAIN b : reapQ[i] # b[j]
  BY <1>8, Owned DEF IInv
<1>10. reapQ' \in Seq(Nat) /\ OneToOne(reapQ') /\ Range(reapQ') = Range(reapQ) \cup Range(b)
  BY <1>3, <1>5, <1>9, Join
<1>11. flag' \in [Senders -> BOOLEAN] /\ sendQ' \in Seq(Nat)
  BY <1>3 DEF IInv, TypeOK
<1>12. /\ TypeOK' /\ DriverInv' /\ BatchInv' /\ JoinInv'
       /\ sender'[s] = c /\ \A t \in Senders : t # s => sender'[t] = sender[t]
  BY <1>3, <1>6, <1>7, <1>10, <1>11, SenderKeeps
<1>13. List(<<s, e>>)' = <<>>
  <2>1. Batch(s, e)' = <<>>
    BY <1>5, <1>6, <1>12 DEF Batch
  <2> QED BY <1>4, <2>1, BatchPlace
<1>14. ASSUME NEW f \in EndPoints, f # e PROVE Batch(s, f)' = Batch(s, f)
  <2>1. CASE Async
    <3>1. sender[s].batches[f] = <<>>
      BY <1>4, <1>14, <2>1
    <3> QED BY <1>6, <1>12, <2>1, <3>1 DEF Batch
  <2>2. CASE ~Async /\ e = conf.end_points
    <3>1. ~(f >= e)
      BY <1>5, <1>14, <2>2
    <3> QED BY <1>6, <1>12, <1>1, <2>2, <3>1 DEF Batch
  <2>3. CASE ~Async /\ e # conf.end_points
    <3>1. f >= e <=> f >= e + 1
      BY <1>5, <1>14
    <3> QED BY <1>3, <1>6, <1>12, <1>1, <2>3, <3>1 DEF Batch
  <2> QED BY <2>1, <2>2, <2>3
<1>15. ASSUME NEW l \in Lists, l # <<0, 3>>, l # <<s, e>> PROVE List(l)' = List(l)
  <2>1. CASE l = <<0, 1>> \/ l = <<0, 2>>
    BY <1>3, <2>1, Places
  <2>2. ASSUME NEW t \in Senders, NEW f \in EndPoints, l = <<t, f>> PROVE List(l)' = List(l)
    <3>1. Batch(t, f)' = Batch(t, f)
      <4>1. CASE t = s
        BY <1>14, <1>15, <2>2, <4>1
      <4>2. CASE t # s
        BY <1>12, <4>2 DEF Batch
      <4> QED BY <4>1, <4>2
    <3> QED BY <2>2, <3>1, BatchPlace
  <2> QED BY <1>15, <2>1, <2>2, Place
<1>16. OnePlace'
  <2>1. List(<<0, 3>>)' = reapQ'
    BY Places
  <2>2. Range(<<>>) = {} /\ OneToOne(<<>>) /\ DOMAIN <<>> = {}
    BY DEF Range, OneToOne
  <2>3. Range(List(<<0, 3>>)') \cup Range(List(<<s, e>>)')
          = Range(List(<<0, 3>>)) \cup Range(List(<<s, e>>)) \cup (DOMAIN dst' \ DOMAIN dst)
    BY <1>8, <1>10, <1>13, <2>1, <2>2
  <2>4. /\ OneToOne(List(<<0, 3>>)') /\ OneToOne(List(<<s, e>>)')
        /\ \A i \in DOMAIN List(<<0, 3>>)', j \in DOMAIN List(<<s, e>>)' :
             List(<<0, 3>>)'[i] # List(<<s, e>>)'[j]
    BY <1>10, <1>13, <2>1, <2>2
  <2>5. \A l \in Lists \ {<<0, 3>>, <<s, e>>} : List(l)' = List(l)
    BY <1>15
  <2>6. DOMAIN dst \subseteq DOMAIN dst'
    OBVIOUS
  <2> DEFINE x == <<0, 3>>
             y == <<s, e>>
  <2>7. conf' = conf /\ OnePlace
    BY DEF IInv
  <2>8. x \in Lists /\ y \in Lists /\ x # y
    BY <1>8
  <2> HIDE DEF x, y
  <2> QED BY <2>3, <2>4, <2>5, <2>6, <2>7, <2>8, MovesTwo DEF x, y
<1> QED BY <1>12, <1>16 DEF IInv

(* Take moves packets from the send queue to the batches.                    *)
LEMMA LeastIs ==
  ASSUME NEW a \in Nat, NEW b \in Nat
  PROVE  Least(a, b) \in 0 .. a /\ Least(a, b) \in 0 .. b
BY DEF Least

(* Take moves the first packets of the send queue to the batches of a sender. *)
LEMMA TakeSteps ==
  ASSUME IInv, NEW s \in Senders, Take(s), UNCHANGED <<conf, main, driver, dst, recv>>
  PROVE  IInv'
<1>1. sendQ \in Seq(Nat) /\ Len(sendQ) \in Nat /\ send_batch_dequeue \in Nat
  BY Sizes DEF IInv, TypeOK
<1>2. PICK n \in 0 .. Len(sendQ) : n = Least(Len(sendQ), send_batch_dequeue)
  BY <1>1, LeastIs
<1>3. PICK list : list = SubSeq(sendQ, 1, n)
  OBVIOUS
<1>4. PICK rest : rest = SubSeq(sendQ, n + 1, Len(sendQ))
  OBVIOUS
<1>5. PICK B : B = Batches(s, list)
  OBVIOUS
<1>6. /\ sender[s].pc = "wait" /\ sendQ' = rest /\ UNCHANGED <<reapQ, flag>>
      /\ sender' = [sender EXCEPT ![s].pc = "send", ![s].at = 1, ![s].batches = B]
  BY <1>2, <1>3, <1>4, <1>5 DEF Take
<1>7. List(<<0, 2>>) = sendQ /\ List(<<0, 2>>)' = rest /\ <<0, 2>> \in Lists
  BY <1>6, Places
<1>8. OneToOne(sendQ) /\ Range(sendQ) \subseteq DOMAIN dst
  BY <1>7, Owned DEF IInv
<1>9. /\ list \in Seq(Nat) /\ rest \in Seq(Nat) /\ OneToOne(list) /\ OneToOne(rest)
      /\ Range(sendQ) = Range(list) \cup Range(rest)
      /\ \A i \in DOMAIN list, j \in DOMAIN rest : list[i] # rest[j]
  BY <1>1, <1>3, <1>4, <1>8, Split
<1>10. \A k \in DOMAIN list : EndPoint(list[k]) \in EndPoints
  <2> TAKE k \in DOMAIN list
  <2>1. list[k] \in DOMAIN dst
    BY <1>8, <1>9 DEF Range
  <2>2. dst \in Seq(EndPoints) /\ 1 \in EndPoints
    BY Sizes DEF IInv, TypeOK
  <2>3. dst[list[k]] \in EndPoints
    BY <2>1, <2>2
  <2> QED BY <2>2, <2>3 DEF EndPoint
<1>11. Sorted(B, list, Len(list))
  BY <1>5, <1>9, <1>10, BatchesSort
<1>12. B \in [EndPoints -> Seq(Nat)] /\ DOMAIN list = 1 .. Len(list)
  BY <1>9, <1>11 DEF Sorted
<1> DEFINE c == [sender[s] EXCEPT !.pc = "send", !.at = 1, !.batches = B]
<1>13. /\ c \in SenderState /\ sender' = [sender EXCEPT ![s] = c]
       /\ c.pc = "send" /\ c.at = 1 /\ c.batches = B
  <2>1. sender[s] \in SenderState
    BY DEF IInv, TypeOK
  <2>2. c \in SenderState
    BY <1>12, <2>1, SenderTakes
  <2>3. c.pc = "send" /\ c.at = 1 /\ c.batches = B
    BY <2>1 DEF SenderState
  <2>4. sender' = [sender EXCEPT ![s] = c]
    BY <1>6
  <2> HIDE DEF c
  <2> QED BY <2>2, <2>3, <2>4
<1> HIDE DEF c
<1>14. ASSUME Async, NEW e \in EndPoints \ {1} PROVE B[e] = <<>>
  <2>1. \A i \in DOMAIN B[e] : FALSE
    BY <1>11, <1>14 DEF Sorted, EndPoint
  <2>2. PICK b \in Seq(Nat) : b = B[e]
    BY <1>12
  <2>3. Len(b) \in Nat /\ DOMAIN b = 1 .. Len(b)
    OBVIOUS
  <2>4. PICK k \in Nat : k = Len(b)
    BY <2>3
  <2>5. k = 0
    <3>1. 1 \notin DOMAIN b
      BY <2>1, <2>2
    <3> QED BY <2>3, <2>4, <3>1
  <2>6. Len(b) = 0
    BY <2>4, <2>5
  <2>7. b = <<>>
    BY <2>6
  <2> QED BY <2>2, <2>7
<1>15. c.pc = "send" =>
         /\ c.at \in EndPoints
         /\ Async => c.at = 1 /\ \A e \in EndPoints \ {1} : c.batches[e] = <<>>
  BY <1>13, <1>14, Sizes DEF IInv
<1>16. sendQ' \in Seq(Nat) /\ reapQ' \in Seq(Nat) /\ flag' \in [Senders -> BOOLEAN]
  BY <1>6, <1>9 DEF IInv, TypeOK
<1>17. /\ TypeOK' /\ DriverInv' /\ BatchInv' /\ JoinInv'
       /\ sender'[s] = c /\ \A t \in Senders : t # s => sender'[t] = sender[t]
  BY <1>6, <1>13, <1>15, <1>16, SenderKeeps
<1>18. ASSUME NEW e \in EndPoints
       PROVE  <<s, e>> \in Lists /\ List(<<s, e>>) = <<>> /\ List(<<s, e>>)' = B[e]
  <2>1. Batch(s, e) = <<>>
    BY <1>6 DEF Batch
  <2>2. Batch(s, e)' = B[e]
    <3>1. e >= 1
      BY Sizes DEF EndPoints, IInv
    <3> QED BY <1>13, <1>17, <3>1 DEF Batch
  <2> QED BY <2>1, <2>2, BatchPlace
<1> DEFINE C == {<<0, 2>>} \cup ({s} \X EndPoints)
           M == [l \in Lists |-> List(l)']
<1>19. C \in SUBSET Lists
  BY <1>7, <1>18
<1>20. ASSUME NEW l \in Lists, l \notin C PROVE List(l)' = List(l)
  <2>1. CASE l = <<0, 1>> \/ l = <<0, 3>>
    BY <1>6, <2>1, Places
  <2>2. ASSUME NEW t \in Senders, NEW e \in EndPoints, l = <<t, e>> PROVE List(l)' = List(l)
    <3>1. t # s
      BY <1>20, <2>2
    <3>2. Batch(t, e)' = Batch(t, e)
      BY <1>17, <3>1 DEF Batch
    <3> QED BY <2>2, <3>2, BatchPlace
  <2> QED BY <1>20, <2>1, <2>2, Place
<1>21. /\ M[<<0, 2>>] = rest /\ All[<<0, 2>>] = sendQ
       /\ \A e \in EndPoints : M[<<s, e>>] = B[e] /\ All[<<s, e>>] = <<>>
  BY <1>7, <1>18 DEF All
<1>22. \A l \in C : l = <<0, 2>> \/ \E e \in EndPoints : l = <<s, e>>
  OBVIOUS
<1>23. <<0, 2>> \in C /\ \A e \in EndPoints : <<s, e>> \in C
  OBVIOUS
<1>24. M = [l \in Lists |-> List(l)']
  OBVIOUS
<1> HIDE DEF C, M
<1>25. ASSUME NEW x PROVE x \in Items(All, C) <=> x \in Range(sendQ)
  <2>1. ASSUME NEW l \in C, NEW i \in DOMAIN All[l], All[l][i] = x PROVE x \in Range(sendQ)
    <3>1. CASE l = <<0, 2>>
      BY <1>21, <2>1, <3>1 DEF Range
    <3>2. ASSUME NEW e \in EndPoints, l = <<s, e>> PROVE FALSE
      <4>1. All[l] = <<>>
        BY <1>21, <3>2
      <4> QED BY <2>1, <4>1
    <3> QED BY <1>22, <3>1, <3>2
  <2>2. ASSUME x \in Range(sendQ) PROVE x \in Items(All, C)
    BY <1>21, <1>23, <2>2 DEF Items
  <2> QED BY <2>1, <2>2, InItems
<1>26. ASSUME NEW x PROVE x \in Items(M, C) <=> x \in Range(list) \cup Range(rest)
  <2>1. ASSUME NEW l \in C, NEW i \in DOMAIN M[l], M[l][i] = x
        PROVE  x \in Range(list) \cup Range(rest)
    <3>1. CASE l = <<0, 2>>
      BY <1>21, <2>1, <3>1 DEF Range
    <3>2. ASSUME NEW e \in EndPoints, l = <<s, e>> PROVE x \in Range(list)
      <4>1. i \in DOMAIN B[e] /\ B[e][i] = x
        BY <1>21, <2>1, <3>2
      <4>2. PICK k \in 1 .. Len(list) : x = list[k]
        BY <1>11, <4>1 DEF Sorted
      <4> QED BY <1>12, <4>2 DEF Range
    <3> QED BY <1>22, <3>1, <3>2
  <2>2. ASSUME x \in Range(rest) PROVE x \in Items(M, C)
    BY <1>21, <1>23, <2>2 DEF Items
  <2>3. ASSUME x \in Range(list) PROVE x \in Items(M, C)
    <3>1. PICK k \in 1 .. Len(list) : x = list[k]
      BY <1>12, <2>3 DEF Range
    <3>2. PICK e \in EndPoints : e = EndPoint(list[k])
      BY <1>10, <1>12
    <3>3. PICK i \in DOMAIN B[e] : B[e][i] = x
      BY <1>11, <3>1, <3>2 DEF Sorted
    <3>4. <<s, e>> \in C /\ i \in DOMAIN M[<<s, e>>] /\ M[<<s, e>>][i] = x
      BY <1>21, <1>23, <3>3
    <3> QED BY <3>4, InItems
  <2> QED BY <2>1, <2>2, <2>3, InItems
<1>27. Items(M, C) = Items(All, C) \cup (DOMAIN dst' \ DOMAIN dst)
  <2>1. DOMAIN dst' \ DOMAIN dst = {}
    OBVIOUS
  <2>2. \A x : x \in Items(M, C) <=> x \in Items(All, C)
    BY <1>9, <1>25, <1>26
  <2> QED BY <2>1, <2>2
<1>28. ASSUME NEW e \in EndPoints, NEW i \in DOMAIN B[e], NEW j \in DOMAIN rest
       PROVE  B[e][i] # rest[j]
  <2>1. PICK k \in 1 .. Len(list) : B[e][i] = list[k]
    BY <1>11 DEF Sorted
  <2> QED BY <1>9, <1>12, <2>1
<1>29. ASSUME NEW e \in EndPoints, NEW f \in EndPoints, NEW i \in DOMAIN B[e], NEW j \in DOMAIN B[f],
              B[e][i] = B[f][j]
       PROVE  e = f /\ i = j
  <2>1. EndPoint(B[e][i]) = e /\ EndPoint(B[f][j]) = f
    BY <1>11 DEF Sorted
  <2>2. e = f
    BY <1>29, <2>1
  <2> QED BY <1>11, <1>29, <2>2 DEF Sorted, OneToOne
<1>30. Apart(M, C)
  <2> SUFFICES ASSUME NEW l \in C, NEW m \in C, NEW i \in DOMAIN M[l], NEW j \in DOMAIN M[m],
                      M[l][i] = M[m][j]
               PROVE  l = m /\ i = j
    BY DEF Apart
  <2>1. CASE l = <<0, 2>> /\ m = <<0, 2>>
    BY <1>9, <1>21, <2>1 DEF OneToOne
  <2>2. ASSUME NEW e \in EndPoints, l = <<s, e>>, m = <<0, 2>> PROVE FALSE
    BY <1>21, <1>28, <2>2
  <2>3. ASSUME NEW e \in EndPoints, m = <<s, e>>, l = <<0, 2>> PROVE FALSE
    BY <1>21, <1>28, <2>3
  <2>4. ASSUME NEW e \in EndPoints, NEW f \in EndPoints, l = <<s, e>>, m = <<s, f>>
        PROVE  l = m /\ i = j
    <3>1. i \in DOMAIN B[e] /\ j \in DOMAIN B[f] /\ B[e][i] = B[f][j]
      BY <1>21, <2>4
    <3> QED BY <1>29, <2>4, <3>1
  <2> QED BY <1>22, <2>1, <2>2, <2>3, <2>4
<1>31. OnePlace'
  <2>1. conf' = conf /\ OnePlace /\ DOMAIN dst \subseteq DOMAIN dst'
    BY DEF IInv
  <2>2. \A l \in Lists \ C : List(l)' = List(l)
    BY <1>20
  <2> QED BY <1>19, <1>24, <1>27, <1>30, <2>1, <2>2, Moves
<1> QED BY <1>17, <1>31 DEF IInv

(* Every step of a sender keeps the invariant.                               *)
LEMMA SenderSteps ==
  ASSUME IInv, NEW s \in Senders, SenderStep(s)
  PROVE  IInv'
<1>1. UNCHANGED <<conf, main, driver, dst, recv>>
  BY DEF SenderStep
<1> QED BY <1>1, RunSteps, TakeSteps, SendSteps DEF SenderStep

-----------------------------------------------------------------------------
(* Steps of the driver                                                       *)

(* A step of the driver that submits packets: it has joined nobody yet.      *)
LEMMA DriverRuns ==
  ASSUME IInv, UNCHANGED <<conf, sender, flag, recv, main>>,
         driver.pc \in {"preload", "loop", "submit"},
         driver' \in DriverState, driver'.pc \in {"loop", "submit"},
         driver'.pc = "loop" => driver'.array = <<>>,
         dst' \in Seq(EndPoints), sendQ' \in Seq(Nat), reapQ' \in Seq(Nat)
  PROVE  TypeOK' /\ DriverInv' /\ BatchInv' /\ JoinInv'
<1>1. /\ Senders' = Senders /\ Receivers' = Receivers /\ EndPoints' = EndPoints /\ (Async' <=> Async)
      /\ SenderState' = SenderState
  BY DEF Senders, Receivers, EndPoints, Async, SenderState
<1>2. TypeOK'
  BY <1>1 DEF IInv, TypeOK
<1>3. DriverInv'
  BY DEF IInv, DriverInv
<1>4. BatchInv'
  BY <1>1 DEF IInv, BatchInv
<1>5. JoinInv'
  <2>1. main[1] # "freed"
    BY DEF IInv, JoinInv
  <2> QED BY <2>1 DEF JoinInv, JoinsReceivers, AllJoined
<1> QED BY <1>2, <1>3, <1>4, <1>5

(* The places that a step of the driver leaves alone.                        *)
LEMMA Others ==
  ASSUME UNCHANGED <<conf, sender>>,
         NEW l \in Lists, l # <<0, 1>>, l # <<0, 2>>, l # <<0, 3>>
  PROVE  List(l)' = List(l)
<1>1. PICK s \in Senders, e \in EndPoints : l = <<s, e>>
  BY Place
<1>2. Batch(s, e)' = Batch(s, e)
  BY DEF Batch
<1> QED BY <1>1, <1>2, BatchPlace

(* Two lists that have nothing in common.                                    *)
LEMMA Disjoint ==
  ASSUME NEW u, NEW v, \A x : ~(x \in Range(u) /\ x \in Range(v))
  PROVE  \A i \in DOMAIN u, j \in DOMAIN v : u[i] # v[j]
BY DEF Range

(* dst after new packets.                                                    *)
LEMMA Created ==
  ASSUME NEW S, 1 \in S, NEW d \in Seq(S), NEW n \in Nat
  PROVE  LET e == d \o [i \in 1..n |-> 1]
         IN  /\ e \in Seq(S) /\ DOMAIN d \subseteq DOMAIN e
             /\ DOMAIN e \ DOMAIN d = (Len(d) + 1)..(Len(d) + n)
<1> DEFINE f == [i \in 1..n |-> 1]
           e == d \o f
<1>1. f \in Seq(S) /\ Len(f) = n
  OBVIOUS
<1> HIDE DEF f
<1>2. e \in Seq(S) /\ Len(e) = Len(d) + n
  BY <1>1
<1>3. PICK a \in Nat, b \in Nat : a = Len(d) /\ b = Len(e) /\ b = a + n
  BY <1>2
<1>4. DOMAIN d = 1..a /\ DOMAIN e = 1..b
  BY <1>2, <1>3
<1>5. (1..a) \subseteq 1..b /\ (1..b) \ (1..a) = (a + 1)..(a + n)
  BY <1>3
<1> QED BY <1>2, <1>3, <1>4, <1>5 DEF f

(* Each update of the driver is a driver.                                    *)
LEMMA DriverFields ==
  ASSUME NEW c \in DriverState, NEW a \in Seq(Nat), NEW n \in Nat,
         NEW pc \in {"new", "preload", "loop", "submit", "join sender"}
                      \cup JoinsReceivers \cup AllJoined
  PROVE  /\ [c EXCEPT !.pc = pc] \in DriverState
         /\ [c EXCEPT !.i = n] \in DriverState
         /\ [c EXCEPT !.pc = pc, !.i = n] \in DriverState
         /\ [c EXCEPT !.array = a, !.pc = pc] \in DriverState
         /\ [c EXCEPT !.pc = pc, !.array = a, !.sent = n] \in DriverState
<1>1. [c EXCEPT !.pc = pc] \in DriverState
  BY DEF DriverState
<1>2. [c EXCEPT !.i = n] \in DriverState
  BY DEF DriverState
<1>3. [c EXCEPT !.pc = pc, !.i = n] \in DriverState
  BY DEF DriverState
<1>4. [c EXCEPT !.array = a, !.pc = pc] \in DriverState
  BY DEF DriverState
<1>5. [c EXCEPT !.pc = pc, !.array = a, !.sent = n] \in DriverState
  BY DEF DriverState
<1> QED BY <1>1, <1>2, <1>3, <1>4, <1>5

(* The packets that comms_async begins with.                                 *)
LEMMA PreloadSteps ==
  ASSUME IInv, PreloadReap, UNCHANGED <<conf, sender>>
  PROVE  IInv'
<1>1. /\ driver.pc = "preload" /\ driver' = [driver EXCEPT !.pc = "loop"]
      /\ dst' = dst \o [i \in 1..Preload |-> 1]
      /\ reapQ' = [i \in 1..Preload |-> Len(dst) + i]
      /\ UNCHANGED <<sendQ, flag, recv, main>>
  BY DEF PreloadReap, Driver, Create, New
<1>2. /\ dst = <<>> /\ driver.array = <<>> /\ driver \in DriverState
      /\ dst \in Seq(EndPoints) /\ sendQ \in Seq(Nat) /\ 1 \in EndPoints /\ Preload \in Nat
  BY <1>1, Sizes DEF IInv, DriverInv, TypeOK
<1>3. driver' \in DriverState /\ driver'.pc = "loop" /\ driver'.array = <<>>
  BY <1>1, <1>2 DEF DriverState
<1>4. /\ dst' \in Seq(EndPoints) /\ DOMAIN dst \subseteq DOMAIN dst'
      /\ DOMAIN dst' \ DOMAIN dst = (Len(dst) + 1)..(Len(dst) + Preload)
  BY <1>1, <1>2, Created
<1>5. /\ reapQ' \in Seq(Nat) /\ OneToOne(reapQ')
      /\ Range(reapQ') = (Len(dst) + 1)..(Len(dst) + Preload)
  <2>1. Len(dst) \in Nat
    BY <1>2
  <2> QED BY <1>1, <1>2, <2>1, Numbers
<1>6. TypeOK' /\ DriverInv' /\ BatchInv' /\ JoinInv'
  BY <1>1, <1>2, <1>3, <1>4, <1>5, DriverRuns
<1>7. OnePlace'
  <2> DEFINE x == <<0, 1>>
             y == <<0, 3>>
  <2>1. /\ x \in Lists /\ y \in Lists /\ x # y
        /\ List(x) = <<>> /\ List(x)' = <<>> /\ List(y)' = reapQ'
    BY <1>2, <1>3, Places
  <2>2. \A l \in Lists \ {x, y} : List(l)' = List(l)
    BY <1>1, Others, Places
  <2> HIDE DEF x, y
  <2>3. DOMAIN List(y) = {}
    BY <1>2, <2>1, Nothing DEF IInv
  <2>4. Range(<<>>) = {} /\ OneToOne(<<>>) /\ DOMAIN <<>> = {} /\ Range(List(y)) = {}
    BY <2>3 DEF Range, OneToOne
  <2>5. Range(List(x)') \cup Range(List(y)')
          = Range(List(x)) \cup Range(List(y)) \cup (DOMAIN dst' \ DOMAIN dst)
    BY <1>4, <1>5, <2>1, <2>4
  <2>6. /\ OneToOne(List(x)') /\ OneToOne(List(y)')
        /\ \A i \in DOMAIN List(x)', j \in DOMAIN List(y)' : List(x)'[i] # List(y)'[j]
    BY <1>5, <2>1, <2>4
  <2>7. conf' = conf /\ OnePlace
    BY DEF IInv
  <2> QED BY <1>4, <2>1, <2>2, <2>5, <2>6, <2>7, MovesTwo
<1> QED BY <1>6, <1>7 DEF IInv

(* Reap moves packets from the reap queue to the array, and may add new ones. *)
LEMMA ReapSteps ==
  ASSUME IInv, Reap, UNCHANGED <<conf, sender>>
  PROVE  IInv'
<1>1. /\ reapQ \in Seq(Nat) /\ Len(reapQ) \in Nat /\ packet_count \in Nat
      /\ dst \in Seq(EndPoints) /\ 1 \in EndPoints /\ driver \in DriverState /\ sendQ \in Seq(Nat)
      /\ Len(dst) \in Nat /\ DOMAIN dst = 1 .. Len(dst)
  BY Sizes DEF IInv, TypeOK
<1>2. PICK n \in 0 .. Len(reapQ) :
        n = Least(Len(reapQ), packet_count) /\ n \in 0 .. packet_count
  BY <1>1, LeastIs
<1>3. PICK m \in Nat : m = IF Async THEN 0 ELSE packet_count - n
  BY <1>1, <1>2
<1>4. PICK v : v = SubSeq(reapQ, 1, n)
  OBVIOUS
<1>5. PICK w : w = SubSeq(reapQ, n + 1, Len(reapQ))
  OBVIOUS
<1>6. PICK new : new = [i \in 1..m |-> Len(dst) + i]
  OBVIOUS
<1>7. /\ driver.pc = "loop" /\ reapQ' = w /\ dst' = dst \o [i \in 1..m |-> 1]
      /\ driver' = [driver EXCEPT !.array = v \o new,
                                  !.pc = IF Async /\ n = 0 THEN "loop" ELSE "submit"]
      /\ UNCHANGED <<sendQ, flag, recv, main>>
  BY <1>2, <1>3, <1>4, <1>5, <1>6 DEF Reap, Create, New
<1> DEFINE x == <<0, 1>>
           y == <<0, 3>>
<1>8. /\ x \in Lists /\ y \in Lists /\ x # y
      /\ List(x) = driver.array /\ List(y) = reapQ
      /\ List(x)' = driver'.array /\ List(y)' = reapQ'
  BY Places
<1>9. driver.array = <<>>
  BY <1>7 DEF IInv, DriverInv
<1>10. OneToOne(reapQ) /\ Range(reapQ) \subseteq DOMAIN dst
  BY <1>8, Owned DEF IInv
<1>11. /\ v \in Seq(Nat) /\ w \in Seq(Nat) /\ OneToOne(v) /\ OneToOne(w)
       /\ Range(reapQ) = Range(v) \cup Range(w) /\ Len(v) = n
       /\ \A i \in DOMAIN v, j \in DOMAIN w : v[i] # w[j]
  BY <1>1, <1>4, <1>5, <1>10, Split, ZenonT(60)
<1>12. /\ new \in Seq(Nat) /\ Len(new) = m /\ OneToOne(new)
       /\ Range(new) = (Len(dst) + 1)..(Len(dst) + m)
  BY <1>1, <1>6, Numbers
<1>13. /\ dst' \in Seq(EndPoints) /\ DOMAIN dst \subseteq DOMAIN dst'
       /\ DOMAIN dst' \ DOMAIN dst = (Len(dst) + 1)..(Len(dst) + m)
  BY <1>1, <1>7, Created
<1>14. \A z : ~(z \in Range(reapQ) /\ z \in Range(new))
  BY <1>10, <1>12, <1>13
<1>15. \A i \in DOMAIN v, j \in DOMAIN new : v[i] # new[j]
  BY <1>11, <1>14, Disjoint
<1>16. PICK a : a = v \o new
  OBVIOUS
<1>17. a \in Seq(Nat) /\ OneToOne(a) /\ Range(a) = Range(v) \cup Range(new)
  BY <1>11, <1>12, <1>15, <1>16, Join
<1>18. ASSUME NEW z PROVE ~(z \in Range(a) /\ z \in Range(w))
  <2>1. ~(z \in Range(v) /\ z \in Range(w))
    BY <1>11 DEF Range
  <2> QED BY <1>11, <1>14, <1>17, <2>1
<1>19. /\ driver' \in DriverState /\ driver'.array = a /\ driver'.pc \in {"loop", "submit"}
       /\ driver'.pc = "loop" => Async /\ n = 0
  <2>1. PICK pc \in {"loop", "submit"} : pc = IF Async /\ n = 0 THEN "loop" ELSE "submit"
    OBVIOUS
  <2>2. driver' = [driver EXCEPT !.array = a, !.pc = pc]
    BY <1>7, <1>16, <2>1
  <2>3. driver' \in DriverState
    BY <1>1, <1>17, <2>2, DriverFields
  <2>4. driver'.array = a /\ driver'.pc = pc
    BY <1>1, <2>2 DEF DriverState
  <2> QED BY <2>1, <2>3, <2>4
<1>20. driver'.pc = "loop" => driver'.array = <<>>
  <2> SUFFICES ASSUME Async, n = 0 PROVE a = <<>>
    BY <1>19
  <2>1. Len(v) = 0 /\ Len(new) = 0
    BY <1>3, <1>11, <1>12
  <2>2. Len(a) = 0
    BY <1>11, <1>12, <1>16, <2>1
  <2> QED BY <1>17, <2>2
<1>21. TypeOK' /\ DriverInv' /\ BatchInv' /\ JoinInv'
  BY <1>1, <1>7, <1>11, <1>13, <1>19, <1>20, DriverRuns
<1>22. OnePlace'
  <2>1. \A l \in Lists \ {x, y} : List(l)' = List(l)
    BY <1>7, Others, Places
  <2> HIDE DEF x, y
  <2>2. Range(<<>>) = {}
    BY DEF Range
  <2>3. Range(List(x)') \cup Range(List(y)')
          = Range(List(x)) \cup Range(List(y)) \cup (DOMAIN dst' \ DOMAIN dst)
    BY <1>7, <1>8, <1>9, <1>11, <1>12, <1>13, <1>17, <1>19, <2>2
  <2>4. /\ OneToOne(List(x)') /\ OneToOne(List(y)')
        /\ \A i \in DOMAIN List(x)', j \in DOMAIN List(y)' : List(x)'[i] # List(y)'[j]
    BY <1>7, <1>8, <1>11, <1>17, <1>18, <1>19, Disjoint
  <2>5. conf' = conf /\ OnePlace
    BY DEF IInv
  <2> QED BY <1>8, <1>13, <2>1, <2>3, <2>4, <2>5, MovesTwo
<1> QED BY <1>21, <1>22 DEF IInv

(* Submit moves the array to the send queue, and addresses its packets.      *)
LEMMA SubmitSteps ==
  ASSUME IInv, Submit, UNCHANGED <<conf, sender>>
  PROVE  IInv'
<1>1. PICK d \in [Range(driver.array) -> IF Async THEN {1} ELSE EndPoints] :
        dst' = [p \in DOMAIN dst |-> IF p \in DOMAIN d THEN d[p] ELSE dst[p]]
  BY DEF Submit
<1>2. PICK u : u = driver.array
  OBVIOUS
<1>3. /\ driver.pc = "submit" /\ sendQ' = sendQ \o u
      /\ driver' = [driver EXCEPT !.pc = "loop", !.array = <<>>, !.sent = @ + Len(u)]
      /\ UNCHANGED <<reapQ, flag, recv, main>>
  BY <1>2 DEF Submit
<1>4. /\ dst \in Seq(EndPoints) /\ 1 \in EndPoints /\ driver \in DriverState
      /\ sendQ \in Seq(Nat) /\ reapQ \in Seq(Nat)
  BY Sizes DEF IInv, TypeOK
<1>5. u \in Seq(Nat) /\ Len(u) \in Nat /\ driver.sent \in Nat
  <2>1. driver.array \in Seq(Nat) /\ driver.sent \in Nat
    BY <1>4 DEF DriverState
  <2> QED BY <1>2, <2>1
<1>6. dst' \in Seq(EndPoints) /\ DOMAIN dst' = DOMAIN dst
  <2>1. \A p \in DOMAIN dst : (IF p \in DOMAIN d THEN d[p] ELSE dst[p]) \in EndPoints
    BY <1>1, <1>4
  <2>2. PICK k \in Nat : DOMAIN dst = 1 .. k
    BY <1>4
  <2>3. dst' \in [1 .. k -> EndPoints]
    BY <1>1, <2>1, <2>2
  <2> QED BY <1>1, <2>2, <2>3
<1>7. driver' \in DriverState /\ driver'.array = <<>> /\ driver'.pc = "loop"
  <2>1. PICK n \in Nat : n = driver.sent + Len(u)
    BY <1>5
  <2>2. driver' = [driver EXCEPT !.pc = "loop", !.array = <<>>, !.sent = n]
    BY <1>3, <2>1
  <2>3. driver' \in DriverState
    <3>1. <<>> \in Seq(Nat)
      OBVIOUS
    <3> QED BY <1>4, <2>2, <3>1, DriverFields
  <2>4. driver'.array = <<>> /\ driver'.pc = "loop"
    BY <1>4, <2>2 DEF DriverState
  <2> QED BY <2>3, <2>4
<1> DEFINE x == <<0, 1>>
           y == <<0, 2>>
<1>8. /\ x \in Lists /\ y \in Lists /\ x # y
      /\ List(x) = u /\ List(y) = sendQ
      /\ List(x)' = <<>> /\ List(y)' = sendQ'
  BY <1>2, <1>7, Places
<1>9. /\ OneToOne(u) /\ OneToOne(sendQ)
      /\ \A i \in DOMAIN sendQ, j \in DOMAIN u : sendQ[i] # u[j]
  BY <1>8, Owned DEF IInv
<1>10. sendQ' \in Seq(Nat) /\ OneToOne(sendQ') /\ Range(sendQ') = Range(sendQ) \cup Range(u)
  BY <1>3, <1>4, <1>5, <1>9, Join
<1>11. TypeOK' /\ DriverInv' /\ BatchInv' /\ JoinInv'
  BY <1>3, <1>4, <1>6, <1>7, <1>10, DriverRuns
<1>12. OnePlace'
  <2>1. \A l \in Lists \ {x, y} : List(l)' = List(l)
    BY <1>3, Others, Places
  <2> HIDE DEF x, y
  <2>2. Range(<<>>) = {} /\ OneToOne(<<>>) /\ DOMAIN <<>> = {}
    BY DEF Range, OneToOne
  <2>3. Range(List(x)') \cup Range(List(y)')
          = Range(List(x)) \cup Range(List(y)) \cup (DOMAIN dst' \ DOMAIN dst)
    BY <1>6, <1>8, <1>10, <2>2
  <2>4. /\ OneToOne(List(x)') /\ OneToOne(List(y)')
        /\ \A i \in DOMAIN List(x)', j \in DOMAIN List(y)' : List(x)'[i] # List(y)'[j]
    BY <1>8, <1>10, <2>2
  <2>5. conf' = conf /\ OnePlace /\ DOMAIN dst \subseteq DOMAIN dst'
    BY <1>6 DEF IInv
  <2> QED BY <1>8, <2>1, <2>3, <2>4, <2>5, MovesTwo
<1> QED BY <1>11, <1>12 DEF IInv

(* The end of the driver: dst, the queues and the senders stay.              *)
LEMMA DriverEnds ==
  ASSUME IInv, UNCHANGED <<conf, sender, dst, queues>>,
         driver' \in DriverState, driver'.array = driver.array, driver.array = <<>>,
         driver.pc # "new", driver'.pc \notin {"new", "preload"},
         main' \in (Starting \cup {"wait", "waiting", "join", "freed"}) \X Nat,
         main'[1] \notin Starting,
         flag' \in [Senders -> BOOLEAN],
         recv' \in [Receivers -> ReceiverState]
  PROVE  TypeOK' /\ DriverInv' /\ BatchInv' /\ OnePlace'
<1>1. /\ Senders' = Senders /\ Receivers' = Receivers /\ EndPoints' = EndPoints /\ (Async' <=> Async)
      /\ SenderState' = SenderState
  BY DEF Senders, Receivers, EndPoints, Async, SenderState
<1>2. TypeOK'
  BY <1>1 DEF IInv, TypeOK, queues
<1>3. DriverInv'
  BY DEF DriverInv
<1>4. BatchInv'
  BY <1>1 DEF IInv, BatchInv
<1>5. OnePlace'
  BY Still DEF IInv, Batch
<1> QED BY <1>2, <1>3, <1>4, <1>5

(* Joining one after the other: what a counter that moves by one has passed. *)
LEMMA Passed ==
  ASSUME NEW n \in Nat \ {0}, NEW j \in Nat
  PROVE  /\ \A k \in 1 .. n : ~(k < 1)
         /\ 1 \in 1 .. n
         /\ \A k \in 1 .. n : k < j + 1 => k < j \/ k = j
         /\ j = n => \A k \in 1 .. n : k < j \/ k = j
         /\ j \in 1 .. n /\ j # n => j + 1 \in 1 .. n
OBVIOUS

(* The same for the senders ...                                              *)
LEMMA PassedSenders ==
  ASSUME TypeOK, NEW j \in Nat
  PROVE  /\ \A s \in Senders : ~(s < 1)
         /\ 1 \in Senders
         /\ \A s \in Senders : s < j + 1 => s < j \/ s = j
         /\ j = conf.senders => \A s \in Senders : s < j \/ s = j
         /\ j \in Senders /\ j # conf.senders => j + 1 \in Senders
<1>1. conf.senders \in Nat \ {0}
  BY Sizes
<1> QED BY <1>1, Passed DEF Senders

(* ... and the receivers.                                                    *)
LEMMA PassedReceivers ==
  ASSUME TypeOK
  PROVE  1 \in Receivers /\ \A r \in Receivers : ~(r < 1)
<1>1. conf.receivers \in Nat \ {0}
  BY Sizes
<1> QED BY <1>1, Passed DEF Receivers

(* comms_shutdown joins the senders one after the other.                     *)
LEMMA StopSenderSteps ==
  ASSUME IInv, StopSenders, UNCHANGED <<conf, sender>>
  PROVE  IInv'
<1>1. /\ driver \in DriverState /\ driver.i \in Nat /\ flag \in [Senders -> BOOLEAN]
      /\ conf.senders \in Nat \ {0} /\ Senders = 1 .. conf.senders /\ 1 \in Receivers
  BY Sizes DEF IInv, TypeOK, DriverState, Senders
<1>2. /\ UNCHANGED <<dst, queues, recv, main>> /\ driver.pc \in {"loop", "join sender"}
  BY DEF StopSenders
<1>3. flag' \in [Senders -> BOOLEAN]
  BY <1>1 DEF StopSenders
<1>4. PICK pc \in {"join sender", "built"}, i \in Nat :
        /\ driver' = [driver EXCEPT !.pc = pc, !.i = i]
        /\ \/ driver.pc = "loop" /\ pc = "join sender" /\ i = 1
           \/ /\ driver.pc = "join sender" /\ sender[driver.i].pc = "ended"
              /\ driver.i = conf.senders /\ pc = "built" /\ i = 1
           \/ /\ driver.pc = "join sender" /\ sender[driver.i].pc = "ended"
              /\ driver.i # conf.senders /\ pc = "join sender" /\ i = driver.i + 1
  <2>1. CASE driver.pc = "loop"
    BY <2>1 DEF StopSenders
  <2>2. CASE driver.pc = "join sender" /\ driver.i = conf.senders
    BY <2>2 DEF StopSenders
  <2>3. CASE driver.pc = "join sender" /\ driver.i # conf.senders
    <3>1. /\ sender[driver.i].pc = "ended"
          /\ driver' = [driver EXCEPT !.i = driver.i + 1]
      BY <2>3 DEF StopSenders
    <3>2. driver' = [driver EXCEPT !.pc = "join sender", !.i = driver.i + 1]
      BY <1>1, <2>3, <3>1 DEF DriverState
    <3>3. driver.i + 1 \in Nat
      BY <1>1
    <3> QED BY <2>3, <3>1, <3>2, <3>3
  <2> QED BY <1>2, <2>1, <2>2, <2>3
<1>5. driver' \in DriverState /\ driver'.pc = pc /\ driver'.i = i /\ driver'.array = driver.array
  <2>1. driver' \in DriverState
    BY <1>1, <1>4 DEF DriverState, JoinsReceivers
  <2>2. driver'.pc = pc /\ driver'.i = i /\ driver'.array = driver.array
    BY <1>1, <1>4 DEF DriverState
  <2> QED BY <2>1, <2>2
<1>6. driver.array = <<>> /\ main[1] \notin Starting /\ main[1] # "freed"
  BY <1>2 DEF IInv, DriverInv, JoinInv
<1>7. TypeOK' /\ DriverInv' /\ BatchInv' /\ OnePlace'
  <2>1. /\ main' \in (Starting \cup {"wait", "waiting", "join", "freed"}) \X Nat
        /\ recv' \in [Receivers -> ReceiverState]
    BY <1>2 DEF IInv, TypeOK
  <2> QED BY <1>2, <1>3, <1>5, <1>6, <2>1, DriverEnds
<1>8. PICK j \in Nat : j = driver.i
  BY <1>1
<1>9. driver.pc = "join sender" =>
        j \in Senders /\ \A s \in Senders : s < j => sender[s].pc = "ended"
  BY <1>8 DEF IInv, JoinInv
<1>10. /\ \A s \in Senders : ~(s < 1)
       /\ 1 \in Senders
       /\ \A s \in Senders : s < j + 1 => s < j \/ s = j
       /\ j = conf.senders => \A s \in Senders : s < j \/ s = j
       /\ j \in Senders /\ j # conf.senders => j + 1 \in Senders
  BY PassedSenders DEF IInv
<1>11. pc = "join sender" =>
         i \in Senders /\ \A s \in Senders : s < i => sender[s].pc = "ended"
  <2>1. CASE i = 1
    BY <1>10, <2>1
  <2>2. CASE driver.pc = "join sender" /\ sender[j].pc = "ended" /\ j # conf.senders /\ i = j + 1
    BY <1>9, <1>10, <2>2
  <2> QED BY <1>4, <1>8, <2>1, <2>2
<1>12. pc = "built" =>
         i = 1 /\ \A s \in Senders : sender[s].pc = "ended"
  <2> SUFFICES ASSUME pc = "built" PROVE i = 1 /\ \A s \in Senders : sender[s].pc = "ended"
    OBVIOUS
  <2>1. i = 1 /\ driver.pc = "join sender" /\ j = conf.senders /\ sender[j].pc = "ended"
    BY <1>4, <1>8
  <2> QED BY <1>9, <1>10, <2>1
<1>13. Senders' = Senders /\ Receivers' = Receivers
  BY DEF Senders, Receivers
<1>14. 1 \in Receivers /\ \A r \in Receivers : ~(r < 1)
  BY PassedReceivers DEF IInv
<1>15. driver'.pc = "built" => driver'.i \in Receivers /\ \A r \in Receivers : r < driver'.i => FALSE
  BY <1>5, <1>12, <1>14
<1>16. JoinInv'
  BY <1>2, <1>5, <1>6, <1>11, <1>12, <1>13, <1>15 DEF JoinInv, JoinsReceivers, AllJoined
<1> QED BY <1>7, <1>16 DEF IInv

(* comms_shutdown joins the receivers one after the other.                   *)
LEMMA StopReceiverSteps ==
  ASSUME IInv, StopReceivers, UNCHANGED <<conf, sender>>
  PROVE  IInv'
<1>1. PICK r \in Nat : r = driver.i
  BY DEF IInv, TypeOK, DriverState
<1>2. /\ driver \in DriverState /\ conf.receivers \in Nat \ {0} /\ Receivers = 1 .. conf.receivers
      /\ driver.pc \in JoinsReceivers /\ r \in Receivers /\ recv[r] \in ReceiverState
  <2>1. driver.pc \in JoinsReceivers
    BY DEF StopReceivers, JoinsReceivers
  <2>2. r \in Receivers
    BY <1>1, <2>1 DEF IInv, JoinInv
  <2> QED BY <2>1, <2>2, Sizes DEF IInv, TypeOK, Receivers
<1>3. UNCHANGED <<dst, queues, flag, main>>
  BY DEF StopReceivers
<1>4. /\ recv' \in [Receivers -> ReceiverState]
      /\ \A t \in Receivers : recv[t].pc = "ended" => recv'[t].pc = "ended"
  <2>1. \/ recv' = recv
        \/ recv' = [recv EXCEPT ![r] = [recv[r] EXCEPT !.down = recv[r].server]]
        \/ recv' = [recv EXCEPT ![r] = [recv[r] EXCEPT !.server = FALSE]]
    BY <1>1 DEF StopReceivers
  <2>2. ASSUME NEW c \in ReceiverState, c.pc = recv[r].pc, recv' = [recv EXCEPT ![r] = c]
        PROVE  /\ recv' \in [Receivers -> ReceiverState]
               /\ \A t \in Receivers : recv[t].pc = "ended" => recv'[t].pc = "ended"
    <3>1. recv \in [Receivers -> ReceiverState]
      BY DEF IInv, TypeOK
    <3>2. /\ recv' \in [Receivers -> ReceiverState] /\ recv'[r] = c
          /\ \A t \in Receivers : t # r => recv'[t] = recv[t]
      BY <1>2, <2>2, <3>1, OneState
    <3> QED BY <2>2, <3>2
  <2>3. recv[r].server \in BOOLEAN
    BY <1>2 DEF ReceiverState
  <2>4. /\ [recv[r] EXCEPT !.down = recv[r].server] \in ReceiverState
        /\ [recv[r] EXCEPT !.server = FALSE] \in ReceiverState
        /\ [recv[r] EXCEPT !.down = recv[r].server].pc = recv[r].pc
        /\ [recv[r] EXCEPT !.server = FALSE].pc = recv[r].pc
    BY <1>2, <2>3 DEF ReceiverState
  <2> QED BY <2>1, <2>2, <2>4 DEF IInv, TypeOK
<1>5. PICK pc \in JoinsReceivers \cup {"notify"}, i \in Nat :
        /\ driver' = [driver EXCEPT !.pc = pc, !.i = i]
        /\ \/ pc \in JoinsReceivers /\ i = r
           \/ pc = "notify" /\ recv[r].pc = "ended" /\ r = conf.receivers
           \/ pc = "built" /\ recv[r].pc = "ended" /\ r # conf.receivers /\ i = r + 1
  <2>1. ASSUME NEW pc, driver' = [driver EXCEPT !.pc = pc]
        PROVE  driver' = [driver EXCEPT !.pc = pc, !.i = r]
    BY <1>1, <1>2, <2>1 DEF DriverState
  <2>2. CASE driver.pc = "built"
    <3>1. PICK pc \in {"delete", "join receiver"} : driver' = [driver EXCEPT !.pc = pc]
      BY <2>2 DEF StopReceivers, Driver
    <3> QED BY <2>1, <3>1 DEF JoinsReceivers
  <2>3. CASE driver.pc = "delete"
    <3>1. driver' = [driver EXCEPT !.pc = "join receiver"]
      BY <2>3 DEF StopReceivers, Driver
    <3> QED BY <2>1, <3>1 DEF JoinsReceivers
  <2>4. CASE driver.pc = "join receiver" /\ r = conf.receivers
    <3>1. driver' = [driver EXCEPT !.pc = "notify"] /\ recv[r].pc = "ended"
      BY <1>1, <2>4 DEF StopReceivers, Driver
    <3> QED BY <2>1, <2>4, <3>1
  <2>5. CASE driver.pc = "join receiver" /\ r # conf.receivers
    <3>1. driver' = [driver EXCEPT !.pc = "built", !.i = r + 1] /\ recv[r].pc = "ended"
      BY <1>1, <2>5 DEF StopReceivers
    <3>2. r + 1 \in Nat
      OBVIOUS
    <3> QED BY <2>5, <3>1, <3>2 DEF JoinsReceivers
  <2> QED BY <1>2, <2>2, <2>3, <2>4, <2>5 DEF JoinsReceivers
<1>6. driver' \in DriverState /\ driver'.pc = pc /\ driver'.i = i /\ driver'.array = driver.array
  <2>1. driver' \in DriverState
    BY <1>2, <1>5 DEF DriverState, AllJoined
  <2>2. driver'.pc = pc /\ driver'.i = i /\ driver'.array = driver.array
    BY <1>2, <1>5 DEF DriverState
  <2> QED BY <2>1, <2>2
<1>7. /\ driver.array = <<>> /\ main[1] \notin Starting /\ main[1] # "freed"
      /\ \A s \in Senders : sender[s].pc = "ended"
      /\ \A t \in Receivers : t < r => recv[t].pc = "ended"
  BY <1>1, <1>2 DEF IInv, DriverInv, JoinInv, JoinsReceivers
<1>8. TypeOK' /\ DriverInv' /\ BatchInv' /\ OnePlace'
  <2>1. /\ main' \in (Starting \cup {"wait", "waiting", "join", "freed"}) \X Nat
        /\ flag' \in [Senders -> BOOLEAN]
    BY <1>3 DEF IInv, TypeOK
  <2>2. driver.pc # "new" /\ driver'.pc \notin {"new", "preload"}
    BY <1>2, <1>6 DEF JoinsReceivers
  <2> QED BY <1>3, <1>4, <1>6, <1>7, <2>1, <2>2, DriverEnds
<1>9. pc \in JoinsReceivers => i \in Receivers /\ \A t \in Receivers : t < i => recv[t].pc = "ended"
  <2>1. CASE i = r
    BY <1>2, <1>7, <2>1
  <2>2. CASE pc = "built" /\ recv[r].pc = "ended" /\ r # conf.receivers /\ i = r + 1
    <3>1. i \in Receivers
      BY <1>2, <2>2
    <3>2. \A t \in Receivers : t < i => t < r \/ t = r
      BY <1>2, <2>2
    <3> QED BY <1>7, <2>2, <3>1, <3>2
  <2>3. "notify" \notin JoinsReceivers
    BY DEF JoinsReceivers
  <2> QED BY <1>5, <2>1, <2>2, <2>3
<1>10. pc \in AllJoined => \A t \in Receivers : recv[t].pc = "ended"
  <2> SUFFICES ASSUME pc \in AllJoined, NEW t \in Receivers PROVE recv[t].pc = "ended"
    OBVIOUS
  <2>1. recv[r].pc = "ended" /\ r = conf.receivers
    BY <1>5 DEF AllJoined, JoinsReceivers
  <2>2. t < r \/ t = r
    BY <1>2, <2>1
  <2> QED BY <1>7, <2>1, <2>2
<1>11. Senders' = Senders /\ Receivers' = Receivers
  BY DEF Senders, Receivers
<1>12. pc # "join sender" /\ main'[1] # "freed"
  BY <1>3, <1>5, <1>7 DEF JoinsReceivers
<1>13. JoinInv'
  BY <1>4, <1>6, <1>7, <1>9, <1>10, <1>11, <1>12 DEF JoinInv
<1> QED BY <1>8, <1>13 DEF IInv

(* Who has joined everybody notifies.                                        *)
LEMMA NotifySteps ==
  ASSUME IInv, Notify, UNCHANGED <<conf, sender>>
  PROVE  IInv'
<1>1. /\ driver.pc = "notify" /\ driver' = [driver EXCEPT !.pc = "ended"]
      /\ UNCHANGED <<dst, queues, flag, recv>>
      /\ main' = main \/ main' = <<"join", 1>>
  BY DEF Notify, Driver, Main
<1>2. driver \in DriverState
  BY DEF IInv, TypeOK
<1>3. driver' \in DriverState /\ driver'.pc = "ended" /\ driver'.array = driver.array
  BY <1>1, <1>2 DEF DriverState, AllJoined
<1>4. driver.array = <<>> /\ main[1] \notin Starting
  BY <1>1 DEF IInv, DriverInv
<1>5. /\ main' \in (Starting \cup {"wait", "waiting", "join", "freed"}) \X Nat
      /\ main'[1] \notin Starting
  BY <1>1, <1>4 DEF IInv, TypeOK, Starting
<1>6. flag' \in [Senders -> BOOLEAN] /\ recv' \in [Receivers -> ReceiverState]
  BY <1>1 DEF IInv, TypeOK
<1>7. TypeOK' /\ DriverInv' /\ BatchInv' /\ OnePlace'
  BY <1>1, <1>3, <1>4, <1>5, <1>6, DriverEnds
<1>8. Senders' = Senders /\ Receivers' = Receivers
  BY DEF Senders, Receivers
<1>9. /\ \A s \in Senders : sender[s].pc = "ended"
      /\ \A r \in Receivers : recv[r].pc = "ended"
  BY <1>1 DEF IInv, JoinInv, AllJoined
<1>10. JoinInv'
  BY <1>1, <1>3, <1>8, <1>9 DEF JoinInv, JoinsReceivers
<1> QED BY <1>7, <1>10 DEF IInv

-----------------------------------------------------------------------------
(* The inductive invariant: at the beginning ...                             *)
LEMMA InitIInv == Init => IInv
<1> SUFFICES ASSUME Init PROVE IInv
  OBVIOUS
<1>1. sender \in [Senders -> SenderState] /\ \A s \in Senders : sender[s].pc = "new"
  <2> DEFINE c == [pc |-> "new", at |-> 1, batches |-> [e \in EndPoints |-> <<>>]]
  <2>1. c \in SenderState /\ c.pc = "new"
    BY DEF SenderState
  <2>2. sender = [s \in Senders |-> c]
    BY DEF Init
  <2> HIDE DEF c
  <2> QED BY <2>1, <2>2
<1>2. recv \in [Receivers -> ReceiverState]
  BY DEF Init, ReceiverState
<1>3. driver \in DriverState /\ driver.pc = "new" /\ driver.array = <<>>
  BY DEF Init, DriverState
<1>4. TypeOK
  BY <1>1, <1>2, <1>3 DEF Init, TypeOK, Starting
<1>5. DriverInv
  BY <1>3 DEF Init, DriverInv, Starting
<1>6. BatchInv
  BY <1>1 DEF BatchInv
<1>7. JoinInv
  BY <1>3 DEF Init, JoinInv, JoinsReceivers, AllJoined
<1>8. ASSUME NEW l \in Lists PROVE List(l) = <<>>
  <2>1. CASE l = <<0, 1>> \/ l = <<0, 2>> \/ l = <<0, 3>>
    BY <1>3, <2>1, Places DEF Init
  <2>2. ASSUME NEW s \in Senders, NEW e \in EndPoints, l = <<s, e>> PROVE List(l) = <<>>
    BY <1>1, <2>2, BatchPlace DEF Batch
  <2> QED BY <2>1, <2>2, Place
<1>9. OnePlace
  <2>1. UNION {Range(List(l)) : l \in Lists} = {}
    BY <1>8 DEF Range
  <2>2. DOMAIN dst = {}
    BY DEF Init
  <2> QED BY <1>8, <2>1, <2>2 DEF OnePlace
<1> QED BY <1>4, <1>5, <1>6, <1>7, <1>9 DEF IInv

(* ... after every step ...                                                  *)
LEMMA NextIInv == IInv /\ [Next]_vars => IInv'
<1> SUFFICES ASSUME IInv, [Next]_vars PROVE IInv'
  OBVIOUS
<1>1. CASE MainStep
  BY <1>1, SpawnSteps, WaitSteps DEF MainStep
<1>2. CASE DriverStep
  BY <1>2, PreloadSteps, ReapSteps, SubmitSteps, StopSenderSteps, StopReceiverSteps, NotifySteps
     DEF DriverStep
<1>3. ASSUME NEW s \in Senders, SenderStep(s) PROVE IInv'
  BY <1>3, SenderSteps
<1>4. ASSUME NEW r \in Receivers, ReceiverStep(r) PROVE IInv'
  BY <1>4, ReceiverSteps
<1>5. CASE UNCHANGED vars
  <2>1. /\ Senders' = Senders /\ Receivers' = Receivers /\ EndPoints' = EndPoints
        /\ (Async' <=> Async) /\ SenderState' = SenderState
    BY <1>5 DEF vars, Senders, Receivers, EndPoints, Async, SenderState
  <2>2. TypeOK'
    BY <1>5, <2>1 DEF vars, queues, IInv, TypeOK
  <2>3. DriverInv' /\ JoinInv'
    BY <1>5, <2>1 DEF vars, IInv, DriverInv, JoinInv
  <2>4. BatchInv'
    BY <1>5, <2>1 DEF vars, IInv, BatchInv
  <2>5. OnePlace'
    BY <1>5, Still DEF vars, queues, IInv, Batch
  <2> QED BY <2>2, <2>3, <2>4, <2>5 DEF IInv
<1> QED BY <1>1, <1>2, <1>3, <1>4, <1>5 DEF Next

(* ... and what it says.                                                     *)
LEMMA IInvOneOwner == IInv => OneOwner
<1> SUFFICES ASSUME IInv PROVE OneOwner
  OBVIOUS
<1>1. SafeToFree
  BY DEF IInv, JoinInv, SafeToFree, At, AllJoined
<1> QED BY <1>1 DEF IInv, OneOwner

(* In both versions, at any size, every packet that was created is in one    *)
(* place, and what is freed at the end is used by no thread any more,        *)
(* however comms_wait returned (Sender.cc:24-41, EndPoint.cc:41-53,          *)
(* main.cc:155-171).                                                         *)
THEOREM NobodySharesAPacket == Spec => []OneOwner
<1>1. Spec => []IInv
  <2>1. Init /\ [][Next]_vars => []IInv
    BY InitIInv, NextIInv, PTL
  <2> QED BY <2>1, PTL DEF Spec
<1> QED BY <1>1, IInvOneOwner, PTL
=============================================================================
