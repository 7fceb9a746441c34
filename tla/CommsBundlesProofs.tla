-------------------------- MODULE CommsBundlesProofs --------------------------
(***************************************************************************)
(* Safety of the packet path for all sets of packets, accessors and        *)
(* writers, all sizes and capacities.                                      *)
(***************************************************************************)
EXTENDS CommsBundles, FiniteSetTheorems, TLAPS

(* A deposited packet carries the address of its accessor's reap queue.     *)
Stamped ==
  \A a \in Accessors, p \in Packets : InQueue(a, p) => opaque[p] = a

(* A packet still to be added has the end point the application wrote.      *)
Addressed ==
  \A a \in Accessors : \A p \in batch[a] : header[p] \in EndPoints

IInv == TypeOK /\ StaysHome /\ OnePlace /\ Stamped /\ Addressed
-------------------------------------------------------------------------------
(* Membership in the bundles of a sub-queue under enqueue and dequeue.      *)

(* What an enqueued bundle adds to the bundles of a sub-queue.              *)
LEMMA AppendElements ==
  ASSUME NEW T, NEW s \in Seq(T), NEW b \in T
  PROVE  /\ Append(s, b) \in Seq(T)
         /\ Len(Append(s, b)) = Len(s) + 1
         /\ \A i \in 1 .. Len(s) : Append(s, b)[i] = s[i]
         /\ Append(s, b)[Len(s) + 1] = b
  OBVIOUS

(* What a dequeue leaves in a sub-queue.                                    *)
LEMMA TailElements ==
  ASSUME NEW T, NEW s \in Seq(T), s # <<>>
  PROVE  /\ Head(s) \in T
         /\ Head(s) = s[1]
         /\ Tail(s) \in Seq(T)
         /\ Len(s) \in Nat \ {0}
         /\ Len(Tail(s)) = Len(s) - 1
         /\ \A i \in 1 .. Len(Tail(s)) : Tail(s)[i] = s[i + 1]
  OBVIOUS
-------------------------------------------------------------------------------
(* The invariant holds at the start.                                        *)
LEMMA InitIInv == Init => IInv
<1> SUFFICES ASSUME Init PROVE IInv
  OBVIOUS
<1>1. TypeOK
  <2>1. <<>> \in Seq(SUBSET Packets)
    OBVIOUS
  <2>2. submitQ \in [Accessors -> Seq(SUBSET Packets)]
    BY <2>1 DEF Init
  <2>3. 0 \in 0 .. RetryCount
    BY ParamAssumption DEF ParamAssumption
  <2>4. /\ tries \in [Writers -> 0 .. RetryCount]
        /\ wpc \in [Writers -> {"poll", "send", "ok", "failed", "empty", "exit"}]
    BY <2>3 DEF Init
  <2>5. deliveries \in [Packets -> [EndPoints -> Nat]]
    BY DEF Init, Undelivered
  <2> QED BY <2>2, <2>4, <2>5, ParamAssumption DEF ParamAssumption, Init, TypeOK, SUCCESS
<1>2. StaysHome
  BY DEF Init, StaysHome, With, InBundles, InQueue
<1>3. OnePlace
  BY ParamAssumption DEF ParamAssumption, Init, OnePlace, Alone, InBundles, InQueue, Carried
<1>4. Stamped /\ Addressed
  BY DEF Init, Stamped, Addressed, InQueue
<1> QED BY <1>1, <1>2, <1>3, <1>4 DEF IInv
-------------------------------------------------------------------------------
(* One lemma per action: it preserves the invariant.                        *)

(* Submit preserves the invariant.                                          *)
LEMMA SubmitStep ==
  ASSUME IInv, NEW a \in Accessors, NEW S, NEW dst \in [S -> EndPoints], Submit(a, S, dst)
  PROVE  IInv'
<1> USE ParamAssumption DEF ParamAssumption, IInv, Submit, vars, appVars, packetVars, writerVars, ctlVars
<1>1. TypeOK'
  BY DEF TypeOK
<1>2. StaysHome'
  BY DEF TypeOK, StaysHome, With, InBundles, InQueue
<1>3. OnePlace'
  BY DEF TypeOK, StaysHome, With, OnePlace, Alone, InBundles, InQueue, Carried
<1>4. Stamped'
  BY DEF TypeOK, Stamped, InQueue
<1>5. Addressed'
  BY DEF TypeOK, Addressed, OnePlace, Alone, StaysHome, With, Carried
<1> QED BY <1>1, <1>2, <1>3, <1>4, <1>5

(* Flush preserves the invariant.                                           *)
LEMMA FlushStep ==
  ASSUME IInv, NEW a \in Accessors, Flush(a)
  PROVE  IInv'
<1> USE ParamAssumption DEF ParamAssumption, IInv, Flush, vars, appVars, packetVars, writerVars, ctlVars
<1>1. TypeOK'
  BY DEF TypeOK
<1>2. StaysHome'
  BY DEF TypeOK, StaysHome, With, InBundles, InQueue
<1>3. OnePlace'
  BY DEF TypeOK, StaysHome, With, OnePlace, Alone, InBundles, InQueue, Carried
<1>4. Stamped'
  BY DEF TypeOK, Stamped, InQueue
<1>5. Addressed'
  BY DEF TypeOK, Addressed, OnePlace, Alone, StaysHome, With, Carried
<1> QED BY <1>1, <1>2, <1>3, <1>4, <1>5

(* Reap preserves the invariant.                                            *)
LEMMA ReapStep ==
  ASSUME IInv, NEW a \in Accessors, NEW S, Reap(a, S)
  PROVE  IInv'
<1> USE ParamAssumption DEF ParamAssumption, IInv, Reap, vars, appVars, packetVars, writerVars, ctlVars
<1>1. TypeOK'
  <2>1. deliveries' \in [Packets -> [EndPoints -> Nat]]
    BY DEF TypeOK, Undelivered
  <2> QED BY <2>1 DEF TypeOK
<1>2. StaysHome'
  BY DEF TypeOK, StaysHome, With, InBundles, InQueue
<1>3. OnePlace'
  BY DEF TypeOK, StaysHome, With, OnePlace, Alone, InBundles, InQueue, Carried
<1>4. Stamped'
  BY DEF TypeOK, Stamped, InQueue
<1>5. Addressed'
  BY DEF TypeOK, Addressed, OnePlace, Alone, StaysHome, With, Carried
<1> QED BY <1>1, <1>2, <1>3, <1>4, <1>5

(* Destroy preserves the invariant.                                         *)
LEMMA DestroyStep ==
  ASSUME IInv, NEW a \in Accessors, Destroy(a)
  PROVE  IInv'
<1> USE ParamAssumption DEF ParamAssumption, IInv, Destroy, vars, appVars, packetVars, writerVars, ctlVars
<1>1. TypeOK'
  BY DEF TypeOK
<1>2. StaysHome'
  BY DEF TypeOK, StaysHome, With, InBundles, InQueue
<1>3. OnePlace'
  BY DEF TypeOK, StaysHome, With, OnePlace, Alone, InBundles, InQueue, Carried
<1>4. Stamped'
  BY DEF TypeOK, Stamped, InQueue
<1>5. Addressed'
  BY DEF TypeOK, Addressed, OnePlace, Alone, StaysHome, With, Carried
<1> QED BY <1>1, <1>2, <1>3, <1>4, <1>5

(* A delivery is counted in a natural number.                               *)
LEMMA ArriveType ==
  ASSUME TypeOK, NEW S, Arrive(S) \/ UNCHANGED deliveries
  PROVE  deliveries' \in [Packets -> [EndPoints -> Nat]]
<1>1. \A p \in Packets, e \in EndPoints : deliveries[p][e] \in Nat
  BY DEF TypeOK
<1>2. CASE Arrive(S)
  BY <1>1, <1>2 DEF Arrive
<1> QED BY <1>2 DEF TypeOK

(* TransmitOk preserves the invariant.                                      *)
LEMMA TransmitOkStep ==
  ASSUME IInv, NEW w \in Writers, TransmitOk(w)
  PROVE  IInv'
<1> USE ParamAssumption DEF ParamAssumption, IInv, TransmitOk, vars, appVars, packetVars, writerVars, ctlVars
<1>1. TypeOK'
  <2>1. deliveries' \in [Packets -> [EndPoints -> Nat]]
    BY ArriveType
  <2> QED BY <2>1 DEF TypeOK
<1>2. StaysHome'
  BY DEF TypeOK, StaysHome, With, InBundles, InQueue
<1>3. OnePlace'
  BY ZenonT(60) DEF TypeOK, StaysHome, With, OnePlace, Alone, InBundles, InQueue, Carried
<1>4. Stamped'
  BY DEF TypeOK, Stamped, InQueue
<1>5. Addressed'
  BY DEF TypeOK, Addressed, OnePlace, Alone, StaysHome, With, Carried
<1> QED BY <1>1, <1>2, <1>3, <1>4, <1>5

(* A failed attempt keeps the types of all variables.                       *)
LEMMA TransmitErrorType ==
  ASSUME IInv, NEW w \in Writers, TransmitError(w)
  PROVE  TypeOK'
<1> USE ParamAssumption DEF ParamAssumption, IInv, TransmitError, LastTry, vars, appVars, packetVars, writerVars, ctlVars
<1>1. tries' \in [Writers -> 0 .. RetryCount]
  <2>1. tries[w] \in 0 .. RetryCount
    BY DEF TypeOK
  <2>4. tries \in [Writers -> 0 .. RetryCount]
    BY DEF TypeOK
  <2>2. CASE LastTry(w)
    <3>1. tries' = [tries EXCEPT ![w] = 0]
      BY <2>2
    <3> QED BY <2>4, <3>1
  <2>3. CASE ~LastTry(w)
    <3>1. tries[w] + 1 \in 0 .. RetryCount
      BY <2>1, <2>3
    <3>2. tries' = [tries EXCEPT ![w] = tries[w] + 1]
      BY <2>3
    <3> QED BY <2>4, <3>1, <3>2
  <2> QED BY <2>2, <2>3
<1>2. deliveries' \in [Packets -> [EndPoints -> Nat]]
  BY ArriveType
<1> QED BY <1>1, <1>2 DEF TypeOK

(* TransmitError preserves the invariant.                                   *)
LEMMA TransmitErrorStep ==
  ASSUME IInv, NEW w \in Writers, TransmitError(w)
  PROVE  IInv'
<1> USE ParamAssumption DEF ParamAssumption, IInv, TransmitError, LastTry, vars, appVars, packetVars, writerVars, ctlVars
<1>1. TypeOK'
  <2> HIDE DEF IInv, TransmitError
  <2> QED BY TransmitErrorType
<1>2. StaysHome'
  BY DEF TypeOK, StaysHome, With, InBundles, InQueue
<1>3. OnePlace'
  BY DEF TypeOK, StaysHome, With, OnePlace, Alone, InBundles, InQueue, Carried
<1>4. Stamped'
  BY DEF TypeOK, Stamped, InQueue
<1>5. Addressed'
  BY DEF TypeOK, Addressed, OnePlace, Alone, StaysHome, With, Carried
<1> QED BY <1>1, <1>2, <1>3, <1>4, <1>5

(* BundleDone preserves the invariant.                                      *)
LEMMA BundleDoneStep ==
  ASSUME IInv, NEW w \in Writers, BundleDone(w)
  PROVE  IInv'
<1> USE ParamAssumption DEF ParamAssumption, IInv, BundleDone, vars, appVars, packetVars, writerVars, ctlVars
<1>1. TypeOK'
  BY DEF TypeOK
<1>2. StaysHome'
  BY DEF TypeOK, StaysHome, With, InBundles, InQueue
<1>3. OnePlace'
  BY DEF TypeOK, StaysHome, With, OnePlace, Alone, InBundles, InQueue, Carried
<1>4. Stamped'
  BY DEF TypeOK, Stamped, InQueue
<1>5. Addressed'
  BY DEF TypeOK, Addressed, OnePlace, Alone, StaysHome, With, Carried
<1> QED BY <1>1, <1>2, <1>3, <1>4, <1>5

(* PollEmpty preserves the invariant.                                       *)
LEMMA PollEmptyStep ==
  ASSUME IInv, NEW w \in Writers, PollEmpty(w)
  PROVE  IInv'
<1> USE ParamAssumption DEF ParamAssumption, IInv, PollEmpty, vars, appVars, packetVars, writerVars, ctlVars
<1>1. TypeOK'
  BY DEF TypeOK
<1>2. StaysHome'
  BY DEF TypeOK, StaysHome, With, InBundles, InQueue
<1>3. OnePlace'
  BY DEF TypeOK, StaysHome, With, OnePlace, Alone, InBundles, InQueue, Carried
<1>4. Stamped'
  BY DEF TypeOK, Stamped, InQueue
<1>5. Addressed'
  BY DEF TypeOK, Addressed, OnePlace, Alone, StaysHome, With, Carried
<1> QED BY <1>1, <1>2, <1>3, <1>4, <1>5

(* CheckStop preserves the invariant.                                       *)
LEMMA CheckStopStep ==
  ASSUME IInv, NEW w \in Writers, CheckStop(w)
  PROVE  IInv'
<1> USE ParamAssumption DEF ParamAssumption, IInv, CheckStop, Stopping, vars, appVars, packetVars, writerVars, ctlVars
<1>1. TypeOK'
  BY DEF TypeOK
<1>2. StaysHome'
  BY DEF TypeOK, StaysHome, With, InBundles, InQueue
<1>3. OnePlace'
  BY ZenonT(60) DEF TypeOK, StaysHome, With, OnePlace, Alone, InBundles, InQueue, Carried
<1>4. Stamped'
  BY DEF TypeOK, Stamped, InQueue
<1>5. Addressed'
  BY DEF TypeOK, Addressed, OnePlace, Alone, StaysHome, With, Carried
<1> QED BY <1>1, <1>2, <1>3, <1>4, <1>5

(* Take preserves the invariant.                                            *)
LEMMA TakeStep ==
  ASSUME IInv, NEW w \in Writers, NEW a \in Accessors, Take(w, a)
  PROVE  IInv'
<1> USE ParamAssumption DEF ParamAssumption, IInv, Take, vars, appVars, packetVars, writerVars, ctlVars
<1>1. TypeOK'
  BY DEF TypeOK
<1> DEFINE b == Head(submitQ[a])
<1>t. /\ submitQ \in [Accessors -> Seq(SUBSET Packets)]
      /\ submitQ[a] \in Seq(SUBSET Packets)
      /\ submitQ[a] # <<>>
      /\ submitQ'[a] = Tail(submitQ[a])
      /\ \A c \in Accessors \ {a} : submitQ'[c] = submitQ[c]
  BY DEF TypeOK
<1>q. /\ Len(submitQ[a]) \in Nat \ {0}
      /\ b = submitQ[a][1]
      /\ Len(submitQ'[a]) = Len(submitQ[a]) - 1
      /\ \A i \in 1 .. Len(submitQ'[a]) :
           i + 1 \in 2 .. Len(submitQ[a]) /\ submitQ'[a][i] = submitQ[a][i + 1]
  BY <1>t, TailElements
<1>s. \A c \in Accessors, p \in Packets : InQueue(c, p)' => InQueue(c, p)
  BY <1>t, <1>q DEF InQueue
<1>b. \A p \in Packets : p \in b => InQueue(a, p)
  BY <1>t, <1>q DEF InQueue
<1>2. StaysHome'
  <2>1. \A c \in Accessors, p \in Packets : With(c, p)' => With(c, p)
    BY <1>s DEF With, InBundles
  <2>2. \A v \in Writers : cargo'[v] = IF v = w THEN b ELSE cargo[v]
    BY DEF TypeOK
  <2>3. b \subseteq Packets
    BY <1>t, <1>q
  <2>4. \A p \in b : opaque[p] = Owner[p]
    BY <1>b, <2>3 DEF Stamped, StaysHome, With
  <2> QED BY <2>1, <2>2, <2>4 DEF StaysHome
<1>3. OnePlace'
  <2> SUFFICES ASSUME NEW p \in Packets PROVE Alone(p)'
    BY DEF OnePlace
  <2> DEFINE o == Owner[p]
  <2>0. o \in Accessors /\ Alone(p)
    BY DEF OnePlace
  <2>1. InQueue(o, p)' => InQueue(o, p)
    BY <1>s, <2>0
  <2>2. p \in b => InQueue(a, p) /\ o = a
    BY <1>b, <2>0 DEF StaysHome, With
  <2>3. InQueue(o, p)' => p \notin b
    <3> SUFFICES ASSUME NEW i \in 1 .. Len(submitQ'[o]), p \in submitQ'[o][i], p \in b
                 PROVE  FALSE
      BY DEF InQueue
    <3>1. o = a /\ p \in submitQ[a][i + 1] /\ p \in submitQ[a][1]
      BY <1>q, <2>2
    <3>2. i + 1 \in 1 .. Len(submitQ[a]) /\ 1 \in 1 .. Len(submitQ[a]) /\ i + 1 # 1
      BY <1>q, <3>1
    <3> QED BY <2>0, <3>1, <3>2 DEF Alone
  <2>4. Carried(p)' => Carried(p) \/ p \in b
    BY DEF Carried, TypeOK
  <2>5. \A i, j \in 1 .. Len(submitQ'[o]) :
          p \in submitQ'[o][i] \cap submitQ'[o][j] => i = j
    <3>1. CASE o # a
      BY <1>t, <2>0, <3>1 DEF Alone
    <3>2. CASE o = a
      <4> SUFFICES ASSUME NEW i \in 1 .. Len(submitQ'[a]), NEW j \in 1 .. Len(submitQ'[a]),
                          p \in submitQ'[a][i], p \in submitQ'[a][j]
                   PROVE  i = j
        BY <3>2
      <4>1. /\ i + 1 \in 1 .. Len(submitQ[a]) /\ p \in submitQ[a][i + 1]
            /\ j + 1 \in 1 .. Len(submitQ[a]) /\ p \in submitQ[a][j + 1]
        BY <1>q
      <4>2. i + 1 = j + 1
        BY <2>0, <3>2, <4>1 DEF Alone
      <4> QED BY <1>q, <4>2
    <3> QED BY <3>1, <3>2
  <2>6. \A u, v \in Writers : p \in cargo'[u] \cap cargo'[v] => u = v
    BY <2>0, <2>2 DEF Alone, Carried, TypeOK
  <2>7. InBundles(o, p)' <=> InBundles(o, p)
    BY DEF InBundles
  <2> QED BY <2>0, <2>1, <2>2, <2>3, <2>4, <2>5, <2>6, <2>7 DEF Alone
<1>4. Stamped'
  BY DEF TypeOK, Stamped, InQueue
<1>5. Addressed'
  BY DEF TypeOK, Addressed, OnePlace, Alone, StaysHome, With, Carried
<1> QED BY <1>1, <1>2, <1>3, <1>4, <1>5

(* HandBack preserves the invariant.                                        *)
LEMMA HandBackStep ==
  ASSUME IInv, NEW w \in Writers, NEW p \in Packets, HandBack(w, p)
  PROVE  IInv'
<1> USE ParamAssumption DEF ParamAssumption, IInv, HandBack, vars, appVars, packetVars, writerVars, ctlVars
<1>0. /\ opaque[p] = Owner[p]
      /\ Owner[p] \in Accessors
      /\ Verdict(w) \in {SUCCESS, NOT_SCHEDULED}
      /\ p \in cargo[w]
  BY DEF StaysHome, Verdict
<1>q. \/ reapQ' = [reapQ EXCEPT ![Owner[p]] = @ \cup {p}] /\ lost' = lost
      \/ reapQ' = reapQ /\ lost' = lost \cup {p}
  BY <1>0
<1>1. TypeOK'
  <2>1. header' \in [Packets -> EndPoints \cup {SUCCESS, NOT_SCHEDULED}]
    BY <1>0 DEF TypeOK
  <2>2. reapQ' \in [Accessors -> SUBSET Packets]
    <3>1. reapQ[Owner[p]] \cup {p} \in SUBSET Packets /\ reapQ \in [Accessors -> SUBSET Packets]
      BY <1>0 DEF TypeOK
    <3> HIDE DEF HandBack
    <3> QED BY <1>q, <3>1
  <2> QED BY <2>1, <2>2 DEF TypeOK
<1>2. StaysHome'
  <2>1. \A c \in Accessors, r \in Packets : With(c, r)' => With(c, r) \/ (r = p /\ c = Owner[p])
    BY <1>0 DEF With, InBundles, InQueue, TypeOK
  <2>2. \A v \in Writers : cargo'[v] \subseteq cargo[v]
    BY DEF TypeOK
  <2> QED BY <2>1, <2>2 DEF StaysHome, TypeOK
<1>3. OnePlace'
  <2> SUFFICES ASSUME NEW r \in Packets PROVE Alone(r)'
    BY DEF OnePlace
  <2> DEFINE o == Owner[r]
  <2>0. o \in Accessors /\ Alone(r) /\ Alone(p)
    BY DEF OnePlace
  <2>1. \A v \in Writers : cargo'[v] = IF v = w THEN cargo[w] \ {p} ELSE cargo[v]
    BY DEF TypeOK
  <2>2. CASE r # p
    <3>1. /\ (r \in reapQ'[o]) <=> (r \in reapQ[o])
          /\ (r \in lost') <=> (r \in lost)
          /\ \A v \in Writers : (r \in cargo'[v]) <=> (r \in cargo[v])
      <4>1. reapQ \in [Accessors -> SUBSET Packets]
        BY DEF TypeOK
      <4> HIDE DEF HandBack
      <4> QED BY <1>0, <1>q, <2>0, <2>1, <2>2, <4>1
    <3> QED BY <3>1, <2>0 DEF Alone, InBundles, InQueue, Carried
  <2>3. CASE r = p
    <3>1. /\ p \notin held[o] \cup batch[o] \cup reapQ[o] \cup lost
          /\ ~InBundles(o, p) /\ ~InQueue(o, p)
      BY <1>0, <2>0, <2>3 DEF Alone, Carried
    <3>2. ~Carried(p)'
      BY <1>0, <2>0, <2>1, <2>3 DEF Alone, Carried
    <3>3. ~(p \in reapQ'[o] /\ p \in lost')
      BY <1>0, <2>0, <2>3, <3>1 DEF TypeOK
    <3> QED BY <2>0, <2>3, <3>1, <3>2, <3>3 DEF Alone, InBundles, InQueue, Carried
  <2> QED BY <2>2, <2>3
<1>4. Stamped'
  BY DEF TypeOK, Stamped, InQueue
<1>5. Addressed'
  <2>1. \A a \in Accessors : p \notin batch[a]
    BY <1>0, ZenonT(60) DEF OnePlace, Alone, StaysHome, With, Carried
  <2>2. \A r \in Packets \ {p} : header'[r] = header[r]
    BY DEF TypeOK
  <2>3. batch \in [Accessors -> SUBSET Packets]
    BY DEF TypeOK
  <2> QED BY <2>1, <2>2, <2>3 DEF Addressed
<1> QED BY <1>1, <1>2, <1>3, <1>4, <1>5

(* Bounce preserves the invariant.                                          *)
LEMMA BounceStep ==
  ASSUME IInv, NEW a \in Accessors, NEW e \in EndPoints, Bounce(a, e)
  PROVE  IInv'
<1> USE ParamAssumption DEF ParamAssumption, IInv, Bounce, Clear, vars, appVars, packetVars, writerVars, ctlVars
<1>1. TypeOK'
  BY DEF TypeOK
<1>2. StaysHome'
  BY DEF TypeOK, StaysHome, With, InBundles, InQueue
<1>3. OnePlace'
  <2> SUFFICES ASSUME NEW p \in Packets PROVE Alone(p)'
    BY DEF OnePlace
  <2> DEFINE o == Owner[p]
  <2>0. o \in Accessors /\ Alone(p)
    BY DEF OnePlace
  <2>1. \A c \in Accessors, f \in EndPoints :
          bundles'[c][f] = IF c = a /\ f = e THEN {} ELSE bundles[c][f]
    BY DEF TypeOK
  <2>2. CASE p \in bundles[a][e]
    <3>1. o = a /\ InBundles(a, p)
      BY <2>2 DEF StaysHome, With, InBundles
    <3>2. ~InBundles(a, p)'
      BY <2>0, <2>1, <2>2, <3>1 DEF Alone, InBundles
    <3>3. /\ p \notin held[a] \cup batch[a] \cup reapQ[a] \cup lost
          /\ ~InQueue(a, p) /\ ~Carried(p)
      BY <2>0, <3>1 DEF Alone
    <3> QED BY <2>0, <2>1, <3>1, <3>2, <3>3 DEF Alone, InQueue, Carried, InBundles
  <2>3. CASE p \notin bundles[a][e]
    <3>1. /\ InBundles(o, p)' <=> InBundles(o, p)
          /\ (p \in reapQ'[o]) <=> (p \in reapQ[o])
      BY <2>0, <2>1, <2>3 DEF InBundles, TypeOK
    <3> QED BY <2>0, <2>1, <3>1 DEF Alone, InQueue, Carried
  <2> QED BY <2>2, <2>3
<1>4. Stamped'
  BY DEF TypeOK, Stamped, InQueue
<1>5. Addressed'
  BY DEF TypeOK, Addressed, OnePlace, Alone, StaysHome, With, Carried
<1> QED BY <1>1, <1>2, <1>3, <1>4, <1>5

(* Deposit preserves the invariant.                                         *)
LEMMA DepositStep ==
  ASSUME IInv, NEW a \in Accessors, NEW e \in EndPoints, NEW X \in SUBSET batch[a],
         Deposit(a, e, bundles[a][e] \cup X),
         batch' = [batch EXCEPT ![a] = @ \ X],
         todo' \in [Accessors -> SUBSET EndPoints],
         UNCHANGED <<held, live, deliveries, lost, reapQ, writerVars, ctlVars>>
  PROVE  IInv'
<1> USE ParamAssumption DEF ParamAssumption, IInv, writerVars, ctlVars
<1> DEFINE b == bundles[a][e] \cup X
<1>b. /\ b \in SUBSET Packets
      /\ \A p \in b : Owner[p] = a /\ (p \in batch[a] \/ InBundles(a, p))
  BY DEF TypeOK, StaysHome, With, InBundles
<1>d. /\ opaque' = [p \in Packets |-> IF p \in b THEN a ELSE opaque[p]]
      /\ \/ /\ submitQ' = [submitQ EXCEPT ![a] = Append(@, b)]
            /\ bundles' = [bundles EXCEPT ![a][e] = {}]
            /\ header' = header
            /\ bouncing' = bouncing
         \/ /\ header'   = [p \in Packets |-> IF p \in b THEN NOT_SCHEDULED
                                                         ELSE header[p]]
            /\ bundles'  = [bundles EXCEPT ![a][e] = b]
            /\ bouncing' = [bouncing EXCEPT ![a] = e]
            /\ submitQ' = submitQ
  BY DEF Deposit, Stamp, Clear
<1>1. TypeOK'
  <2>1. Append(submitQ[a], b) \in Seq(SUBSET Packets)
    BY <1>b, AppendElements DEF TypeOK
  <2>2. submitQ' \in [Accessors -> Seq(SUBSET Packets)]
    BY <1>d, <2>1, ZenonT(60) DEF TypeOK
  <2>3. bundles' \in [Accessors -> [EndPoints -> SUBSET Packets]]
    <3>1. [bundles[a] EXCEPT ![e] = b] \in [EndPoints -> SUBSET Packets]
      BY <1>b DEF TypeOK
    <3>2. [bundles[a] EXCEPT ![e] = {}] \in [EndPoints -> SUBSET Packets]
      BY DEF TypeOK
    <3> QED BY <1>d, <3>1, <3>2, ZenonT(60) DEF TypeOK
  <2>5. bouncing' \in [Accessors -> EndPoints \cup {NoOne}]
    BY <1>d, ZenonT(60) DEF TypeOK
  <2>4. /\ header' \in [Packets -> EndPoints \cup {SUCCESS, NOT_SCHEDULED}]
        /\ opaque' \in [Packets -> Accessors \cup {NoOne}]
        /\ batch' \in [Accessors -> SUBSET Packets]
    BY <1>b, <1>d DEF TypeOK
  <2> QED BY <2>2, <2>3, <2>4, <2>5 DEF TypeOK
(* What becomes of the bundles, of the calls and of the queues.            *)
<1>m. /\ \A c \in Accessors, f \in EndPoints :
           ~(c = a /\ f = e) => bundles'[c][f] = bundles[c][f]
      /\ \A c \in Accessors : batch'[c] = IF c = a THEN batch[a] \ X ELSE batch[c]
      /\ \A c \in Accessors : c # a => submitQ'[c] = submitQ[c]
  BY <1>d DEF TypeOK
<1>n. \/ /\ submitQ'[a] = Append(submitQ[a], b)
         /\ bundles'[a][e] = {}
      \/ submitQ'[a] = submitQ[a] /\ bundles'[a][e] = b
  BY <1>d DEF TypeOK
<1>a. /\ submitQ[a] \in Seq(SUBSET Packets)
      /\ Len(submitQ[a]) \in Nat
      /\ Len(Append(submitQ[a], b)) = Len(submitQ[a]) + 1
      /\ \A i \in 1 .. Len(submitQ[a]) : Append(submitQ[a], b)[i] = submitQ[a][i]
      /\ Append(submitQ[a], b)[Len(submitQ[a]) + 1] = b
  BY <1>b, AppendElements DEF TypeOK
<1>q. \A i \in 1 .. Len(submitQ'[a]) :
        \/ i \in 1 .. Len(submitQ[a]) /\ submitQ'[a][i] = submitQ[a][i]
        \/ i = Len(submitQ[a]) + 1 /\ submitQ'[a][i] = b
  <2> HIDE DEF b
  <2>1. CASE submitQ'[a] = submitQ[a]
    BY <2>1
  <2>2. CASE submitQ'[a] = Append(submitQ[a], b)
    BY <1>a, <2>2
  <2> QED BY <1>n, <2>1, <2>2
<1>i. ASSUME NEW c \in Accessors, NEW p \in Packets
      PROVE  /\ p \notin b => /\ InBundles(c, p)' => InBundles(c, p)
                              /\ InQueue(c, p)' => InQueue(c, p)
                              /\ p \in batch'[c] => p \in batch[c]
             /\ p \in b => /\ p \in batch'[c] => c # a
                           /\ c # a => /\ InBundles(c, p)' => InBundles(c, p)
                                       /\ InQueue(c, p)' => InQueue(c, p)
  <2>1. p \notin b => (InBundles(c, p)' => InBundles(c, p))
    BY <1>m, <1>n DEF InBundles
  <2>2. p \notin b => (InQueue(c, p)' => InQueue(c, p))
    BY <1>m, <1>q DEF InQueue
  <2>3. c # a => /\ InBundles(c, p)' => InBundles(c, p)
                 /\ InQueue(c, p)' => InQueue(c, p)
    BY <1>m DEF InBundles, InQueue
  <2>4. p \in b => (p \in batch'[c] => c # a)
    <3> SUFFICES ASSUME p \in bundles[a][e], p \in batch'[c], c = a
                 PROVE  FALSE
      BY <1>m
    <3> QED BY <1>b, <1>m DEF OnePlace, Alone, InBundles
  <2> QED BY <2>1, <2>2, <2>3, <2>4, <1>m
<1>2. StaysHome'
  <2>1. \A c \in Accessors, p \in Packets : With(c, p)' => With(c, p) \/ (p \in b /\ c = a)
    BY <1>i, <1>m DEF With
  <2>2. \A w \in Writers : \A p \in cargo[w] : p \notin b
    <3> SUFFICES ASSUME NEW w \in Writers, NEW p \in cargo[w], p \in b PROVE FALSE
      OBVIOUS
    <3>1. p \in Packets /\ Owner[p] = a /\ Alone(p) /\ Carried(p)
      BY <1>b DEF OnePlace, Carried
    <3>2. p \in batch[a] \/ InBundles(a, p)
      BY <1>b
    <3> QED BY <3>1, <3>2 DEF Alone
  <2> QED BY <1>b, <1>d, <2>1, <2>2 DEF StaysHome, TypeOK
<1>3. OnePlace'
  <2> SUFFICES ASSUME NEW p \in Packets PROVE Alone(p)'
    BY DEF OnePlace
  <2> DEFINE o == Owner[p]
  <2>0. o \in Accessors /\ Alone(p)
    BY DEF OnePlace
  <2>c. Carried(p)' <=> Carried(p)
    BY DEF Carried
  <2>1. CASE p \in b
    <3>1. /\ o = a
          /\ p \notin held[a] \cup reapQ[a] \cup lost
          /\ ~InQueue(a, p) /\ ~Carried(p)
          /\ p \notin batch'[a]
      BY <1>b, <1>i, <2>0, <2>1 DEF Alone
    <3>2. \A f \in EndPoints : f # e => p \notin bundles'[a][f]
      BY <1>b, <1>m, <2>0, <2>1, <3>1 DEF Alone, InBundles
    <3>3. ~(InBundles(a, p)' /\ InQueue(a, p)')
      BY <1>n, <3>1, <3>2 DEF InBundles, InQueue
    <3>4. \A i, j \in 1 .. Len(submitQ'[a]) :
            p \in submitQ'[a][i] \cap submitQ'[a][j] => i = j
      BY <1>q, <3>1, SMTT(30) DEF InQueue
    <3> QED BY <2>0, <2>c, <3>1, <3>2, <3>3, <3>4 DEF Alone
  <2>2. CASE p \notin b
    <3>1. /\ InBundles(o, p)' => InBundles(o, p)
          /\ InQueue(o, p)' => InQueue(o, p)
          /\ p \in batch'[o] => p \in batch[o]
      BY <1>i, <2>0, <2>2
    <3>2. \A f, g \in EndPoints : p \in bundles'[o][f] \cap bundles'[o][g] => f = g
      BY <1>m, <1>n, <2>0, <2>2 DEF Alone
    <3>3. \A i, j \in 1 .. Len(submitQ'[o]) :
            p \in submitQ'[o][i] \cap submitQ'[o][j] => i = j
      <4>1. CASE o # a
        BY <1>m, <2>0, <4>1 DEF Alone
      <4>2. CASE o = a
        <5>1. \A i \in 1 .. Len(submitQ'[a]) : p \in submitQ'[a][i] =>
                i \in 1 .. Len(submitQ[a]) /\ p \in submitQ[a][i]
          BY <1>q, <2>2
        <5> QED BY <2>0, <4>2, <5>1 DEF Alone
      <4> QED BY <4>1, <4>2
    <3> QED BY <2>0, <2>c, <3>1, <3>2, <3>3 DEF Alone
  <2> QED BY <2>1, <2>2
<1>4. Stamped'
  <2> SUFFICES ASSUME NEW c \in Accessors, NEW p \in Packets, InQueue(c, p)'
               PROVE  opaque'[p] = c
    BY DEF Stamped
  <2>1. CASE p \in b
    <3>1. c = a
      BY <1>b, <1>i, <2>1 DEF StaysHome, With
    <3> QED BY <1>d, <2>1, <3>1
  <2>2. CASE p \notin b
    BY <1>d, <1>i, <2>2 DEF Stamped
  <2> QED BY <2>1, <2>2
<1>5. Addressed'
  <2> SUFFICES ASSUME NEW c \in Accessors, NEW p \in batch'[c]
               PROVE  header'[p] \in EndPoints
    BY DEF Addressed
  <2>0. p \in Packets /\ p \in batch[c]
    BY <1>m DEF TypeOK
  <2>1. p \notin b
    BY <1>b, <1>i, <2>0 DEF StaysHome, With
  <2> QED BY <1>d, <2>0, <2>1 DEF Addressed
<1> QED BY <1>1, <1>2, <1>3, <1>4, <1>5

(* AddPacket preserves the invariant.                                       *)
LEMMA AddPacketStep ==
  ASSUME IInv, NEW a \in Accessors, NEW p \in batch[a], AddPacket(a, p)
  PROVE  IInv'
<1> USE ParamAssumption DEF ParamAssumption, IInv, writerVars, ctlVars
<1> DEFINE e == header[p]
           b == bundles[a][e] \cup {p}
<1>e. e \in EndPoints /\ p \in Packets /\ Owner[p] = a
  BY DEF Addressed, TypeOK, StaysHome, With
<1>1. CASE BundleFull(b)
  <2>1. /\ {p} \in SUBSET batch[a]
        /\ Deposit(a, e, bundles[a][e] \cup {p})
        /\ batch' = [batch EXCEPT ![a] = @ \ {p}]
        /\ todo' = todo
        /\ UNCHANGED <<held, live, deliveries, lost, reapQ, writerVars, ctlVars>>
    BY <1>1 DEF AddPacket, Target
  <2>2. todo' \in [Accessors -> SUBSET EndPoints]
    BY <2>1 DEF TypeOK
  <2> HIDE DEF IInv
  <2> QED BY <1>e, <2>1, <2>2, DepositStep
<1>2. CASE ~BundleFull(b)
  <2>1. /\ bundles' = [bundles EXCEPT ![a][e] = b]
        /\ batch' = [batch EXCEPT ![a] = @ \ {p}]
        /\ UNCHANGED <<header, opaque, submitQ, bouncing, held, todo, live, deliveries,
                       lost, reapQ, wpc, cargo, tries, closing, wstop, shutdown>>
    BY <1>2 DEF AddPacket, Target
  <2>2. TypeOK'
    <3>0. bundles[a] \in [EndPoints -> SUBSET Packets] /\ b \in SUBSET Packets
      <4>1. bundles[a] \in [EndPoints -> SUBSET Packets]
        BY DEF TypeOK
      <4>2. bundles[a][e] \in SUBSET Packets
        BY <1>e, <4>1
      <4> QED BY <1>e, <4>1, <4>2
    <3>1. [bundles[a] EXCEPT ![e] = b] \in [EndPoints -> SUBSET Packets]
      <4> HIDE DEF b, e
      <4> QED BY <1>e, <3>0
    <3>2. bundles' \in [Accessors -> [EndPoints -> SUBSET Packets]]
      BY <2>1, <3>1 DEF TypeOK
    <3>3. batch' \in [Accessors -> SUBSET Packets]
      BY <2>1 DEF TypeOK
    <3> QED BY <2>1, <3>2, <3>3 DEF TypeOK
  <2>3. /\ \A c \in Accessors, f \in EndPoints :
             bundles'[c][f] = IF c = a /\ f = e THEN b ELSE bundles[c][f]
        /\ \A c \in Accessors : batch'[c] = IF c = a THEN batch[a] \ {p} ELSE batch[c]
    BY <1>e, <2>1 DEF TypeOK
  <2>4. StaysHome'
    <3>1. \A c \in Accessors, r \in Packets : With(c, r)' => With(c, r)
      BY <1>e, <2>1, <2>3 DEF With, InBundles, InQueue
    <3> QED BY <2>1, <3>1 DEF StaysHome
  <2>5. OnePlace'
    <3> SUFFICES ASSUME NEW r \in Packets PROVE Alone(r)'
      BY DEF OnePlace
    <3>0. Owner[r] \in Accessors /\ Alone(r)
      BY DEF OnePlace
    <3>1. CASE r = p
      <4>1. /\ p \notin held[a] \cup reapQ[a] \cup lost
            /\ ~InQueue(a, p) /\ ~Carried(p) /\ ~InBundles(a, p)
            /\ p \notin batch'[a]
        BY <1>e, <2>3, <3>0, <3>1 DEF Alone
      <4> QED BY <1>e, <2>1, <2>3, <3>0, <3>1, <4>1 DEF Alone, InBundles, InQueue, Carried
    <3>2. CASE r # p
      <4>1. /\ \A f \in EndPoints : r \in bundles'[Owner[r]][f] <=> r \in bundles[Owner[r]][f]
            /\ r \in batch'[Owner[r]] <=> r \in batch[Owner[r]]
        <5> HIDE DEF b
        <5>1. \A f \in EndPoints : r \in bundles'[Owner[r]][f] <=> r \in bundles[Owner[r]][f]
          BY <2>3, <3>0, <3>2 DEF b
        <5> QED BY <2>3, <3>0, <3>2, <5>1
      <4> QED BY <2>1, <3>0, <4>1 DEF Alone, InBundles, InQueue, Carried
    <3> QED BY <3>1, <3>2
  <2>6. Stamped' /\ Addressed'
    BY <2>1, <2>3 DEF Stamped, Addressed, InQueue
  <2> QED BY <2>2, <2>4, <2>5, <2>6
<1> QED BY <1>1, <1>2

(* FlushEndPoint preserves the invariant.                                   *)
LEMMA FlushEndPointStep ==
  ASSUME IInv, NEW a \in Accessors, NEW e \in EndPoints, FlushEndPoint(a, e)
  PROVE  IInv'
<1>1. /\ {} \in SUBSET batch[a]
      /\ Deposit(a, e, bundles[a][e])
      /\ bundles[a][e] = bundles[a][e] \cup {}
      /\ UNCHANGED <<held, live, deliveries, lost, reapQ, writerVars, ctlVars>>
  BY DEF FlushEndPoint
<1>2. batch' = [batch EXCEPT ![a] = @ \ {}]
  BY DEF FlushEndPoint, IInv, TypeOK
<1>3. todo' \in [Accessors -> SUBSET EndPoints]
  BY DEF FlushEndPoint, IInv, TypeOK
<1> QED BY <1>1, <1>2, <1>3, DepositStep

(* The end of the program changes nothing.                                  *)
LEMMA EndedStep ==
  ASSUME IInv, UNCHANGED vars
  PROVE  IInv'
BY DEF IInv, TypeOK, StaysHome, OnePlace, Alone, Stamped, Addressed, With, InBundles,
       InQueue, Carried, vars, appVars, packetVars, writerVars, ctlVars

(* The steps of comms_shutdown preserve the invariant.                      *)
LEMMA ShutdownSteps ==
  ASSUME IInv, BeginShutdown \/ ShutdownStep
  PROVE  IInv'
<1>1. /\ UNCHANGED <<appVars, packetVars, submitQ, reapQ, writerVars>>
      /\ TypeOK => closing' \in BOOLEAN /\ wstop' \subseteq Writers /\ shutdown' \in BOOLEAN
  BY DEF BeginShutdown, ShutdownStep, StopWriter, FinishShutdown, TypeOK
<1>2. TypeOK'
  BY <1>1 DEF IInv, TypeOK, appVars, packetVars, writerVars
<1>3. StaysHome' /\ Stamped' /\ Addressed'
  BY <1>1 DEF IInv, StaysHome, Stamped, Addressed, With, InBundles, InQueue,
              appVars, packetVars, writerVars
<1>4. OnePlace'
  BY <1>1, ZenonT(60) DEF IInv, OnePlace, Alone, InBundles, InQueue, Carried,
              appVars, packetVars, writerVars
<1> QED BY <1>2, <1>3, <1>4 DEF IInv

(* Every step preserves the invariant.                                      *)
LEMMA NextIInv == IInv /\ [Next]_vars => IInv'
<1> SUFFICES ASSUME IInv, [Next]_vars PROVE IInv'
  OBVIOUS
<1>0. \A a \in Accessors : batch[a] \subseteq Packets
  BY DEF IInv, TypeOK
<1>1. ASSUME NEW a \in Accessors, Call(a) PROVE IInv'
  BY <1>1, SubmitStep, FlushStep, ReapStep, DestroyStep DEF Call
<1>2. ASSUME NEW a \in Accessors, CallStep(a) PROVE IInv'
  BY <1>2, AddPacketStep, FlushEndPointStep, BounceStep DEF CallStep
<1>3. ASSUME NEW w \in Writers, WriterStep(w) PROVE IInv'
  <2>1. cargo[w] \subseteq Packets
    BY DEF IInv, TypeOK
  <2> QED BY <1>3, <2>1, TakeStep, TransmitOkStep, TransmitErrorStep, HandBackStep,
             BundleDoneStep, PollEmptyStep, CheckStopStep DEF WriterStep
<1>4. CASE BeginShutdown \/ ShutdownStep
  BY <1>4, ShutdownSteps
<1>5. CASE Ended \/ UNCHANGED vars
  BY <1>5, EndedStep DEF Ended
<1> QED BY <1>1, <1>2, <1>3, <1>4, <1>5 DEF Next

(* The invariant always holds.                                              *)
LEMMA Invariance == Spec => []IInv
<1> QED BY InitIInv, NextIInv, PTL DEF Spec
-------------------------------------------------------------------------------
(* The variables of the packet path keep their types.                       *)
THEOREM TypeCorrect == Spec => []TypeOK
<1>1. IInv => TypeOK
  BY DEF IInv
<1> QED BY <1>1, Invariance, PTL

(* However many threads run and whatever fails, a packet is never in two    *)
(* places at once: it is neither transmitted by two writers nor reaped      *)
(* twice for one submission.                                                *)
THEOREM NoDuplicates == Spec => []OnePlace
<1>1. IInv => OnePlace
  BY DEF IInv
<1> QED BY <1>1, Invariance, PTL

(* A packet only ever comes back to the accessor that submitted it.         *)
THEOREM ComesHome == Spec => []StaysHome
<1>1. IInv => StaysHome
  BY DEF IInv
<1> QED BY <1>1, Invariance, PTL
-------------------------------------------------------------------------------
(* A bundle is full only while its packets are refused and wait for the     *)
(* reap queue; until then they are addressed to its end point.              *)
Bundled ==
  \A a \in Accessors, e \in EndPoints :
    IF bouncing[a] = e
      THEN /\ Cardinality(bundles[a][e]) <= BundleSize
           /\ \A p \in bundles[a][e] : header[p] = NOT_SCHEDULED
      ELSE /\ Cardinality(bundles[a][e]) < BundleSize
           /\ \A p \in bundles[a][e] : header[p] = e

(* Writers without a bundle have no packets, accessors are only destroyed   *)
(* after the shutdown, and that only ends when all writers have.            *)
Quitting ==
  /\ \A w \in Writers : wpc[w] \in {"poll", "empty", "exit"} => cargo[w] = {}
  /\ shutdown => Exited(Writers)
  /\ ~shutdown => live = Accessors

(* What the gateway got is bounded by the attempts made, and a writer that  *)
(* reports success was answered.                                            *)
Counted ==
  /\ \A p \in Packets : deliveries[p][Gateway] # 0 =>
        Carried(p) \/ p \in reapQ[Owner[p]] \cup lost
  /\ \A w \in Writers : wpc[w] # "send" => tries[w] = 0
  /\ \A w \in Writers : \A p \in cargo[w] :
        /\ wpc[w] = "send" => deliveries[p][Gateway] <= tries[w]
        /\ wpc[w] = "ok" => deliveries[p][Gateway] > 0

(* No packet is dropped.                                                    *)
Present ==
  /\ lost = {}
  /\ \A p \in Packets : Carried(p) \/ With(Owner[p], p)

OwnPackets(a) == {p \in Packets : Owner[p] = a}

(* A reap queue has room for all packets of its accessor.                   *)
Roomy == \A a \in Accessors : Cardinality(OwnPackets(a)) <= ReapCap

-------------------------------------------------------------------------------
(* A packet a writer carries is nowhere else.                               *)
LEMMA CarriedAlone ==
  ASSUME IInv, NEW p \in Packets, Carried(p)
  PROVE  \A a \in Accessors : ~With(a, p)
BY ParamAssumption DEF ParamAssumption, IInv, OnePlace, Alone, StaysHome, With

(* The bundles before and after an action that leaves them alone.           *)
LEMMA BundledFrame ==
  ASSUME Bundled, UNCHANGED <<bundles, bouncing>>,
         \A a \in Accessors, e \in EndPoints : \A p \in bundles[a][e] : header'[p] = header[p]
  PROVE  Bundled'
BY DEF Bundled

(* Bundles start empty.                                                     *)
LEMMA InitBundled == Init => Bundled
BY ParamAssumption, FS_EmptySet DEF ParamAssumption, Init, Bundled

(* Submit leaves the bundles and their packets' addresses alone.            *)
LEMMA SubmitBundled ==
  ASSUME IInv, Bundled, NEW a \in Accessors, NEW S \in SUBSET held[a],
         NEW dst \in [S -> EndPoints], Submit(a, S, dst)
  PROVE  Bundled'
<1>1. ASSUME NEW c \in Accessors, NEW e \in EndPoints, NEW p \in bundles[c][e]
      PROVE  p \in Packets /\ p \notin S
  <2>1. p \in Packets /\ InBundles(c, p)
    BY DEF IInv, TypeOK, InBundles
  <2>2. Owner[p] = c /\ (p \in S => Owner[p] = a)
    BY <2>1 DEF IInv, StaysHome, With
  <2> QED BY <2>1, <2>2 DEF IInv, OnePlace, Alone
<1>2. \A c \in Accessors, e \in EndPoints : \A p \in bundles[c][e] : header'[p] = header[p]
  BY <1>1 DEF Submit
<1> QED BY <1>2, BundledFrame DEF Submit

(* A writer overwrites the header of a packet that is in no bundle.         *)
LEMMA HandBackBundled ==
  ASSUME IInv, Bundled, NEW w \in Writers, NEW p \in Packets, HandBack(w, p)
  PROVE  Bundled'
<1>1. \A c \in Accessors, e \in EndPoints : p \notin bundles[c][e]
  BY CarriedAlone DEF HandBack, Carried, With, InBundles
<1>2. \A c \in Accessors, e \in EndPoints : \A r \in bundles[c][e] : header'[r] = header[r]
  BY <1>1 DEF HandBack, IInv, TypeOK
<1> QED BY <1>2, BundledFrame DEF HandBack, appVars

(* A bundle that is deposited is emptied or refused.                        *)
LEMMA DepositBundled ==
  ASSUME IInv, Bundled, NEW a \in Accessors, NEW e \in EndPoints, NEW X \in SUBSET batch[a],
         bouncing[a] = NoOne, Cardinality(bundles[a][e] \cup X) <= BundleSize,
         Deposit(a, e, bundles[a][e] \cup X)
  PROVE  Bundled'
<1> DEFINE b == bundles[a][e] \cup X
<1>1. ASSUME NEW c \in Accessors, NEW f \in EndPoints, ~(c = a /\ f = e)
      PROVE  /\ bundles'[c][f] = bundles[c][f]
             /\ bouncing'[c] = f <=> bouncing[c] = f
             /\ \A p \in bundles[c][f] : header'[p] = header[p]
  <2>1. /\ bundles'[c][f] = bundles[c][f]
        /\ bouncing'[c] = f <=> bouncing[c] = f
    BY <1>1, ParamAssumption DEF ParamAssumption, Deposit, Clear, IInv, TypeOK
  <2>2. ASSUME NEW p \in bundles[c][f] PROVE p \in Packets /\ p \notin b
    <3>1. p \in Packets /\ InBundles(c, p) /\ Owner[p] = c
      BY DEF IInv, TypeOK, InBundles, StaysHome, With
    <3>2. p \in b => Owner[p] = a
      BY DEF IInv, TypeOK, InBundles, StaysHome, With
    <3> QED BY <1>1, <3>1, <3>2 DEF IInv, OnePlace, Alone
  <2> QED BY <2>1, <2>2 DEF Deposit
<1>2. /\ bouncing'[a] = e => /\ Cardinality(bundles'[a][e]) <= BundleSize
                             /\ \A p \in bundles'[a][e] : header'[p] = NOT_SCHEDULED
      /\ bouncing'[a] # e => bundles'[a][e] = {}
  <2>0. b \subseteq Packets
    BY DEF IInv, TypeOK
  <2>1. CASE SubmitRoom /\ Clear(a, e) /\ UNCHANGED bouncing
    BY <2>1, ParamAssumption DEF ParamAssumption, Clear, IInv, TypeOK
  <2>2. CASE /\ header' = [p \in Packets |-> IF p \in b THEN NOT_SCHEDULED ELSE header[p]]
             /\ bundles' = [bundles EXCEPT ![a][e] = b]
             /\ bouncing' = [bouncing EXCEPT ![a] = e]
    BY <2>0, <2>2 DEF IInv, TypeOK
  <2> QED BY <2>1, <2>2 DEF Deposit
<1>3. Cardinality({}) < BundleSize
  BY ParamAssumption, FS_EmptySet DEF ParamAssumption
<1> SUFFICES ASSUME NEW c \in Accessors, NEW f \in EndPoints
             PROVE  IF bouncing'[c] = f
                      THEN /\ Cardinality(bundles'[c][f]) <= BundleSize
                           /\ \A p \in bundles'[c][f] : header'[p] = NOT_SCHEDULED
                      ELSE /\ Cardinality(bundles'[c][f]) < BundleSize
                           /\ \A p \in bundles'[c][f] : header'[p] = f
  BY DEF Bundled
<1>4. CASE c = a /\ f = e
  BY <1>2, <1>3, <1>4
<1>5. CASE ~(c = a /\ f = e)
  BY <1>1, <1>5 DEF Bundled
<1> QED BY <1>4, <1>5

(* Adding a packet keeps the bundle within its array: it is deposited or    *)
(* refused when it is full.                                                 *)
LEMMA AddPacketBundled ==
  ASSUME IInv, Bundled, NEW a \in Accessors, NEW p \in batch[a], AddPacket(a, p)
  PROVE  Bundled'
<1> DEFINE e == header[p]
           b == bundles[a][e] \cup {p}
<1>0. e \in EndPoints /\ p \in Packets /\ bouncing[a] # e /\ bouncing[a] = NoOne
  BY ParamAssumption DEF ParamAssumption, IInv, Addressed, TypeOK, AddPacket
<1>1. bundles[a][e] \subseteq Packets /\ IsFiniteSet(bundles[a][e]) /\ p \notin bundles[a][e]
  <2>1. bundles[a][e] \subseteq Packets
    BY <1>0 DEF IInv, TypeOK
  <2>2. p \notin bundles[a][e]
    BY <1>0 DEF IInv, StaysHome, With, OnePlace, Alone, InBundles
  <2> QED BY <2>1, <2>2, ParamAssumption, FS_Subset DEF ParamAssumption
<1>2. /\ Cardinality(b) = Cardinality(bundles[a][e]) + 1
      /\ Cardinality(bundles[a][e]) \in Nat
  BY <1>1, FS_AddElement, FS_CardinalityType
<1>3. Cardinality(b) <= BundleSize
  <2>1. Cardinality(bundles[a][e]) < BundleSize /\ BundleSize \in Nat
    BY <1>0, ParamAssumption DEF ParamAssumption, Bundled
  <2> HIDE DEF b, e
  <2> QED BY <1>2, <2>1
<1>4. CASE BundleFull(b)
  <2>1. {p} \in SUBSET batch[a] /\ Deposit(a, e, bundles[a][e] \cup {p})
    BY <1>4 DEF AddPacket, Target
  <2> QED BY <1>0, <1>3, <2>1, DepositBundled
<1>5. CASE ~BundleFull(b)
  <2>1. /\ bundles' = [bundles EXCEPT ![a][e] = b]
        /\ header' = header /\ bouncing' = bouncing
    BY <1>5 DEF AddPacket, Target
  <2>2. Cardinality(b) < BundleSize
    BY <1>2, <1>3, <1>5, ParamAssumption DEF ParamAssumption, BundleFull
  <2>3. \A c \in Accessors, f \in EndPoints :
           bundles'[c][f] = IF c = a /\ f = e THEN b ELSE bundles[c][f]
    BY <1>0, <2>1 DEF IInv, TypeOK
  <2>4. \A r \in b : header[r] = e
    BY <1>0 DEF Bundled
  <2> HIDE DEF b, e
  <2> QED BY <1>0, <2>1, <2>2, <2>3, <2>4 DEF Bundled
<1> QED BY <1>4, <1>5

(* A flush deposits or refuses a bundle that was not full.                  *)
LEMMA FlushBundled ==
  ASSUME IInv, Bundled, NEW a \in Accessors, NEW e \in EndPoints, FlushEndPoint(a, e)
  PROVE  Bundled'
<1>1. /\ {} \in SUBSET batch[a] /\ bouncing[a] = NoOne /\ bouncing[a] # e
      /\ bundles[a][e] \cup {} = bundles[a][e]
      /\ Deposit(a, e, bundles[a][e] \cup {})
  BY ParamAssumption DEF ParamAssumption, FlushEndPoint
<1>2. Cardinality(bundles[a][e]) < BundleSize
  BY <1>1 DEF Bundled
<1>3. Cardinality(bundles[a][e]) \in Nat
  BY ParamAssumption, FS_Subset, FS_CardinalityType DEF ParamAssumption, IInv, TypeOK
<1>4. Cardinality(bundles[a][e] \cup {}) <= BundleSize
  BY <1>1, <1>2, <1>3, ParamAssumption DEF ParamAssumption
<1> QED BY <1>1, <1>4, DepositBundled

(* The bundle is empty again when its refused packets are in the reap       *)
(* queue.                                                                   *)
LEMMA BounceBundled ==
  ASSUME IInv, Bundled, NEW a \in Accessors, NEW e \in EndPoints, Bounce(a, e)
  PROVE  Bundled'
<1>1. /\ \A c \in Accessors, f \in EndPoints :
           bundles'[c][f] = IF c = a /\ f = e THEN {} ELSE bundles[c][f]
      /\ bouncing[a] = e
      /\ \A c \in Accessors : bouncing'[c] = IF c = a THEN NoOne ELSE bouncing[c]
      /\ header' = header
  BY DEF Bounce, Clear, IInv, TypeOK, packetVars
<1>2. \A f \in EndPoints : NoOne # f
  BY ParamAssumption DEF ParamAssumption
<1>3. Cardinality({}) < BundleSize
  BY ParamAssumption, FS_EmptySet DEF ParamAssumption
<1> QED BY <1>1, <1>2, <1>3 DEF Bundled

(* No step overfills a bundle or spoils the address of a packet in it.      *)
LEMMA NextBundled == IInv /\ Bundled /\ [Next]_vars => Bundled'
<1> SUFFICES ASSUME IInv, Bundled, [Next]_vars PROVE Bundled'
  OBVIOUS
<1>1. ASSUME NEW a \in Accessors, Call(a) PROVE Bundled'
  <2>1. ASSUME NEW S, Reap(a, S) PROVE Bundled'
    BY <2>1, BundledFrame DEF Reap
  <2>2. CASE Flush(a)
    BY <2>2, BundledFrame DEF Flush, packetVars
  <2>3. CASE Destroy(a)
    BY <2>3, BundledFrame DEF Destroy, packetVars
  <2> QED BY <1>1, <2>1, <2>2, <2>3, SubmitBundled DEF Call
<1>2. ASSUME NEW a \in Accessors, CallStep(a) PROVE Bundled'
  BY <1>2, AddPacketBundled, FlushBundled, BounceBundled DEF CallStep
<1>3. ASSUME NEW w \in Writers, WriterStep(w) PROVE Bundled'
  <2>1. CASE \E p \in cargo[w] : HandBack(w, p)
    BY <2>1, HandBackBundled DEF IInv, TypeOK
  <2>2. CASE \/ \E a \in Accessors : Take(w, a)
             \/ TransmitOk(w) \/ TransmitError(w)
             \/ BundleDone(w) \/ PollEmpty(w) \/ CheckStop(w)
    <3>1. UNCHANGED <<bundles, bouncing, header>>
      BY <2>2 DEF Take, TransmitOk, TransmitError, BundleDone, PollEmpty, CheckStop,
                  appVars, packetVars
    <3> QED BY <3>1, BundledFrame
  <2> QED BY <1>3, <2>1, <2>2 DEF WriterStep
<1>4. CASE BeginShutdown \/ ShutdownStep \/ Ended \/ UNCHANGED vars
  <2>1. UNCHANGED <<bundles, bouncing, header>>
    BY <1>4 DEF BeginShutdown, ShutdownStep, StopWriter, FinishShutdown, Ended, vars,
                appVars, packetVars
  <2> QED BY <2>1, BundledFrame
<1> QED BY <1>1, <1>2, <1>3, <1>4 DEF Next

-------------------------------------------------------------------------------
(* The other parts hold at the start.                                       *)
LEMMA InitRest == Init => Quitting /\ Counted /\ (Roomy => Present)
BY ParamAssumption DEF ParamAssumption, Init, Quitting, Counted, Present, Exited, Carried, With,
            Undelivered, Gateway

(* Every step keeps what is said of writers without a bundle and of the     *)
(* shutdown.                                                                *)
LEMMA NextQuitting == IInv /\ Quitting /\ [Next]_vars => Quitting'
<1> SUFFICES ASSUME IInv, Quitting, [Next]_vars PROVE Quitting'
  OBVIOUS
<1> USE DEF Quitting, Exited
<1>1. ASSUME NEW a \in Accessors, Call(a) PROVE Quitting'
  <2>1. UNCHANGED <<wpc, cargo, shutdown>> /\ (live' = live \/ shutdown)
    BY <1>1 DEF Call, Submit, Flush, Reap, Destroy, writerVars, ctlVars
  <2> QED BY <2>1
<1>2. ASSUME NEW a \in Accessors, CallStep(a) PROVE Quitting'
  <2>1. UNCHANGED <<wpc, cargo, shutdown, live>>
    BY <1>2 DEF CallStep, AddPacket, FlushEndPoint, Bounce, writerVars, ctlVars
  <2> QED BY <2>1
<1>3. ASSUME NEW w \in Writers, WriterStep(w) PROVE Quitting'
  <2>1. UNCHANGED <<shutdown, live>>
    BY <1>3 DEF WriterStep, Take, TransmitOk, TransmitError, HandBack, BundleDone, PollEmpty,
                CheckStop, appVars, ctlVars
  <2>2. wpc[w] # "exit"
    BY <1>3 DEF WriterStep, Take, TransmitOk, TransmitError, HandBack, BundleDone, PollEmpty, CheckStop
  <2>3. /\ \A v \in Writers \ {w} : wpc'[v] = wpc[v] /\ cargo'[v] = cargo[v]
        /\ wpc'[w] \in {"poll", "empty", "exit"} => cargo'[w] = {}
    BY <1>3 DEF WriterStep, Take, TransmitOk, TransmitError, HandBack, BundleDone, PollEmpty, CheckStop, IInv, TypeOK
  <2> QED BY <2>1, <2>2, <2>3
<1>4. CASE BeginShutdown \/ ShutdownStep \/ Ended \/ UNCHANGED vars
  BY <1>4 DEF BeginShutdown, ShutdownStep, StopWriter, FinishShutdown, Ended, vars,
              appVars, writerVars, ctlVars
<1> QED BY <1>1, <1>2, <1>3, <1>4 DEF Next

(* What an arrival adds to the counter of the gateway.                      *)
LEMMA ArriveCounts ==
  ASSUME NEW S, Arrive(S), NEW p \in Packets
  PROVE  deliveries'[p][Gateway] = deliveries[p][Gateway] + IF p \in S THEN 1 ELSE 0
BY ParamAssumption DEF ParamAssumption, Arrive, Gateway

(* The counters under an action that leaves writers and counters alone and  *)
(* takes nothing out of the reap queues.                                    *)
LEMMA CountedFrame ==
  ASSUME Counted, UNCHANGED <<wpc, cargo, tries, deliveries, lost>>,
         \A p \in Packets : p \in reapQ[Owner[p]] => p \in reapQ'[Owner[p]]
  PROVE  Counted'
BY DEF Counted, Carried

(* Every step keeps the counters within the attempts made.                  *)
LEMMA NextCounted == IInv /\ Quitting /\ Counted /\ [Next]_vars => Counted'
<1> SUFFICES ASSUME IInv, Quitting, Counted, [Next]_vars PROVE Counted'
  OBVIOUS
<1> USE ParamAssumption DEF ParamAssumption
<1>1. ASSUME NEW a \in Accessors, Call(a) PROVE Counted'
  <2>1. ASSUME NEW S \in SUBSET reapQ[a], Reap(a, S) PROVE Counted'
    <3>1. \A p \in Packets : p \in reapQ[Owner[p]] \ S => p \in reapQ'[Owner[p]]
      BY <2>1 DEF Reap, IInv, TypeOK
    <3>2. \A p \in S : p \in Packets /\ p \in reapQ[Owner[p]] /\ ~Carried(p)
      BY DEF IInv, TypeOK, StaysHome, With, OnePlace, Alone
    <3>3. /\ UNCHANGED <<wpc, cargo, tries, lost>>
          /\ \A p \in Packets : deliveries'[p][Gateway] =
               IF p \in S THEN 0 ELSE deliveries[p][Gateway]
      BY <2>1 DEF Reap, writerVars, Undelivered, Gateway
    <3>4. \A w \in Writers : \A p \in cargo[w] : p \in Packets /\ p \notin S
      BY <3>2 DEF Carried, IInv, TypeOK
    <3> QED BY <3>1, <3>3, <3>4 DEF Counted, Carried
  <2>2. CASE \/ \E S \in SUBSET held[a] : \E dst \in [S -> EndPoints] : Submit(a, S, dst)
             \/ Flush(a) \/ Destroy(a)
    BY <2>2, CountedFrame DEF Submit, Flush, Destroy, packetVars, writerVars
  <2> QED BY <1>1, <2>1, <2>2 DEF Call
<1>2. ASSUME NEW a \in Accessors, CallStep(a) PROVE Counted'
  <2>1. UNCHANGED <<wpc, cargo, tries, deliveries, lost>>
    BY <1>2 DEF CallStep, AddPacket, FlushEndPoint, Bounce, writerVars, packetVars
  <2>2. \A p \in Packets : p \in reapQ[Owner[p]] => p \in reapQ'[Owner[p]]
    <3>1. ASSUME NEW e \in EndPoints, Bounce(a, e)
          PROVE  \A p \in Packets : p \in reapQ[Owner[p]] => p \in reapQ'[Owner[p]]
      BY <3>1 DEF Bounce, IInv, TypeOK
    <3>2. CASE (\E p \in batch[a] : AddPacket(a, p)) \/ \E e \in EndPoints : FlushEndPoint(a, e)
      BY <3>2 DEF AddPacket, FlushEndPoint
    <3> QED BY <1>2, <3>1, <3>2 DEF CallStep
  <2> QED BY <2>1, <2>2, CountedFrame
<1>3. ASSUME NEW w \in Writers, WriterStep(w) PROVE Counted'
  <2>t. /\ cargo \in [Writers -> SUBSET Packets] /\ \A p \in Packets : deliveries[p][Gateway] \in Nat
        /\ wpc \in [Writers -> {"poll", "send", "ok", "failed", "empty", "exit"}]
        /\ tries \in [Writers -> 0 .. RetryCount] /\ RetryCount \in Nat
    BY DEF IInv, TypeOK, Gateway
  <2>1. ASSUME NEW a \in Accessors, Take(w, a) PROVE Counted'
    <3> DEFINE b == Head(submitQ[a])
    <3>1. b \subseteq Packets /\ \A p \in b : InQueue(a, p)
      BY <2>1, TailElements DEF Take, IInv, TypeOK, InQueue
    <3>2. \A p \in b : deliveries[p][Gateway] = 0
      BY <3>1, CarriedAlone DEF IInv, Counted, With, StaysHome, OnePlace, Alone
    <3>3. tries[w] = 0 /\ cargo[w] = {}
      BY <2>1 DEF Take, Counted, Quitting
    <3>4. /\ \A v \in Writers : cargo'[v] = IF v = w THEN b ELSE cargo[v]
          /\ \A v \in Writers : wpc'[v] = IF v = w THEN "send" ELSE wpc[v]
          /\ UNCHANGED <<deliveries, tries, reapQ, lost>>
      BY <2>1, <2>t DEF Take, packetVars
    <3> HIDE DEF b
    <3>5. \A p \in Packets : Carried(p) => Carried(p)'
      BY <3>3, <3>4 DEF Carried
    <3> QED BY <3>2, <3>3, <3>4, <3>5 DEF Counted
  <2>2. CASE TransmitOk(w)
    <3>1. /\ \A v \in Writers : wpc'[v] = IF v = w THEN "ok" ELSE wpc[v]
          /\ \A v \in Writers : tries'[v] = IF v = w THEN 0 ELSE tries[v]
          /\ UNCHANGED <<cargo, reapQ, lost>>
      BY <2>2, <2>t DEF TransmitOk
    <3>3. \A p \in Packets :
            deliveries'[p][Gateway] = deliveries[p][Gateway] + IF p \in cargo[w] THEN 1 ELSE 0
      BY <2>2, ArriveCounts DEF TransmitOk
    <3>2. \A v \in Writers : \A p \in cargo[v] : p \in cargo[w] => v = w
      BY <2>t, CarriedAlone DEF IInv, OnePlace, Alone
    <3> QED BY <2>t, <3>1, <3>2, <3>3 DEF Counted, Carried
  <2>3. CASE TransmitError(w)
    <3>1. /\ UNCHANGED <<cargo, reapQ, lost>>
          /\ wpc[w] = "send"
          /\ \A v \in Writers \ {w} : wpc'[v] = wpc[v] /\ tries'[v] = tries[v]
          /\ \/ wpc'[w] = "failed" /\ tries'[w] = 0
             \/ wpc'[w] = "send" /\ tries'[w] = tries[w] + 1
      BY <2>3, <2>t DEF TransmitError
    <3>2. \A p \in Packets :
            /\ deliveries'[p][Gateway] \in Nat
            /\ p \notin cargo[w] => deliveries'[p][Gateway] = deliveries[p][Gateway]
            /\ p \in cargo[w] => deliveries'[p][Gateway] <= deliveries[p][Gateway] + 1
      BY <2>3, <2>t, ArriveCounts DEF TransmitError
    <3>3. \A v \in Writers : \A p \in cargo[v] : p \in cargo[w] => v = w
      BY <2>t DEF IInv, OnePlace, Alone
    <3> QED BY <2>t, <3>1, <3>2, <3>3 DEF Counted, Carried
  <2>4. ASSUME NEW p \in cargo[w], HandBack(w, p) PROVE Counted'
    <3>1. p \in Packets /\ opaque[p] = Owner[p] /\ wpc[w] \in {"ok", "failed"}
      BY <2>t, <2>4 DEF IInv, StaysHome, HandBack
    <3>2. /\ \A v \in Writers : cargo'[v] = IF v = w THEN cargo[w] \ {p} ELSE cargo[v]
          /\ UNCHANGED <<wpc, tries, deliveries>>
      BY <2>t, <2>4 DEF HandBack
    <3>3. /\ \A r \in Packets : r \in reapQ[Owner[r]] \cup lost => r \in reapQ'[Owner[r]] \cup lost'
          /\ p \in reapQ'[Owner[p]] \cup lost'
      <4>1. CASE UNCHANGED reapQ /\ lost' = lost \cup {p}
        BY <4>1
      <4>2. CASE UNCHANGED lost /\ reapQ' = [reapQ EXCEPT ![Owner[p]] = @ \cup {p}]
        BY <3>1, <4>2 DEF IInv, TypeOK
      <4> QED BY <2>4, <3>1, <4>1, <4>2 DEF HandBack
    <3>4. \A r \in Packets \ {p} : Carried(r) => Carried(r)'
      BY <3>2 DEF Carried
    <3> QED BY <3>1, <3>2, <3>3, <3>4 DEF Counted
  <2>5. CASE BundleDone(w) \/ PollEmpty(w) \/ CheckStop(w)
    <3>1. /\ UNCHANGED <<cargo, tries, deliveries, reapQ, lost>>
          /\ wpc[w] # "send"
          /\ \A v \in Writers : wpc'[v] = wpc[v] \/ (v = w /\ wpc'[v] \in {"poll", "empty", "exit"})
      BY <2>t, <2>5 DEF BundleDone, PollEmpty, CheckStop, packetVars
    <3> QED BY <3>1 DEF Counted, Carried
  <2> QED BY <1>3, <2>1, <2>2, <2>3, <2>4, <2>5 DEF WriterStep
<1>4. CASE BeginShutdown \/ ShutdownStep \/ Ended \/ UNCHANGED vars
  <2>1. UNCHANGED <<wpc, cargo, tries, deliveries, lost, reapQ>>
    BY <1>4 DEF BeginShutdown, ShutdownStep, StopWriter, FinishShutdown, Ended, vars,
                packetVars, writerVars
  <2> QED BY <2>1, CountedFrame
<1> QED BY <1>1, <1>2, <1>3, <1>4 DEF Next
-------------------------------------------------------------------------------
(* The reap queue of an accessor has room for every packet it has not got,  *)
(* when it has room for all packets of the accessor.                        *)
LEMMA ReapHasRoom ==
  ASSUME Roomy, IInv, NEW a \in Accessors, NEW p \in Packets, Owner[p] = a, p \notin reapQ[a]
  PROVE  ReapRoom(a, 1)
<1>1. reapQ[a] \cup {p} \subseteq OwnPackets(a) /\ IsFiniteSet(OwnPackets(a))
  <2>1. OwnPackets(a) \subseteq Packets
    BY DEF OwnPackets
  <2>2. reapQ[a] \cup {p} \subseteq OwnPackets(a)
    BY DEF IInv, TypeOK, StaysHome, With, OwnPackets
  <2> QED BY <2>1, <2>2, ParamAssumption, FS_Subset DEF ParamAssumption
<1>2. /\ IsFiniteSet(reapQ[a])
      /\ Cardinality(reapQ[a] \cup {p}) <= Cardinality(OwnPackets(a))
  BY <1>1, FS_Subset
<1>3. Cardinality(reapQ[a] \cup {p}) = Cardinality(reapQ[a]) + 1 /\ Cardinality(reapQ[a]) \in Nat
  BY <1>2, FS_AddElement, FS_CardinalityType
<1>4. Cardinality(OwnPackets(a)) <= ReapCap /\ Cardinality(OwnPackets(a)) \in Nat
  BY <1>1, FS_CardinalityType DEF Roomy
<1> QED BY <1>2, <1>3, <1>4, ParamAssumption DEF ParamAssumption, ReapRoom

(* No packet is dropped under an action that leaves the writers alone and   *)
(* keeps what an accessor has with that accessor.                           *)
LEMMA PresentFrame ==
  ASSUME Present, UNCHANGED <<cargo, lost>>,
         \A p \in Packets : With(Owner[p], p) => With(Owner[p], p)'
  PROVE  Present'
BY DEF Present, Carried

(* An accessor that deposits a bundle still has its packets.                *)
LEMMA DepositKeeps ==
  ASSUME IInv, NEW a \in Accessors, NEW e \in EndPoints, NEW b \in SUBSET Packets,
         bundles[a][e] \subseteq b, Deposit(a, e, b)
  PROVE  \A c \in Accessors, p \in Packets :
            \/ InBundles(c, p) \/ InQueue(c, p) \/ (c = a /\ p \in b)
               => InBundles(c, p)' \/ InQueue(c, p)'
<1>1. CASE /\ submitQ' = [submitQ EXCEPT ![a] = Append(@, b)]
           /\ Clear(a, e)
  <2>1. /\ submitQ[a] \in Seq(SUBSET Packets) /\ submitQ'[a] = Append(submitQ[a], b)
        /\ \A c \in Accessors \ {a} : submitQ'[c] = submitQ[c]
    BY <1>1 DEF IInv, TypeOK
  <2>2. \A c \in Accessors, f \in EndPoints :
           bundles'[c][f] = IF c = a /\ f = e THEN {} ELSE bundles[c][f]
    BY <1>1 DEF Clear, IInv, TypeOK
  <2>3. \A p \in b : InQueue(a, p)'
    BY <2>1, AppendElements DEF InQueue
  <2>4. \A c \in Accessors, p \in Packets : InQueue(c, p) => InQueue(c, p)'
    BY <2>1, AppendElements DEF InQueue
  <2>5. \A c \in Accessors, p \in Packets : InBundles(c, p) => InBundles(c, p)' \/ (c = a /\ p \in b)
    BY <2>2 DEF InBundles
  <2> QED BY <2>3, <2>4, <2>5
<1>2. CASE /\ bundles' = [bundles EXCEPT ![a][e] = b]
           /\ UNCHANGED submitQ
  <2>1. \A c \in Accessors, f \in EndPoints :
           bundles'[c][f] = IF c = a /\ f = e THEN b ELSE bundles[c][f]
    BY <1>2 DEF IInv, TypeOK
  <2> QED BY <1>2, <2>1 DEF InBundles, InQueue
<1> QED BY <1>1, <1>2 DEF Deposit

(* Adding a packet takes none from its accessor.                            *)
LEMMA AddPacketKeeps ==
  ASSUME IInv, NEW a \in Accessors, NEW p \in batch[a], AddPacket(a, p)
  PROVE  \A r \in Packets : With(Owner[r], r) => With(Owner[r], r)'
<1> DEFINE e == header[p]
           b == bundles[a][e] \cup {p}
<1>1. /\ e \in EndPoints /\ b \in SUBSET Packets /\ p \in Packets
  BY DEF IInv, Addressed, TypeOK
<1>2. /\ UNCHANGED <<held, reapQ>>
      /\ \A c \in Accessors : \A r \in batch[c] : r \in batch'[c] \/ (c = a /\ r = p)
  BY DEF AddPacket, IInv, TypeOK
<1>3. \A c \in Accessors, r \in Packets :
          InBundles(c, r) \/ InQueue(c, r) \/ (c = a /\ r \in b) => InBundles(c, r)' \/ InQueue(c, r)'
  <2>1. CASE Deposit(a, e, b)
    BY <1>1, <2>1, DepositKeeps
  <2>2. CASE bundles' = [bundles EXCEPT ![a][e] = b] /\ UNCHANGED submitQ
    <3>1. \A c \in Accessors, f \in EndPoints :
             bundles'[c][f] = IF c = a /\ f = e THEN b ELSE bundles[c][f]
      BY <1>1, <2>2 DEF IInv, TypeOK
    <3> HIDE DEF e
    <3> QED BY <1>1, <2>2, <3>1 DEF InBundles, InQueue
  <2> QED BY <2>1, <2>2 DEF AddPacket, Target
<1>4. \A r \in Packets : Owner[r] \in Accessors
  BY ParamAssumption DEF ParamAssumption
<1> QED BY <1>2, <1>3, <1>4 DEF With

(* No step drops a packet, when every reap queue has room for the packets   *)
(* of its accessor.                                                         *)
LEMMA NextPresent == Roomy /\ IInv /\ Quitting /\ Present /\ [Next]_vars => Present'
<1> SUFFICES ASSUME Roomy, IInv, Quitting, Present, [Next]_vars PROVE Present'
  OBVIOUS
<1>0. \A p \in Packets : Owner[p] \in Accessors
  BY ParamAssumption DEF ParamAssumption
<1>1. ASSUME NEW a \in Accessors, Call(a) PROVE Present'
  <2>1. ASSUME NEW S \in SUBSET held[a], NEW dst, Submit(a, S, dst) PROVE Present'
    <3>1. /\ UNCHANGED <<bundles, submitQ, reapQ, cargo, lost>>
          /\ \A c \in Accessors : held[c] \cup batch[c] \subseteq held'[c] \cup batch'[c]
      BY <2>1 DEF Submit, Idle, writerVars, IInv, TypeOK
    <3> QED BY <1>0, <3>1, PresentFrame DEF With, InBundles, InQueue
  <2>2. ASSUME NEW S \in SUBSET reapQ[a], Reap(a, S) PROVE Present'
    <3>1. /\ UNCHANGED <<batch, bundles, submitQ, cargo, lost>>
          /\ \A c \in Accessors : held[c] \cup reapQ[c] \subseteq held'[c] \cup reapQ'[c]
      BY <2>2 DEF Reap, writerVars, IInv, TypeOK
    <3> QED BY <1>0, <3>1, PresentFrame DEF With, InBundles, InQueue
  <2>3. CASE Flush(a) \/ Destroy(a)
    <3>1. UNCHANGED <<held, batch, bundles, submitQ, reapQ, cargo, lost>>
      BY <2>3 DEF Flush, Destroy, packetVars, writerVars
    <3> QED BY <3>1, PresentFrame DEF With, InBundles, InQueue
  <2> QED BY <1>1, <2>1, <2>2, <2>3 DEF Call
<1>2. ASSUME NEW a \in Accessors, CallStep(a) PROVE Present'
  <2>0. UNCHANGED <<cargo, lost>>
    BY <1>2 DEF CallStep, AddPacket, FlushEndPoint, Bounce, packetVars, writerVars
  <2>1. ASSUME NEW e \in EndPoints, FlushEndPoint(a, e) PROVE Present'
    <3>1. bundles[a][e] \in SUBSET Packets /\ UNCHANGED <<held, batch, reapQ>>
      BY <2>1 DEF FlushEndPoint, IInv, TypeOK
    <3>2. \A c \in Accessors, r \in Packets :
             InBundles(c, r) \/ InQueue(c, r) => InBundles(c, r)' \/ InQueue(c, r)'
      BY <2>1, <3>1, DepositKeeps DEF FlushEndPoint
    <3> QED BY <1>0, <2>0, <3>1, <3>2, PresentFrame DEF With
  <2>2. ASSUME NEW e \in EndPoints, Bounce(a, e) PROVE Present'
    <3>1. /\ UNCHANGED <<held, batch, submitQ>>
          /\ \A c \in Accessors : reapQ'[c] = IF c = a THEN reapQ[a] \cup bundles[a][e] ELSE reapQ[c]
          /\ \A c \in Accessors, f \in EndPoints :
               bundles'[c][f] = IF c = a /\ f = e THEN {} ELSE bundles[c][f]
      BY <2>2 DEF Bounce, Clear, IInv, TypeOK
    <3> QED BY <1>0, <2>0, <3>1, PresentFrame DEF With, InBundles, InQueue
  <2>3. ASSUME NEW p \in batch[a], AddPacket(a, p) PROVE Present'
    BY <2>0, <2>3, AddPacketKeeps, PresentFrame
  <2> QED BY <1>2, <2>1, <2>2, <2>3 DEF CallStep
<1>3. ASSUME NEW w \in Writers, WriterStep(w) PROVE Present'
  <2>1. ASSUME NEW a \in Accessors, Take(w, a) PROVE Present'
    <3>0. cargo[w] = {}
      BY <2>1 DEF Take, Quitting
    <3>1. /\ submitQ[a] \in Seq(SUBSET Packets) /\ submitQ[a] # <<>>
          /\ submitQ'[a] = Tail(submitQ[a])
          /\ \A c \in Accessors \ {a} : submitQ'[c] = submitQ[c]
          /\ \A v \in Writers : cargo'[v] = IF v = w THEN submitQ[a][1] ELSE cargo[v]
          /\ UNCHANGED <<held, batch, bundles, reapQ, lost>>
      BY <2>1, TailElements DEF Take, IInv, TypeOK, appVars, packetVars
    <3>2. \A p \in Packets : InQueue(a, p) => InQueue(a, p)' \/ Carried(p)'
      <4> SUFFICES ASSUME NEW p \in Packets, NEW i \in 1 .. Len(submitQ[a]), p \in submitQ[a][i]
                   PROVE  InQueue(a, p)' \/ Carried(p)'
        BY DEF InQueue
      <4>1. CASE i = 1
        BY <3>1, <4>1 DEF Carried
      <4>2. CASE i # 1
        <5>1. /\ i - 1 \in 1 .. Len(submitQ'[a])
              /\ submitQ'[a][i - 1] = submitQ[a][i]
          BY <3>1, <4>2, TailElements
        <5> QED BY <5>1 DEF InQueue
      <4> QED BY <4>1, <4>2
    <3>3. \A p \in Packets : Carried(p) => Carried(p)'
      BY <3>0, <3>1 DEF Carried
    <3>4. \A c \in Accessors, p \in Packets : With(c, p) => With(c, p)' \/ Carried(p)'
      BY <3>1, <3>2 DEF With, InBundles, InQueue
    <3> QED BY <1>0, <3>1, <3>3, <3>4 DEF Present
  <2>2. ASSUME NEW p \in cargo[w], HandBack(w, p) PROVE Present'
    <3>1. p \in Packets /\ Carried(p) /\ opaque[p] = Owner[p]
      BY <2>2 DEF IInv, TypeOK, Carried, StaysHome
    <3>2. p \notin reapQ[Owner[p]]
      BY <1>0, <3>1, CarriedAlone DEF With
    <3>3. ReapRoom(Owner[p], 1)
      BY <1>0, <3>1, <3>2, ReapHasRoom
    <3>4. UNCHANGED <<lost, held, batch, bundles, submitQ>>
      BY <2>2, <3>1, <3>3 DEF HandBack, appVars
    <3>5. /\ \A c \in Accessors : reapQ[c] \subseteq reapQ'[c]
          /\ p \in reapQ'[Owner[p]]
      BY <1>0, <2>2, <3>1, <3>3, ZenonT(60) DEF HandBack, IInv, TypeOK
    <3>6. \A r \in Packets \ {p} : Carried(r) => Carried(r)'
      BY <2>2 DEF HandBack, Carried, IInv, TypeOK
    <3> QED BY <1>0, <3>1, <3>4, <3>5, <3>6 DEF Present, With, InBundles, InQueue
  <2>3. CASE \/ TransmitOk(w) \/ TransmitError(w)
             \/ BundleDone(w) \/ PollEmpty(w) \/ CheckStop(w)
    <3>1. UNCHANGED <<held, batch, bundles, submitQ, reapQ, cargo, lost>>
      BY <2>3 DEF TransmitOk, TransmitError, BundleDone, PollEmpty, CheckStop, appVars, packetVars
    <3> QED BY <3>1, PresentFrame DEF With, InBundles, InQueue
  <2> QED BY <1>3, <2>1, <2>2, <2>3 DEF WriterStep
<1>4. CASE BeginShutdown \/ ShutdownStep \/ Ended \/ UNCHANGED vars
  <2>1. UNCHANGED <<held, batch, bundles, submitQ, reapQ, cargo, lost>>
    BY <1>4 DEF BeginShutdown, ShutdownStep, StopWriter, FinishShutdown, Ended, vars,
                appVars, packetVars, writerVars
  <2> QED BY <2>1, PresentFrame DEF With, InBundles, InQueue
<1> QED BY <1>1, <1>2, <1>3, <1>4 DEF Next
-------------------------------------------------------------------------------
(* What the bundles, the writers and the reap queues keep in every state.   *)
PathInv == IInv /\ Bundled /\ Quitting /\ Counted

(* They do so in every reachable state.                                     *)
LEMMA PathInvariance == Spec => []PathInv
BY InitIInv, InitBundled, InitRest, NextIInv, NextBundled, NextQuitting, NextCounted, PTL
   DEF Spec, PathInv

(* A bundle never has more packets than its array, and fewer unless they    *)
(* were refused: the equality test of comms_accessor.cc:52 suffices.        *)
THEOREM BundlesFit == Spec => []NoOverrun
<1>1. PathInv => NoOverrun
  <2> SUFFICES ASSUME PathInv, NEW a \in Accessors, NEW e \in EndPoints
               PROVE  /\ Cardinality(bundles[a][e]) <= BundleSize
                      /\ bouncing[a] # e => Cardinality(bundles[a][e]) < BundleSize
    BY DEF NoOverrun
  <2>1. Cardinality(bundles[a][e]) \in Nat
    BY ParamAssumption, FS_Subset, FS_CardinalityType DEF ParamAssumption, PathInv, IInv, TypeOK
  <2> QED BY <2>1, ParamAssumption DEF ParamAssumption, PathInv, Bundled
<1> QED BY <1>1, PathInvariance, PTL

(* When every reap queue has room for the packets of its accessor, no       *)
(* packet is dropped although the writers ignore a refused try_enqueue      *)
(* (comms_writer.cc:54), and no bundle overruns.                            *)
THEOREM NothingDropped == ASSUME Roomy PROVE Spec => []Kept
<1>1. Present /\ IInv => NothingVanishes
  BY ParamAssumption DEF ParamAssumption, Present, NothingVanishes
<1>2. Init => IInv /\ Quitting /\ Present
  BY InitIInv, InitRest
<1>3. IInv /\ Quitting /\ Present /\ [Next]_vars => (IInv /\ Quitting /\ Present)'
  BY NextIInv, NextQuitting, NextPresent
<1>4. Spec => []NothingVanishes
  BY <1>1, <1>2, <1>3, PTL DEF Spec
<1> QED BY <1>4, BundlesFit, PTL DEF Kept

(* The word shared by address and code is the address while a bundle        *)
(* collects the packet, and a writer never holds a packet whose reap queue  *)
(* is destroyed.                                                            *)
THEOREM HeaderKept == Spec => []HeaderIsValid
<1>1. PathInv => HeaderIsAddress
  BY DEF PathInv, Bundled, HeaderIsAddress
<1>2. PathInv => NoDangling
  <2>1. ASSUME PathInv, NEW w \in Writers, shutdown PROVE cargo[w] = {}
    BY <2>1 DEF PathInv, Quitting, Exited
  <2>2. ASSUME PathInv, NEW w \in Writers, NEW p \in cargo[w] PROVE opaque[p] \in live
    <3>1. opaque[p] \in Accessors
      BY <2>2, ParamAssumption DEF ParamAssumption, PathInv, IInv, TypeOK, StaysHome
    <3> QED BY <2>1, <2>2, <3>1 DEF PathInv, Quitting
  <2> QED BY <2>1, <2>2 DEF NoDangling
<1> QED BY <1>1, <1>2, PathInvariance, PTL DEF HeaderIsValid
-------------------------------------------------------------------------------
(* The packet path implements PacketLedger: every step of the accessors and *)
(* writers is a step of the ledger or leaves it as it is.                   *)

(* The state of a packet in the ledger, by the place where the packet is.   *)
LEMMA StatusCases ==
  ASSUME NEW p \in Packets
  PROVE  /\ p \in held[Owner[p]] => Status[p] = "app"
         /\ p \notin held[Owner[p]] \cup reapQ[Owner[p]] => Status[p] = "pending"
         /\ p \in reapQ[Owner[p]] \ held[Owner[p]] =>
              Status[p] = IF header[p] = SUCCESS THEN "success" ELSE "failure"
BY DEF Status

(* The same after a step.                                                   *)
LEMMA StatusCasesNext ==
  ASSUME NEW p \in Packets
  PROVE  /\ p \in held'[Owner[p]] => Status'[p] = "app"
         /\ p \notin held'[Owner[p]] \cup reapQ'[Owner[p]] => Status'[p] = "pending"
         /\ p \in reapQ'[Owner[p]] \ held'[Owner[p]] =>
              Status'[p] = IF header'[p] = SUCCESS THEN "success" ELSE "failure"
BY DEF Status

(* Two ledgers are the same when they agree on every packet.                *)
LEMMA StatusFrame ==
  ASSUME \A p \in Packets : Status'[p] = Status[p]
  PROVE  Status' = Status
BY DEF Status

(* The packets of a set change their state together.                        *)
LEMMA StatusBecomes ==
  ASSUME NEW S, NEW s, \A p \in Packets : Status'[p] = IF p \in S THEN s ELSE Status[p]
  PROVE  Ledger!Become(S, s)
BY DEF Status, Ledger!Become

(* A packet that changes no hands, and whose header changes only while it   *)
(* is not in the reap queue, is in the ledger what it was.                  *)
LEMMA StatusSame ==
  ASSUME NEW p \in Packets,
         p \in held'[Owner[p]] <=> p \in held[Owner[p]],
         p \in reapQ'[Owner[p]] <=> p \in reapQ[Owner[p]],
         header'[p] = header[p] \/ p \notin reapQ[Owner[p]]
  PROVE  Status'[p] = Status[p]
BY StatusCases, StatusCasesNext

(* A packet with a writer is pending.                                       *)
LEMMA CarriedPending ==
  ASSUME IInv, NEW w \in Writers, NEW p \in cargo[w]
  PROVE  p \in Packets /\ p \notin held[Owner[p]] \cup reapQ[Owner[p]] /\ Status[p] = "pending"
<1>1. p \in Packets /\ Carried(p) /\ Owner[p] \in Accessors
  BY ParamAssumption DEF ParamAssumption, Carried, IInv, TypeOK
<1>2. p \notin held[Owner[p]] \cup reapQ[Owner[p]]
  BY <1>1, CarriedAlone DEF With
<1> QED BY <1>1, <1>2, StatusCases

(* A packet in a bundle is pending.                                         *)
LEMMA BundlePending ==
  ASSUME IInv, NEW a \in Accessors, NEW e \in EndPoints, NEW p \in bundles[a][e]
  PROVE  /\ p \in Packets /\ Owner[p] = a
         /\ p \notin held[a] \cup reapQ[a] /\ Status[p] = "pending"
<1>1. p \in Packets /\ InBundles(a, p) /\ Owner[p] = a
  BY DEF InBundles, IInv, TypeOK, StaysHome, With
<1>2. p \notin held[a] \cup reapQ[a]
  BY <1>1 DEF IInv, OnePlace, Alone
<1> QED BY <1>1, <1>2, StatusCases

(* The ledger starts with all packets at the application.                   *)
LEMMA InitLedger == Init => Ledger!Init
<1> SUFFICES ASSUME Init PROVE Ledger!Init
  OBVIOUS
<1>1. \A p \in Packets : p \in held[Owner[p]]
  BY ParamAssumption DEF ParamAssumption, Init
<1>2. Status = [p \in Packets |-> "app"]
  BY <1>1 DEF Status
<1> QED BY <1>2 DEF Init, Ledger!Init, Ledger!None, Undelivered

(* Submit accepts its packets.                                              *)
LEMMA SubmitLedger ==
  ASSUME IInv, NEW a \in Accessors, NEW S \in SUBSET held[a], NEW dst, Submit(a, S, dst)
  PROVE  S \in SUBSET Packets /\ Ledger!Accept(S)
<1>1. \A p \in S : p \in Packets /\ Owner[p] = a /\ p \in held[a] /\ p \notin reapQ[a]
  BY DEF IInv, TypeOK, StaysHome, With, OnePlace, Alone
<1>2. /\ \A c \in Accessors : held'[c] = IF c = a THEN held[a] \ S ELSE held[c]
      /\ \A p \in Packets \ S : header'[p] = header[p]
      /\ UNCHANGED <<reapQ, deliveries>>
  BY DEF Submit, IInv, TypeOK
<1>3. \A p \in S : Status[p] = "app" /\ Status'[p] = "pending"
  BY <1>1, <1>2, StatusCases, StatusCasesNext
<1>4. \A p \in Packets \ S : Status'[p] = Status[p]
  BY <1>2, StatusSame, ParamAssumption DEF ParamAssumption
<1>5. Ledger!Become(S, "pending")
  BY <1>3, <1>4, StatusBecomes
<1> QED BY <1>1, <1>2, <1>3, <1>5 DEF Ledger!Accept

(* Reap collects its packets.                                               *)
LEMMA ReapLedger ==
  ASSUME IInv, NEW a \in Accessors, NEW S \in SUBSET reapQ[a], Reap(a, S)
  PROVE  S \in SUBSET Packets /\ Ledger!Collect(S)
<1>1. \A p \in S : p \in Packets /\ Owner[p] = a /\ p \in reapQ[a] /\ p \notin held[a]
  BY DEF IInv, TypeOK, StaysHome, With, OnePlace, Alone
<1>2. /\ \A c \in Accessors : held'[c] = IF c = a THEN held[a] \cup S ELSE held[c]
      /\ \A c \in Accessors : reapQ'[c] = IF c = a THEN reapQ[a] \ S ELSE reapQ[c]
      /\ header' = header
      /\ deliveries' = [p \in Packets |-> IF p \in S THEN Undelivered ELSE deliveries[p]]
  BY DEF Reap, IInv, TypeOK
<1>3. \A p \in S : Status[p] \in {"success", "failure"} /\ Status'[p] = "app"
  BY <1>1, <1>2, StatusCases, StatusCasesNext
<1>4. \A p \in Packets \ S : Status'[p] = Status[p]
  BY <1>2, StatusSame, ParamAssumption DEF ParamAssumption
<1>5. Ledger!Become(S, "app")
  BY <1>3, <1>4, StatusBecomes
<1> QED BY <1>1, <1>2, <1>3, <1>5 DEF Ledger!Collect, Ledger!None, Undelivered

(* Refused packets are settled as failures.                                 *)
LEMMA BounceLedger ==
  ASSUME IInv, Bundled, NEW a \in Accessors, NEW e \in EndPoints, Bounce(a, e)
  PROVE  bundles[a][e] \in SUBSET Packets /\ Ledger!Settle(bundles[a][e], "failure")
<1> DEFINE b == bundles[a][e]
<1>1. \A p \in b : /\ p \in Packets /\ Owner[p] = a /\ p \notin held[a]
                    /\ Status[p] = "pending" /\ header[p] = NOT_SCHEDULED
  BY BundlePending DEF Bounce, Bundled
<1>2. /\ \A c \in Accessors : reapQ'[c] = IF c = a THEN reapQ[a] \cup b ELSE reapQ[c]
      /\ UNCHANGED <<held, header, deliveries>>
  BY DEF Bounce, packetVars, IInv, TypeOK
<1>3. \A p \in b : Status'[p] = "failure"
  BY <1>1, <1>2, StatusCasesNext DEF SUCCESS, NOT_SCHEDULED
<1>4. \A p \in Packets \ b : Status'[p] = Status[p]
  BY <1>2, StatusSame, ParamAssumption DEF ParamAssumption
<1>5. Ledger!Become(b, "failure")
  BY <1>3, <1>4, StatusBecomes
<1> QED BY <1>1, <1>2, <1>5 DEF Ledger!Settle

(* A packet handed back is settled by the writer's verdict; one that the    *)
(* reap queue refuses stays pending.                                        *)
LEMMA HandBackLedger ==
  ASSUME IInv, Counted, NEW w \in Writers, NEW p \in cargo[w], HandBack(w, p)
  PROVE  \/ Ledger!Settle({p}, "success") \/ Ledger!Settle({p}, "failure")
         \/ UNCHANGED <<Status, deliveries>>
<1>1. /\ p \in Packets /\ opaque[p] = Owner[p] /\ Owner[p] \in Accessors
      /\ p \notin held[Owner[p]] \cup reapQ[Owner[p]] /\ Status[p] = "pending"
  BY CarriedPending, ParamAssumption DEF ParamAssumption, IInv, StaysHome
<1>2. /\ UNCHANGED <<held, deliveries>>
      /\ \A r \in Packets : header'[r] = IF r = p THEN Verdict(w) ELSE header[r]
  BY DEF HandBack, appVars, IInv, TypeOK
<1>3. CASE UNCHANGED reapQ
  <2>1. \A r \in Packets : Status'[r] = Status[r]
    BY <1>1, <1>2, <1>3, StatusSame
  <2> QED BY <1>2, <2>1, StatusFrame
<1>4. CASE reapQ' = [reapQ EXCEPT ![Owner[p]] = @ \cup {p}]
  <2> DEFINE s == IF Verdict(w) = SUCCESS THEN "success" ELSE "failure"
  <2>1. \A c \in Accessors :
           reapQ'[c] = IF c = Owner[p] THEN reapQ[c] \cup {p} ELSE reapQ[c]
    BY <1>4 DEF IInv, TypeOK
  <2>2. Status'[p] = s
    BY <1>1, <1>2, <2>1, StatusCasesNext
  <2>3. \A r \in Packets \ {p} : Status'[r] = Status[r]
    BY <1>2, <2>1, StatusSame, ParamAssumption DEF ParamAssumption
  <2>4. Ledger!Become({p}, s)
    <3> HIDE DEF s
    <3> QED BY <2>2, <2>3, StatusBecomes
  <2>5. s = "success" => deliveries[p][Gateway] > 0
    BY DEF HandBack, Verdict, SUCCESS, NOT_SCHEDULED, Counted
  <2> QED BY <1>1, <1>2, <2>4, <2>5 DEF Ledger!Settle
<1> QED BY <1>1, <1>3, <1>4 DEF HandBack

(* A transmission delivers the bundle, within the bound of the retries, or  *)
(* nothing.                                                                 *)
LEMMA TransmitLedger ==
  ASSUME IInv, Counted, NEW w \in Writers, TransmitOk(w) \/ TransmitError(w)
  PROVE  /\ cargo[w] \in SUBSET Packets
         /\ Ledger!Arrive(cargo[w]) \/ UNCHANGED <<Status, deliveries>>
<1>1. /\ cargo[w] \in SUBSET Packets /\ UNCHANGED <<held, reapQ, header>>
      /\ wpc[w] = "send"
      /\ Arrive(cargo[w]) \/ UNCHANGED deliveries
  BY DEF TransmitOk, TransmitError, appVars, IInv, TypeOK
<1>2. Status' = Status
  BY <1>1 DEF Status
<1>3. \A p \in cargo[w] : Status[p] = "pending" /\ deliveries[p][Gateway] < RetryCount + 1
  <2>1. tries[w] \in 0 .. RetryCount
    BY DEF IInv, TypeOK
  <2>2. \A p \in cargo[w] : deliveries[p][Gateway] \in Nat
    BY <1>1, ParamAssumption DEF ParamAssumption, Gateway, IInv, TypeOK
  <2>3. \A p \in cargo[w] : deliveries[p][Gateway] <= tries[w]
    BY <1>1 DEF Counted
  <2> QED BY <2>1, <2>2, <2>3, CarriedPending, ParamAssumption DEF ParamAssumption
<1> QED BY <1>1, <1>2, <1>3 DEF Arrive, Ledger!Arrive

(* Depositing a bundle, even a refused one, settles nothing.                *)
LEMMA DepositLedger ==
  ASSUME IInv, NEW a \in Accessors, NEW e \in EndPoints, NEW b,
         \A p \in b : p \in Packets /\ p \notin reapQ[Owner[p]],
         Deposit(a, e, b), UNCHANGED <<held, reapQ, deliveries>>
  PROVE  UNCHANGED <<Status, deliveries>>
<1>1. \A p \in Packets : header'[p] = header[p] \/ p \in b
  BY DEF Deposit
<1>2. \A p \in Packets : Status'[p] = Status[p]
  BY <1>1, StatusSame
<1> QED BY <1>2, StatusFrame

(* Every step is a step of the ledger or leaves it alone.                   *)
LEMMA NextLedger == PathInv /\ [Next]_vars => [Ledger!Next]_<<Status, deliveries>>
<1> SUFFICES ASSUME PathInv, [Next]_vars PROVE Ledger!Next \/ UNCHANGED <<Status, deliveries>>
  OBVIOUS
<1> USE DEF PathInv
<1>1. ASSUME NEW a \in Accessors, Call(a)
      PROVE  Ledger!Next \/ UNCHANGED <<Status, deliveries>>
  <2>1. ASSUME NEW S \in SUBSET held[a], NEW dst, Submit(a, S, dst) PROVE Ledger!Next
    BY <2>1, SubmitLedger DEF Ledger!Next
  <2>2. ASSUME NEW S \in SUBSET reapQ[a], Reap(a, S) PROVE Ledger!Next
    BY <2>2, ReapLedger DEF Ledger!Next
  <2>3. CASE Flush(a) \/ Destroy(a)
    BY <2>3 DEF Flush, Destroy, packetVars, Status
  <2> QED BY <1>1, <2>1, <2>2, <2>3 DEF Call
<1>2. ASSUME NEW a \in Accessors, CallStep(a)
      PROVE  Ledger!Next \/ UNCHANGED <<Status, deliveries>>
  <2>1. ASSUME NEW p \in batch[a], AddPacket(a, p) PROVE UNCHANGED <<Status, deliveries>>
    <3> DEFINE e == header[p]
               b == bundles[a][e] \cup {p}
    <3>1. /\ e \in EndPoints /\ p \in Packets /\ p \notin reapQ[Owner[p]]
          /\ UNCHANGED <<held, reapQ, deliveries>>
      BY <2>1 DEF IInv, Addressed, TypeOK, StaysHome, With, OnePlace, Alone, AddPacket
    <3>2. CASE Deposit(a, e, b)
      <4>1. \A r \in b : r \in Packets /\ r \notin reapQ[Owner[r]]
        BY <3>1, BundlePending
      <4> HIDE DEF b, e
      <4> QED BY <3>1, <3>2, <4>1, DepositLedger
    <3>3. CASE UNCHANGED header
      BY <3>1, <3>3 DEF Status
    <3> QED BY <2>1, <3>2, <3>3 DEF AddPacket, Target
  <2>2. ASSUME NEW e \in EndPoints, FlushEndPoint(a, e) PROVE UNCHANGED <<Status, deliveries>>
    <3>1. \A r \in bundles[a][e] : r \in Packets /\ r \notin reapQ[Owner[r]]
      BY BundlePending
    <3> QED BY <2>2, <3>1, DepositLedger DEF FlushEndPoint
  <2>3. ASSUME NEW e \in EndPoints, Bounce(a, e) PROVE Ledger!Next
    BY <2>3, BounceLedger DEF Ledger!Next
  <2> QED BY <1>2, <2>1, <2>2, <2>3 DEF CallStep
<1>3. ASSUME NEW w \in Writers, WriterStep(w)
      PROVE  Ledger!Next \/ UNCHANGED <<Status, deliveries>>
  <2>1. ASSUME NEW p \in cargo[w], HandBack(w, p)
        PROVE  Ledger!Next \/ UNCHANGED <<Status, deliveries>>
    <3>1. {p} \in SUBSET Packets
      BY CarriedPending
    <3> QED BY <2>1, <3>1, HandBackLedger DEF Ledger!Next
  <2>2. CASE TransmitOk(w) \/ TransmitError(w)
    BY <2>2, TransmitLedger DEF Ledger!Next
  <2>3. CASE \/ \E a \in Accessors : Take(w, a)
             \/ BundleDone(w) \/ PollEmpty(w) \/ CheckStop(w)
    <3>1. UNCHANGED <<held, reapQ, header, deliveries>>
      BY <2>3 DEF Take, BundleDone, PollEmpty, CheckStop, appVars, packetVars
    <3> QED BY <3>1 DEF Status
  <2> QED BY <1>3, <2>1, <2>2, <2>3 DEF WriterStep
<1>4. CASE BeginShutdown \/ ShutdownStep \/ Ended \/ UNCHANGED vars
  <2>1. UNCHANGED <<held, reapQ, header, deliveries>>
    BY <1>4 DEF BeginShutdown, ShutdownStep, StopWriter, FinishShutdown, Ended, vars,
                appVars, packetVars
  <2> QED BY <2>1 DEF Status
<1> QED BY <1>1, <1>2, <1>3, <1>4 DEF Next

(* The whole path, with its bundles, queues and threads, keeps the promise  *)
(* of PacketLedger: a packet is settled once per submission, goes back to   *)
(* the application only when settled, reaches the peer of the first end     *)
(* point at most RetryCount + 1 times before that and no other peer ever,   *)
(* and is reported as sent only if that peer got it: nothing is said of the *)
(* peer it was submitted for.                                               *)
THEOREM ImplementsLedger == Spec => LedgerSpec
BY InitLedger, NextLedger, PathInvariance, PTL DEF Spec, LedgerSpec, Ledger!Spec
===============================================================================
