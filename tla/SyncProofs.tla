------------------------------- MODULE SyncProofs -------------------------------
(***************************************************************************)
(* Safety of etcd/synchronization: its barrier, for every universe, number *)
(* of restarts and combination of faults, and then its lease and watch     *)
(* streams and sync_t::destroy, for any number of watch responses.         *)
(*                                                                         *)
(* The barrier never opens for a state that some process never published.  *)
(* The argument: the log of etcd only grows, so what was once published    *)
(* stays so; every state that a process has cached, the minimum it takes   *)
(* and the global state it publishes are backed by an event of every       *)
(* process they speak of.  The streams share no variable with the barrier; *)
(* their invariant says which operations are outstanding in which state.   *)
(***************************************************************************)
EXTENDS SyncBarrier, SyncStreams, TLAPS


(* Process q published k or more, according to the events l.                *)
Backed(l, q, k) ==
  k = STATE_INVALID \/ \E i \in 1 .. Len(l) : l[i].id = q /\ l[i].val >= k

(* What a scan of process p says of q: nothing of the others, when set_state*)
(* wrote meanwhile.                                                         *)
Vouched(p, q, bad) == bad[p] => q = p

BackedOK ==
  /\ \A p \in Ids : Answer(p) => Backed(log, p, arg[p])
  /\ \A p, q \in Ids : Backed(log, q, state[p][q])
  /\ \A p, q \in Ids : watch[p] = "scan" /\ q < scan[p] /\ Vouched(p, q, overtaken) =>
       Backed(log, q, state[p][best[p]])
  /\ \A p, q \in Ids : Vouched(p, q, overtaken) => Backed(log, q, low[p])
  /\ \A p, q \in Ids : Vouched(p, q, doubtful) => Backed(log, q, global[p])

(* A waiter waits for a real state.                                         *)
WantOK == \A p \in Ids : main[p] \in {"wait", "sleep"} => want[p] \in States

IInv == TypeOK /\ BackedOK /\ WantOK

(* What the processes hold against what etcd holds.  No event of l is about *)
(* q after revision n; m is the smallest value of the keys k.               *)
Silent(l, q, n) == \A i \in n + 1 .. Len(l) : l[i].id # q
IsMin(k, m) == (\A q \in Ids : m <= k[q].val) /\ \E q \in Ids : m = k[q].val

(* A key has the value of the last event about it.                          *)
LogInv ==
  /\ \A q \in Ids : Silent(log, q, 0) => keys[q].val = STATE_INVALID
  /\ \A q \in Ids : \A i \in 1 .. Len(log) :
       log[i].id = q /\ Silent(log, q, i) => keys[q].val = log[i].val
  /\ \A l \in leases : l[2] <= inc[l[1]]
  /\ \A i \in 1 .. Len(log) : inc[log[i].id] # 0

(* A process that is down has nothing.                                      *)
DownInv ==
  \A p \in Ids : main[p] = "down" =>
     /\ state[p] = NoStates /\ pos[p] = 0 /\ ~broken[p] /\ watch[p] = "read"
     /\ global[p] = STATE_INVALID /\ ~ok[p]

(* A Put that is applied stays so while the lease lives.                    *)
AnswerInv ==
  \A p \in Ids : Answer(p) /\ HasLease(p) => keys[p].val = arg[p] /\ keys[p].lease = inc[p]

(* The cache is right about every key all of whose events are handled; of   *)
(* the process's own key, which its other thread writes, while its lease    *)
(* lives.                                                                   *)
CacheInv ==
  Watched = Ids =>
    \A p, q \in Ids :
      ~broken[p] /\ Silent(log, q, pos[p]) /\ (q = p => HasLease(p)) => state[p][q] = keys[q].val

(* So is the minimum when all events are handled.                           *)
GlobalInv ==
  Watched = Ids =>
    \A p \in Ids : ~broken[p] /\ pos[p] = Len(log) /\ HasLease(p) =>
      /\ watch[p] = "scan" => \A q \in Ids : q < scan[p] => keys[best[p]].val <= keys[q].val
      /\ watch[p] = "publish" => IsMin(keys, low[p])
      /\ watch[p] = "read" /\ main[p] # "down" => IsMin(keys, global[p])

(* In its first life a process publishes more and more, and what it caches  *)
(* of itself was published.                                                 *)
MonoInv ==
  AppRule = "increasing" =>
    \A p \in Ids : inc[p] = 1 /\ HasLease(p) /\ main[p] # "down" =>
      /\ \A i \in 1 .. Len(log) : log[i].id = p => log[i].val <= keys[p].val
      /\ state[p][p] <= keys[p].val /\ keys[p].val <= arg[p]
      /\ ok[p] => keys[p].val >= arg[p]

ExactInv == LogInv /\ DownInv /\ AnswerInv /\ CacheInv /\ GlobalInv /\ MonoInv
-------------------------------------------------------------------------------
(* A minimal state is a lower bound of what every process has published.    *)
LEMMA LowerBound ==
  ASSUME NEW q \in Ids, NEW k \in Values, NEW m \in Values,
         TypeOK, Backed(log, q, k), m <= k
  PROVE  Backed(log, q, m)
<1>1. CASE k = STATE_INVALID
  BY <1>1 DEF Backed, Values, States, STATE_INVALID
<1>2. CASE k # STATE_INVALID
  <2>1. PICK i \in 1 .. Len(log) : log[i].id = q /\ log[i].val >= k
    BY <1>2 DEF Backed
  <2>2. log[i] \in Events
    BY <2>1 DEF TypeOK
  <2>3. log[i].val >= m
    BY <2>1, <2>2 DEF Events, Values, States, STATE_INVALID
  <2> QED BY <2>1, <2>3 DEF Backed
<1> QED BY <1>1, <1>2

(* An event appended to the log of etcd leaves the others in place.         *)
LEMMA LogGrows ==
  ASSUME TypeOK, NEW e \in Events, log' = Append(log, e)
  PROVE  /\ log' \in Seq(Events)
         /\ Len(log') = Len(log) + 1
         /\ log'[Len(log) + 1] = e
         /\ \A i \in 1 .. Len(log) : log'[i] = log[i]
  BY DEF TypeOK

(* What is backed stays backed when the log grows.                          *)
LEMMA StaysBacked ==
  ASSUME TypeOK, NEW e \in Events, log' = Append(log, e),
         NEW q, NEW k, Backed(log, q, k)
  PROVE  Backed(log', q, k)
<1>1. /\ Len(log') = Len(log) + 1
      /\ \A i \in 1 .. Len(log) : log'[i] = log[i]
  BY LogGrows
<1>2. Len(log) \in Nat
  BY DEF TypeOK
<1>3. CASE k # STATE_INVALID
  <2>1. PICK i \in 1 .. Len(log) : log[i].id = q /\ log[i].val >= k
    BY <1>3 DEF Backed
  <2>2. i \in 1 .. Len(log') /\ log'[i] = log[i]
    BY <1>1, <1>2, <2>1
  <2> QED BY <2>1, <2>2 DEF Backed
<1> QED BY <1>3 DEF Backed

(* The cursors into the log stay in range when it grows.                    *)
LEMMA CursorsInRange ==
  ASSUME TypeOK, Len(log') \in Nat, Len(log') >= Len(log), UNCHANGED <<pos, resp>>
  PROVE  /\ pos' \in [Ids -> 0 .. Len(log')]
         /\ resp' \in [Ids -> [from : 0 .. Len(log'), to : 0 .. Len(log')]]
<1>1. 0 .. Len(log) \subseteq 0 .. Len(log')
  BY DEF TypeOK
<1> QED BY <1>1 DEF TypeOK

(* The two named states are values of a key.                                *)
LEMMA SmallValues == STATE_INVALID \in Values /\ STATE_INITIALIZED \in Values
  BY SyncAssumption DEF SyncAssumption, Values, States, STATE_INVALID, STATE_INITIALIZED

(* An invalid state claims nothing.                                         *)
LEMMA InvalidBacked == \A l, q : Backed(l, q, STATE_INVALID)
  BY DEF Backed

(* The invariant holds at the start.                                        *)
LEMMA InitIInv == Init => IInv
<1> SUFFICES ASSUME Init PROVE IInv
  OBVIOUS
<1> USE SyncAssumption DEF Init
<1>1. TypeOK
  <2>1. 0 \in Ids /\ 0 \in 0 .. Size
    BY DEF SyncAssumption, Ids
  <2>2. STATE_INVALID \in Values
    BY SmallValues
  <2> QED BY <2>1, <2>2 DEF TypeOK, SyncAssumption, NoStates, NoEvents
<1>2. BackedOK
  BY DEF BackedOK, Backed, Answer, NoStates
<1>3. WantOK
  BY DEF WantOK
<1> QED BY <1>1, <1>2, <1>3 DEF IInv
-------------------------------------------------------------------------------
(* Steps of the application thread, the process and etcd.                   *)

(* Start preserves the invariant.                                           *)
LEMMA StartStep ==
  ASSUME IInv, NEW p \in Ids, Start(p)
  PROVE  IInv'
<1> USE DEF IInv, Start, envVars, watchVars, scanVars
<1>1. inc[p] + 1 \in 1 .. MaxInc
  BY SyncAssumption DEF TypeOK, SyncAssumption
<1>2. TypeOK'
  <2>1. <<p, inc[p] + 1>> \in Ids \X (1 .. MaxInc)
    BY <1>1
  <2>2. inc' \in [Ids -> 0 .. MaxInc]
    BY <1>1 DEF TypeOK
  <2>3. leases' \in SUBSET (Ids \X (1 .. MaxInc))
    BY <2>1 DEF TypeOK
  <2> QED BY <2>2, <2>3, SmallValues DEF TypeOK
<1>3. BackedOK'
  BY DEF BackedOK, Answer, TypeOK
<1>4. WantOK'
  BY DEF WantOK, TypeOK
<1> QED BY <1>2, <1>3, <1>4

(* SetState preserves the invariant.                                        *)
LEMMA SetStateStep ==
  ASSUME IInv, NEW p \in Ids, NEW v \in States, SetState(p, v)
  PROVE  IInv'
<1> USE DEF IInv, SetState, envVars, watchVars, scanVars
<1>1. TypeOK'
  <2>1. arg' \in [Ids -> Values]
    BY DEF TypeOK, Values
  <2>2. ok' \in [Ids -> BOOLEAN]
    BY ZenonT(60) DEF TypeOK
  <2>3. main' \in [Ids -> {"down", "start", "started", "idle", "put", "done",
                              "wait", "sleep"}]
    <3>1. CASE main' = main
      BY <3>1 DEF TypeOK
    <3>2. CASE main' = [main EXCEPT ![p] = "put"]
      BY <3>2 DEF TypeOK
    <3> QED BY <3>1, <3>2
  <2>4. UNCHANGED <<envVars, inc, want, state, watchVars>>
    OBVIOUS
  <2> QED BY <2>1, <2>2, <2>3, <2>4 DEF TypeOK
<1>2. BackedOK'
  BY DEF BackedOK, Answer, TypeOK
<1>3. WantOK'
  BY DEF WantOK, TypeOK
<1> QED BY <1>1, <1>2, <1>3

(* PutApplied preserves the invariant.                                      *)
LEMMA PutAppliedStep ==
  ASSUME IInv, NEW p \in Ids, PutApplied(p)
  PROVE  IInv'
<1> DEFINE e == [id |-> p, inc |-> inc[p], val |-> arg[p]]
<1> USE DEF IInv, PutApplied, watchVars, scanVars
<1>1. inc[p] \in 1 .. MaxInc
  BY DEF TypeOK, HasLease
<1>2. e \in Events
  BY <1>1 DEF TypeOK, Events
<1>3. /\ log' \in Seq(Events)
      /\ Len(log') = Len(log) + 1
      /\ log'[Len(log) + 1] = e
  BY <1>2, LogGrows
<1>4. TypeOK'
  <2>1. keys' \in [Ids -> [val : Values, lease : 0 .. MaxInc]]
    BY <1>1 DEF TypeOK
  <2>2. Len(log') \in Nat /\ Len(log') >= Len(log)
    BY <1>3 DEF TypeOK
  <2>3. /\ pos' \in [Ids -> 0 .. Len(log')]
        /\ resp' \in [Ids -> [from : 0 .. Len(log'), to : 0 .. Len(log')]]
    BY <2>2, CursorsInRange
  <2> QED BY <1>3, <2>1, <2>3 DEF TypeOK
<1>5. BackedOK'
  <2>1. Backed(log', p, arg[p])
    <3>1. arg[p] \in Int /\ Len(log) \in Nat
      BY DEF TypeOK, Values, States, STATE_INVALID
    <3> QED BY <1>3, <3>1 DEF Backed
  <2>2. ASSUME NEW q \in Ids, NEW k, Backed(log, q, k)
        PROVE  Backed(log', q, k)
    BY <1>2, <2>2, StaysBacked
  <2>3. \A q \in Ids : Answer(q)' => Backed(log', q, arg'[q])
    BY <2>1, <2>2 DEF BackedOK, Answer, TypeOK
  <2>4. \A q, r \in Ids : Backed(log', r, state'[q][r])
    BY <2>2 DEF BackedOK
  <2>5. \A q, r \in Ids :
          /\ Vouched(q, r, overtaken') => Backed(log', r, low'[q])
          /\ Vouched(q, r, doubtful') => Backed(log', r, global'[q])
    BY <2>2 DEF BackedOK, scanVars
  <2>6. \A q, r \in Ids : watch'[q] = "scan" /\ r < scan'[q] /\ Vouched(q, r, overtaken') =>
          Backed(log', r, state'[q][best'[q]])
    BY <2>2 DEF BackedOK, scanVars
  <2> QED BY <2>3, <2>4, <2>5, <2>6 DEF BackedOK
<1>6. WantOK'
  BY DEF WantOK, TypeOK
<1> QED BY <1>4, <1>5, <1>6

(* PutReturns preserves the invariant.                                      *)
LEMMA PutReturnsStep ==
  ASSUME IInv, NEW p \in Ids, PutReturns(p)
  PROVE  IInv'
<1> USE DEF IInv, PutReturns, envVars, watchVars, scanVars
<1>1. TypeOK'
  BY DEF TypeOK
<1>2. BackedOK'
  <2>1. \A q, r \in Ids :
          state'[q][r] = IF q = p /\ r = p THEN arg[p] ELSE state[q][r]
    BY DEF TypeOK
  <2>2. Backed(log, p, arg[p])
    BY DEF BackedOK
  <2>3. \A q, r \in Ids : Backed(log', r, state'[q][r])
    BY <2>1, <2>2 DEF BackedOK
  <2>4. /\ overtaken'[p] = (overtaken[p] \/ watch[p] = "scan")
        /\ \A q \in Ids \ {p} : overtaken'[q] = overtaken[q]
    BY DEF TypeOK
  <2>5. \A q, r \in Ids : Vouched(q, r, overtaken') => Vouched(q, r, overtaken)
    BY <2>4 DEF Vouched
  <2>6. \A q \in Ids : best[q] \in Ids
    BY DEF TypeOK
  <2>7. \A q, r \in Ids : watch'[q] = "scan" /\ r < scan'[q] /\ Vouched(q, r, overtaken') =>
          Backed(log', r, state'[q][best'[q]])
    <3> SUFFICES ASSUME NEW q \in Ids, NEW r \in Ids,
                        watch[q] = "scan", r < scan[q], Vouched(q, r, overtaken')
                 PROVE  Backed(log, r, state'[q][best[q]])
      OBVIOUS
    <3>1. Backed(log, r, state[q][best[q]])
      BY <2>5 DEF BackedOK
    <3>2. CASE q = p /\ best[q] = p
      <4>1. r = p
        BY <2>4, <3>2 DEF Vouched
      <4> QED BY <2>1, <2>2, <3>2, <4>1
    <3>3. CASE ~(q = p /\ best[q] = p)
      BY <2>1, <2>6, <3>1, <3>3
    <3> QED BY <3>2, <3>3
  <2> QED BY <2>3, <2>5, <2>7 DEF BackedOK, Answer, TypeOK
<1>3. WantOK'
  BY DEF WantOK, TypeOK
<1> QED BY <1>1, <1>2, <1>3

(* A process that is gone has nothing cached.                               *)
LEMMA ResetStep ==
  ASSUME IInv, NEW p \in Ids, Reset(p), UNCHANGED <<envVars, inc>>
  PROVE  IInv'
<1> USE DEF IInv, Reset, envVars, scanVars
<1>1. TypeOK'
  <2>1. NoEvents \in [from : 0 .. Len(log), to : 0 .. Len(log)]
    BY DEF NoEvents, TypeOK
  <2>2. NoStates \in [Ids -> Values] /\ STATE_INVALID \in Values
    BY DEF NoStates, Values
  <2>3. 0 \in 0 .. Len(log)
    BY DEF TypeOK
  <2>4. 0 \in Ids /\ 0 \in 0 .. Size
    BY SyncAssumption DEF SyncAssumption, Ids
  <2> QED BY <2>1, <2>2, <2>3, <2>4 DEF TypeOK
<1>2. BackedOK'
  <2>1. \A q, r \in Ids : state'[q][r] = IF q = p THEN STATE_INVALID ELSE state[q][r]
    BY DEF TypeOK, NoStates
  <2>2. \A q, r \in Ids : Backed(log', r, state'[q][r])
    BY <2>1, InvalidBacked DEF BackedOK
  <2>3. \A q \in Ids \ {p} :
          /\ low'[q] = low[q] /\ global'[q] = global[q] /\ watch'[q] = watch[q]
          /\ scan'[q] = scan[q] /\ best'[q] = best[q] /\ arg'[q] = arg[q] /\ main'[q] = main[q]
          /\ overtaken'[q] = overtaken[q] /\ doubtful'[q] = doubtful[q] /\ state'[q] = state[q]
    BY DEF TypeOK
  <2>4. /\ low'[p] = STATE_INVALID /\ global'[p] = STATE_INVALID
        /\ watch'[p] = "read" /\ main'[p] = "down"
    BY DEF TypeOK
  <2>5. \A q, r \in Ids : Vouched(q, r, overtaken') => Backed(log', r, low'[q])
    BY <2>3, <2>4, InvalidBacked DEF BackedOK, Vouched
  <2>6. \A q, r \in Ids : Vouched(q, r, doubtful') => Backed(log', r, global'[q])
    BY <2>3, <2>4, InvalidBacked DEF BackedOK, Vouched
  <2>7. \A q, r \in Ids : watch'[q] = "scan" /\ r < scan'[q] /\ Vouched(q, r, overtaken') =>
          Backed(log', r, state'[q][best'[q]])
    BY <2>3, <2>4 DEF BackedOK, Vouched
  <2>8. \A q \in Ids : Answer(q)' => Backed(log', q, arg'[q])
    BY <2>3, <2>4 DEF BackedOK, Answer
  <2> QED BY <2>2, <2>5, <2>6, <2>7, <2>8 DEF BackedOK
<1>3. WantOK'
  BY DEF WantOK, TypeOK
<1> QED BY <1>1, <1>2, <1>3

(* PutFails preserves the invariant.                                        *)
LEMMA PutFailsStep ==
  ASSUME IInv, NEW p \in Ids, PutFails(p)
  PROVE  IInv'
<1>1. CASE Reset(p)
  BY <1>1, ResetStep DEF PutFails
<1>2. CASE ~Reset(p)
  <2> USE <1>2 DEF IInv, PutFails, envVars, watchVars, scanVars
  <2>1. TypeOK'
    <3>1. main' \in [Ids -> {"down", "start", "started", "idle", "put", "done",
                             "wait", "sleep"}]
      BY DEF TypeOK
    <3> QED BY <3>1 DEF TypeOK
  <2>2. BackedOK'
    BY DEF BackedOK, Answer, TypeOK
  <2>3. WantOK'
    BY DEF WantOK, TypeOK
  <2> QED BY <2>1, <2>2, <2>3
<1> QED BY <1>1, <1>2

(* Stop preserves the invariant.                                            *)
LEMMA StopStep ==
  ASSUME IInv, NEW p \in Ids, Stop(p)
  PROVE  IInv'
  BY ResetStep DEF Stop

(* Wait preserves the invariant.                                            *)
LEMMA WaitStep ==
  ASSUME IInv, NEW p \in Ids, NEW k \in States, Wait(p, k)
  PROVE  IInv'
<1> USE DEF IInv, Wait, envVars, watchVars, scanVars
<1>1. TypeOK'
  BY DEF TypeOK, Values
<1>2. BackedOK'
  BY DEF BackedOK, Answer, TypeOK
<1>3. WantOK'
  BY DEF WantOK, TypeOK
<1> QED BY <1>1, <1>2, <1>3

(* CheckGlobal preserves the invariant.                                     *)
LEMMA CheckGlobalStep ==
  ASSUME IInv, NEW p \in Ids, CheckGlobal(p)
  PROVE  IInv'
<1> USE DEF IInv, CheckGlobal, envVars, watchVars, scanVars
<1>1. TypeOK'
  <2>1. want' \in [Ids -> Values]
    BY SmallValues DEF TypeOK
  <2>2. main' \in [Ids -> {"down", "start", "started", "idle", "put", "done",
                              "wait", "sleep"}]
    BY DEF TypeOK
  <2> QED BY <2>1, <2>2 DEF TypeOK
<1>2. BackedOK'
  BY DEF BackedOK, Answer, TypeOK
<1>3. WantOK'
  BY DEF WantOK, TypeOK
<1> QED BY <1>1, <1>2, <1>3

(* Expire preserves the invariant.                                          *)
LEMMA ExpireStep ==
  ASSUME IInv, NEW l \in leases, Expire(l[1], l[2])
  PROVE  IInv'
<1> DEFINE e == [id |-> l[1], inc |-> l[2], val |-> STATE_INVALID]
<1> USE DEF IInv, Expire, mainVars, watchVars, scanVars
<1>1. l[1] \in Ids /\ l[2] \in 1 .. MaxInc
  BY DEF TypeOK
<1>2. e \in Events
  BY <1>1 DEF Events, Values
<1>3. UNCHANGED log \/ log' = Append(log, e)
  OBVIOUS
<1>4. Len(log') >= Len(log) /\ log' \in Seq(Events)
  <2>1. CASE UNCHANGED log
    BY <2>1 DEF TypeOK
  <2>2. CASE log' = Append(log, e)
    <3>1. log' \in Seq(Events) /\ Len(log') = Len(log) + 1
      BY <1>2, <2>2, LogGrows
    <3> QED BY <3>1 DEF TypeOK
  <2> QED BY <1>3, <2>1, <2>2
<1>5. TypeOK'
  <2>1. keys' \in [Ids -> [val : Values, lease : 0 .. MaxInc]]
    <3>1. [val |-> STATE_INVALID, lease |-> 0] \in [val : Values, lease : 0 .. MaxInc]
      BY SmallValues, SyncAssumption DEF SyncAssumption
    <3> QED BY <1>1, <3>1, ZenonT(60) DEF TypeOK
  <2>2. Len(log') \in Nat
    BY <1>4
  <2>3. /\ pos' \in [Ids -> 0 .. Len(log')]
        /\ resp' \in [Ids -> [from : 0 .. Len(log'), to : 0 .. Len(log')]]
    BY <1>4, <2>2, CursorsInRange
  <2> QED BY <1>4, <2>1, <2>3 DEF TypeOK
<1>6. BackedOK'
  <2>1. ASSUME NEW q \in Ids, NEW k, Backed(log, q, k)
        PROVE  Backed(log', q, k)
    BY <1>2, <1>3, <2>1, StaysBacked
  <2>2. \A q \in Ids : Answer(q)' => Backed(log', q, arg'[q])
    BY <2>1 DEF BackedOK, Answer
  <2>3. \A q, r \in Ids : Backed(log', r, state'[q][r])
    BY <2>1 DEF BackedOK
  <2>4. \A q, r \in Ids :
          /\ Vouched(q, r, overtaken') => Backed(log', r, low'[q])
          /\ Vouched(q, r, doubtful') => Backed(log', r, global'[q])
    BY <2>1 DEF BackedOK, scanVars
  <2>5. \A q, r \in Ids : watch'[q] = "scan" /\ r < scan'[q] /\ Vouched(q, r, overtaken') =>
          Backed(log', r, state'[q][best'[q]])
    BY <2>1 DEF BackedOK, scanVars
  <2> QED BY <2>2, <2>3, <2>4, <2>5 DEF BackedOK
<1>7. WantOK'
  BY DEF WantOK
<1> QED BY <1>5, <1>6, <1>7
-------------------------------------------------------------------------------
(* Steps of the completion queue thread.                                    *)

(* Receive preserves the invariant.                                         *)
LEMMA ReceiveStep ==
  ASSUME IInv, NEW p \in Ids, NEW n \in 1 .. Len(log), Receive(p, n)
  PROVE  IInv'
<1> USE DEF IInv, Receive, envVars, mainVars, scanVars
<1>1. TypeOK'
  <2>1. pos[p] \in 0 .. Len(log) /\ 0 \in 0 .. Len(log) /\ n \in 0 .. Len(log)
    BY DEF TypeOK
  <2>2. resp' \in [Ids -> [from : 0 .. Len(log), to : 0 .. Len(log)]]
    BY <2>1 DEF TypeOK
  <2> QED BY <2>2 DEF TypeOK
<1>2. BackedOK' /\ WantOK'
  BY DEF BackedOK, Answer, WantOK
<1> QED BY <1>1, <1>2

(* Break preserves the invariant.                                           *)
LEMMA BreakStep ==
  ASSUME IInv, NEW p \in Ids, Break(p)
  PROVE  IInv'
<1> USE DEF IInv, Break, envVars, mainVars, scanVars
<1>1. TypeOK'
  BY DEF TypeOK
<1>2. BackedOK' /\ WantOK'
  BY DEF BackedOK, Answer, WantOK
<1> QED BY <1>1, <1>2

(* HandleAgain preserves the invariant.                                     *)
LEMMA HandleAgainStep ==
  ASSUME IInv, NEW p \in Ids, HandleAgain(p)
  PROVE  IInv'
<1> USE DEF IInv, HandleAgain, envVars, mainVars, scanVars
<1>1. TypeOK'
  BY DEF TypeOK
<1>2. BackedOK' /\ WantOK'
  BY DEF BackedOK, Answer, WantOK
<1> QED BY <1>1, <1>2

(* HandleEvent preserves the invariant.                                     *)
LEMMA HandleEventStep ==
  ASSUME IInv, NEW p \in Ids, HandleEvent(p)
  PROVE  IInv'
<1> DEFINE i == pos[p] + 1
           e == log[i]
<1> USE DEF IInv, HandleEvent, envVars, mainVars, scanVars
<1>1. i \in 1 .. Len(log)
  BY DEF TypeOK
<1>2. e \in Events
  BY <1>1 DEF TypeOK
<1>3. NewState(p, e) \in Values
  <2>1. e.id \in Ids /\ e.val \in Values
    BY <1>2 DEF Events
  <2>2. state[p][e.id] \in Values
    BY <2>1 DEF TypeOK
  <2> QED BY <2>1, <2>2 DEF NewState
<1>4. TypeOK'
  <2>1. state' \in [Ids -> [Ids -> Values]]
    BY <1>2, <1>3 DEF TypeOK, Events
  <2>2. pos' \in [Ids -> 0 .. Len(log')]
    BY <1>1 DEF TypeOK, Advance
  <2> QED BY <2>1, <2>2 DEF TypeOK
<1>5. BackedOK'
  <2>1. \A q, r \in Ids :
          state'[q][r] = IF q = p /\ r = e.id THEN NewState(p, e) ELSE state[q][r]
    BY <1>2 DEF TypeOK, Events
  <2>2. Backed(log, e.id, e.val)
    BY <1>1, <1>2 DEF Backed, Events, Values, States, STATE_INVALID
  <2>3. Backed(log, e.id, NewState(p, e))
    BY <1>2, <2>2 DEF NewState, BackedOK, Events
  <2>4. \A q, r \in Ids : Backed(log', r, state'[q][r])
    BY <2>1, <2>3 DEF BackedOK
  <2>5. \A q \in Ids : watch[q] = "scan" => state'[q] = state[q]
    BY DEF TypeOK
  <2> QED BY <2>4, <2>5 DEF BackedOK, Answer, scanVars
<1>6. WantOK'
  BY DEF WantOK
<1> QED BY <1>4, <1>5, <1>6

(* BeginScan preserves the invariant.                                       *)
LEMMA BeginScanStep ==
  ASSUME IInv, NEW p \in Ids, BeginScan(p)
  PROVE  IInv'
<1> USE DEF IInv, BeginScan, envVars, mainVars, scanVars
<1>1. 0 \in Ids /\ 1 \in 0 .. Size /\ \A r \in Ids : r < 1 => r = 0
  BY SyncAssumption DEF SyncAssumption, Ids
<1>2. TypeOK'
  BY <1>1 DEF TypeOK
<1>3. BackedOK'
  <2>1. \A q, r \in Ids : watch'[q] = "scan" /\ r < scan'[q] /\ Vouched(q, r, overtaken') =>
          Backed(log', r, state'[q][best'[q]])
    <3> SUFFICES ASSUME NEW q \in Ids, NEW r \in Ids,
                        watch'[q] = "scan", r < scan'[q], Vouched(q, r, overtaken)
                 PROVE  Backed(log, r, state[q][best'[q]])
      OBVIOUS
    <3>1. CASE q = p
      <4>1. scan'[q] = 1 /\ best'[q] = 0
        BY <3>1 DEF TypeOK
      <4> QED BY <1>1, <4>1 DEF BackedOK
    <3>2. CASE q # p
      BY <3>2 DEF BackedOK, TypeOK
    <3> QED BY <3>1, <3>2
  <2> QED BY <2>1 DEF BackedOK, Answer
<1>4. WantOK'
  BY DEF WantOK
<1> QED BY <1>2, <1>3, <1>4

(* CompareEntry preserves the invariant: the entry kept is not above those  *)
(* compared so far, nor is anything it is compared with more than published.*)
LEMMA CompareEntryStep ==
  ASSUME IInv, NEW p \in Ids, CompareEntry(p)
  PROVE  IInv'
<1> USE DEF IInv, CompareEntry, envVars, mainVars, scanVars
<1>1. /\ scan[p] \in Ids /\ scan[p] + 1 \in 0 .. Size /\ best[p] \in Ids /\ Smaller(p) \in Ids
      /\ \A r \in Ids : r < scan[p] + 1 => r < scan[p] \/ r = scan[p]
  <2>1. scan[p] \in 0 .. Size /\ scan[p] < Size /\ best[p] \in Ids
    BY DEF TypeOK
  <2>2. scan[p] \in Ids /\ scan[p] + 1 \in 0 .. Size
    BY <2>1, SyncAssumption DEF SyncAssumption, Ids
  <2>3. Smaller(p) \in Ids
    BY <2>1, <2>2 DEF Smaller
  <2>4. \A r \in Ids : r < scan[p] + 1 => r < scan[p] \/ r = scan[p]
    BY <2>1 DEF Ids
  <2> QED BY <2>1, <2>2, <2>3, <2>4
<1>2. TypeOK'
  BY <1>1 DEF TypeOK
<1>3. /\ scan'[p] = scan[p] + 1 /\ best'[p] = Smaller(p)
      /\ \A q \in Ids \ {p} : scan'[q] = scan[q] /\ best'[q] = best[q]
  BY DEF TypeOK
<1>4. \A r \in Ids : state[p][r] \in Values
  BY DEF TypeOK
<1>5. state[p][Smaller(p)] <= state[p][scan[p]] /\ state[p][Smaller(p)] <= state[p][best[p]]
  BY <1>1, <1>4 DEF Smaller, Values, States, STATE_INVALID
<1>6. ASSUME NEW r \in Ids, r < scan[p] + 1, Vouched(p, r, overtaken)
      PROVE  Backed(log, r, state[p][Smaller(p)])
  <2>1. CASE r = scan[p]
    <3>1. Backed(log, r, state[p][r])
      BY DEF BackedOK
    <3> QED BY <1>1, <1>4, <1>5, <2>1, <3>1, LowerBound
  <2>2. CASE r < scan[p]
    <3>1. Backed(log, r, state[p][best[p]])
      BY <1>6, <2>2 DEF BackedOK
    <3> QED BY <1>1, <1>4, <1>5, <3>1, LowerBound
  <2> QED BY <1>1, <1>6, <2>1, <2>2
<1>7. BackedOK'
  <2>1. \A q, r \in Ids : watch'[q] = "scan" /\ r < scan'[q] /\ Vouched(q, r, overtaken') =>
          Backed(log', r, state'[q][best'[q]])
    BY <1>3, <1>6 DEF BackedOK
  <2> QED BY <2>1 DEF BackedOK, Answer
<1>8. WantOK'
  BY DEF WantOK
<1> QED BY <1>2, <1>7, <1>8

(* TakeMin preserves the invariant.                                         *)
LEMMA TakeMinStep ==
  ASSUME IInv, NEW p \in Ids, TakeMin(p)
  PROVE  IInv'
<1> USE DEF IInv, TakeMin, envVars, mainVars, scanVars
<1>1. 0 \in Ids /\ 0 \in 0 .. Size /\ \A r \in Ids : r < Size
  BY SyncAssumption DEF SyncAssumption, Ids
<1>2. state[p][best[p]] \in Values
  BY DEF TypeOK
<1>3. TypeOK'
  BY <1>1, <1>2 DEF TypeOK
<1>4. \A r \in Ids : Vouched(p, r, overtaken) => Backed(log, r, state[p][best[p]])
  BY <1>1 DEF BackedOK
<1>5. \A q, r \in Ids : Vouched(q, r, overtaken) => Backed(log, r, low'[q])
  BY <1>4 DEF BackedOK, TypeOK
<1>6. \A q \in Ids : watch'[q] = "scan" => q # p /\ watch[q] = "scan" /\ scan'[q] = scan[q] /\ best'[q] = best[q]
  BY DEF TypeOK
<1>7. BackedOK'
  BY <1>5, <1>6 DEF BackedOK, Answer
<1>8. WantOK'
  BY DEF WantOK
<1> QED BY <1>3, <1>7, <1>8

(* Publish preserves the invariant.                                         *)
LEMMA PublishStep ==
  ASSUME IInv, NEW p \in Ids, Publish(p)
  PROVE  IInv'
<1> USE DEF IInv, Publish, envVars, scanVars
<1>1. TypeOK'
  BY DEF TypeOK, Woken, Values
<1>2. /\ low'[p] = STATE_INVALID /\ global'[p] = low[p] /\ watch'[p] = "read"
      /\ doubtful'[p] = overtaken[p]
      /\ \A q \in Ids \ {p} :
           /\ low'[q] = low[q] /\ global'[q] = global[q] /\ watch'[q] = watch[q]
           /\ overtaken'[q] = overtaken[q] /\ doubtful'[q] = doubtful[q]
  BY DEF TypeOK
<1>3. \A q, r \in Ids : Vouched(q, r, overtaken') => Backed(log, r, low'[q])
  BY <1>2, InvalidBacked DEF BackedOK, Vouched
<1>4. \A q, r \in Ids : Vouched(q, r, doubtful') => Backed(log, r, global'[q])
  BY <1>2 DEF BackedOK, Vouched
<1>5. \A q, r \in Ids : watch'[q] = "scan" /\ r < scan[q] /\ Vouched(q, r, overtaken') =>
        Backed(log, r, state[q][best[q]])
  BY <1>2 DEF BackedOK, Vouched
<1>6. BackedOK'
  BY <1>3, <1>4, <1>5 DEF BackedOK, Answer, Woken, TypeOK
<1>7. WantOK'
  BY DEF WantOK, Woken, TypeOK
<1> QED BY <1>1, <1>6, <1>7
-------------------------------------------------------------------------------
(* Every step preserves the invariant.                                      *)
LEMMA NextIInv == IInv /\ [Next]_vars => IInv'
<1> SUFFICES ASSUME IInv, [Next]_vars PROVE IInv'
  OBVIOUS
<1>1. CASE UNCHANGED vars
  <2>1. TypeOK'
    BY <1>1 DEF vars, envVars, mainVars, watchVars, scanVars, IInv, TypeOK
  <2>2. BackedOK'
    BY <1>1 DEF vars, envVars, mainVars, watchVars, scanVars, IInv, BackedOK, Backed, Answer
  <2>3. WantOK'
    BY <1>1 DEF vars, envVars, mainVars, watchVars, scanVars, IInv, WantOK
  <2> QED BY <2>1, <2>2, <2>3 DEF IInv
<1>2. ASSUME NEW p \in Ids, CallStep(p) PROVE IInv'
  BY <1>2, PutAppliedStep, PutReturnsStep, PutFailsStep, CheckGlobalStep DEF CallStep
<1>3. ASSUME NEW p \in Ids, WatchStep(p) PROVE IInv'
  BY <1>3, ReceiveStep, HandleAgainStep, HandleEventStep, BeginScanStep, CompareEntryStep,
     TakeMinStep, PublishStep
     DEF WatchStep
<1>4. ASSUME NEW p \in Ids, NEW v \in States, SetState(p, v) \/ Wait(p, v)
      PROVE  IInv'
  BY <1>4, SetStateStep, WaitStep
<1>5. ASSUME NEW p \in Ids, Start(p) \/ Stop(p) \/ Break(p)
      PROVE  IInv'
  BY <1>5, StartStep, StopStep, BreakStep
<1>6. ASSUME NEW l \in leases, Expire(l[1], l[2]) PROVE IInv'
  BY <1>6, ExpireStep
<1> QED BY <1>1, <1>2, <1>3, <1>4, <1>5, <1>6 DEF Next

(* The invariant always holds.                                              *)
LEMMA Invariance == Spec => []IInv
  BY InitIInv, NextIInv, PTL DEF Spec

(* All variables of sync_t, of the watch and of etcd keep their types, and  *)
(* no index into the events of a response leaves the log.                   *)
THEOREM TypeCorrect == Spec => []TypeOK
<1>1. IInv => TypeOK
  BY DEF IInv
<1> QED BY <1>1, Invariance, PTL

(* Only the loop of wait_for_global_state releases a waiter.                *)
LEMMA ReleasedReached ==
  ASSUME TypeOK, Next, NEW p \in Ids, Released(p)
  PROVE  Reached(p)
<1> USE DEF Released
<1>1. CASE \E q \in Ids : CheckGlobal(q)
  BY <1>1 DEF CheckGlobal, TypeOK
<1>2. ~(\E q \in Ids : Start(q) \/ Break(q) \/ Stop(q))
  BY ZenonT(60) DEF Start, Break, Stop, Reset, TypeOK, mainVars
<1>3. ~(\E q \in Ids : \E v \in States : SetState(q, v) \/ Wait(q, v))
  BY DEF SetState, Wait, TypeOK
<1>4. ~(\E q \in Ids : PutApplied(q) \/ PutReturns(q))
  BY DEF PutApplied, PutReturns, Putting, Answer, TypeOK
<1>5. ~(\E q \in Ids : PutFails(q))
  BY DEF PutFails, Reset, Putting, Answer, TypeOK
<1>6. ~(\E q \in Ids : WatchStep(q))
  <2>1. ASSUME NEW q \in Ids, Publish(q) PROVE FALSE
    <3>1. main' = [main EXCEPT ![q] = IF @ = "sleep" /\ low[q] # global[q] THEN "wait" ELSE @]
      BY <2>1 DEF Publish, Woken
    <3>2. main'[p] = "wait"
      BY <3>1 DEF TypeOK
    <3> QED BY <3>2
  <2>2. ~(\E q \in Ids : BeginScan(q) \/ CompareEntry(q) \/ TakeMin(q))
    BY ZenonT(60) DEF BeginScan, CompareEntry, TakeMin, mainVars
  <2>3. ~(\E q \in Ids : HandleAgain(q) \/ HandleEvent(q) \/ \E n \in 1 .. Len(log) : Receive(q, n))
    BY ZenonT(60) DEF Receive, HandleAgain, HandleEvent, mainVars
  <2> QED BY <2>1, <2>2, <2>3 DEF WatchStep
<1>7. ~(\E l \in leases : Expire(l[1], l[2]))
  BY DEF Expire, mainVars
<1> QED BY <1>1, <1>2, <1>3, <1>4, <1>5, <1>6, <1>7 DEF Next, CallStep

(* The global state that let a waiter through was published by the process  *)
(* itself, and by all when its scan was not overtaken.                      *)
LEMMA ReleasedBacked ==
  ASSUME IInv, Next, NEW p \in Ids, Released(p), NEW q \in Ids, Vouched(p, q, doubtful)
  PROVE  EverReached(q, want[p])
<1>1. global[p] >= want[p]
  BY ReleasedReached DEF IInv, Reached
<1>2. want[p] \in States
  BY DEF Released, IInv, WantOK
<1>3. Backed(log, q, want[p])
  BY <1>1, <1>2, LowerBound DEF IInv, BackedOK, TypeOK, Values
<1> QED BY <1>2, <1>3 DEF Backed, EverReached, States, STATE_INVALID

(* The barrier opens early in one way only: unless set_state wrote its own  *)
(* entry under the scan that gave the global state, wait_for_global_state(k)*)
(* returns only when every process of the universe has published k or more  *)
(* at some time, and even then only when its own process has.               *)
THEOREM BarrierSound == Spec => EarlyOnlyOvertaken
<1> DEFINE A == \A p \in Ids : Released(p) =>
                  /\ EverReached(p, want[p])
                  /\ ~doubtful[p] => \A q \in Ids : EverReached(q, want[p])
<1>1. IInv /\ [Next]_vars => [A]_vars
  <2> SUFFICES ASSUME IInv, Next, NEW p \in Ids, Released(p)
               PROVE  /\ EverReached(p, want[p])
                      /\ ~doubtful[p] => \A q \in Ids : EverReached(q, want[p])
    OBVIOUS
  <2> QED BY ReleasedBacked DEF Vouched
<1> QED BY <1>1, Invariance, PTL DEF Spec, EarlyOnlyOvertaken
-------------------------------------------------------------------------------
(* The caches and the keys.                                                 *)

(* An appended event breaks the silence of its process only.                *)
LEMMA SilentAppend ==
  ASSUME TypeOK, NEW e \in Events, log' = Append(log, e), NEW q, NEW n \in 0 .. Len(log)
  PROVE  Silent(log', q, n) <=> Silent(log, q, n) /\ e.id # q
<1>1. /\ Len(log') = Len(log) + 1 /\ log'[Len(log) + 1] = e
      /\ \A i \in 1 .. Len(log) : log'[i] = log[i]
      /\ Len(log) \in Nat
  BY LogGrows DEF TypeOK
<1>2. ASSUME Silent(log', q, n) PROVE Silent(log, q, n) /\ e.id # q
  BY <1>1, <1>2 DEF Silent
<1>3. ASSUME Silent(log, q, n), e.id # q PROVE Silent(log', q, n)
  <2>1. ASSUME NEW i \in n + 1 .. Len(log') PROVE log'[i].id # q
    <3>1. i = Len(log) + 1 \/ (i \in n + 1 .. Len(log) /\ i \in 1 .. Len(log))
      BY <1>1
    <3> QED BY <1>1, <1>3, <3>1 DEF Silent
  <2> QED BY <2>1 DEF Silent
<1> QED BY <1>2, <1>3

(* Values are numbers.                                                      *)
LEMMA ValuesInt == Values \subseteq Int /\ STATE_INVALID = -1 /\ \A v \in Values : v >= -1
  BY SyncAssumption DEF SyncAssumption, Values, States, STATE_INVALID

(* When all events are handled the key of every process is silent.          *)
LEMMA SilentEnd ==
  ASSUME TypeOK, NEW q
  PROVE  Silent(log, q, Len(log))
BY DEF Silent, TypeOK

(* An event with the value it gives its key keeps keys and log together.    *)
LEMMA LogInvAppend ==
  ASSUME TypeOK, LogInv, NEW e \in Events, log' = Append(log, e),
         NEW r \in [val : {e.val}, lease : Int], keys' = [keys EXCEPT ![e.id] = r],
         UNCHANGED inc, leases' \subseteq leases, inc[e.id] # 0
  PROVE  LogInv'
<1>1. /\ Len(log') = Len(log) + 1 /\ log'[Len(log) + 1] = e
      /\ \A i \in 1 .. Len(log) : log'[i] = log[i]
      /\ Len(log) \in Nat /\ e.id \in Ids
  BY LogGrows DEF TypeOK, Events
<1>2. \A q \in Ids : keys'[q].val = IF q = e.id THEN e.val ELSE keys[q].val
  BY <1>1 DEF TypeOK
<1>3. ASSUME NEW q \in Ids, Silent(log', q, 0) PROVE keys'[q].val = STATE_INVALID
  <2>1. 0 \in 0 .. Len(log)
    BY <1>1
  <2> QED BY <1>2, <1>3, <2>1, SilentAppend DEF LogInv
<1>4. ASSUME NEW q \in Ids, NEW i \in 1 .. Len(log'), log'[i].id = q, Silent(log', q, i)
      PROVE  keys'[q].val = log'[i].val
  <2>1. CASE i = Len(log) + 1
    BY <1>1, <1>2, <1>4, <2>1
  <2>2. CASE i # Len(log) + 1
    <3>1. i \in 1 .. Len(log) /\ i \in 0 .. Len(log) /\ log'[i] = log[i]
      BY <1>1, <2>2
    <3>2. Silent(log, q, i) /\ e.id # q
      BY <1>4, <3>1, SilentAppend
    <3> QED BY <1>2, <1>4, <3>1, <3>2 DEF LogInv
  <2> QED BY <2>1, <2>2
<1>5. \A l \in leases' : l[2] <= inc'[l[1]]
  BY DEF LogInv
<1>6. ASSUME NEW i \in 1 .. Len(log') PROVE inc'[log'[i].id] # 0
  <2>1. i = Len(log) + 1 \/ i \in 1 .. Len(log)
    BY <1>1
  <2> QED BY <1>1, <2>1 DEF LogInv
<1> QED BY <1>3, <1>4, <1>5, <1>6 DEF LogInv

(* It holds at the start.                                                   *)
LEMMA InitExact == Init => ExactInv
<1> SUFFICES ASSUME Init PROVE ExactInv
  OBVIOUS
<1>1. /\ log = <<>> /\ leases = {} /\ \A q \in Ids : keys[q].val = STATE_INVALID
      /\ \A p \in Ids : /\ inc[p] = 0 /\ main[p] = "down" /\ state[p] = NoStates /\ pos[p] = 0
                        /\ ~broken[p] /\ watch[p] = "read" /\ global[p] = STATE_INVALID /\ ~ok[p]
  BY DEF Init
<1>2. LogInv
  BY <1>1 DEF LogInv
<1>3. DownInv
  BY <1>1 DEF DownInv
<1>4. AnswerInv
  BY <1>1 DEF AnswerInv, Answer
<1>5. CacheInv
  BY <1>1 DEF CacheInv, NoStates
<1>6. GlobalInv
  BY <1>1 DEF GlobalInv
<1>7. MonoInv
  BY <1>1 DEF MonoInv
<1> QED BY <1>2, <1>3, <1>4, <1>5, <1>6, <1>7 DEF ExactInv

(* A start: the process had nothing, and its new lease nothing to lose.     *)
LEMMA StartExact ==
  ASSUME IInv, ExactInv, NEW p \in Ids, Start(p)
  PROVE  ExactInv'
<1>1. /\ main[p] = "down" /\ inc' = [inc EXCEPT ![p] = @ + 1]
      /\ leases' = leases \cup {<<p, inc[p] + 1>>}
      /\ main' = [main EXCEPT ![p] = "start"] /\ arg' = [arg EXCEPT ![p] = 0]
      /\ UNCHANGED <<log, keys, ok, want, state, watch, pos, resp, broken, scan, best, low, global>>
  BY DEF Start, watchVars, scanVars, STATE_INITIALIZED
<1>2. TypeOK /\ LogInv /\ DownInv /\ AnswerInv /\ CacheInv /\ GlobalInv /\ MonoInv
  BY DEF IInv, ExactInv
<1>3. /\ inc \in [Ids -> Nat] /\ inc'[p] = inc[p] + 1 /\ main'[p] = "start" /\ arg'[p] = 0
      /\ \A q \in Ids \ {p} : inc'[q] = inc[q] /\ main'[q] = main[q] /\ arg'[q] = arg[q]
  BY <1>1, <1>2 DEF TypeOK
<1>4. \A q \in Ids \ {p} : (HasLease(q)' <=> HasLease(q)) /\ (Answer(q)' <=> Answer(q))
  BY <1>1, <1>3 DEF HasLease, Answer
<1>5. /\ state[p] = NoStates /\ pos[p] = 0 /\ ~broken[p] /\ watch[p] = "read"
      /\ global[p] = STATE_INVALID /\ ~ok[p]
  BY <1>1, <1>2 DEF DownInv
<1>6. LogInv'
  <2>1. \A l \in leases : l[1] \in Ids /\ l[2] \in Nat
    BY <1>2 DEF TypeOK
  <2>2. \A l \in leases' : l[2] <= inc'[l[1]]
    BY <1>1, <1>2, <1>3, <2>1 DEF LogInv
  <2>3. \A i \in 1 .. Len(log) : log[i] \in Events
    BY <1>2 DEF TypeOK
  <2>4. \A i \in 1 .. Len(log) : inc'[log[i].id] # 0
    <3> SUFFICES ASSUME NEW i \in 1 .. Len(log) PROVE inc'[log[i].id] # 0
      OBVIOUS
    <3>1. log[i].id \in Ids /\ inc[log[i].id] # 0
      BY <1>2, <2>3 DEF LogInv, Events
    <3> QED BY <1>3, <3>1
  <2> QED BY <1>1, <1>2, <2>2, <2>4 DEF LogInv
<1>7. DownInv'
  BY <1>1, <1>2, <1>3 DEF DownInv
<1>8. AnswerInv'
  BY <1>1, <1>2, <1>3, <1>4 DEF AnswerInv, Answer
<1>9. CacheInv'
  BY <1>1, <1>2, <1>4, <1>5 DEF CacheInv, LogInv, NoStates
<1>10. GlobalInv'
  <2>1. pos[p] = Len(log) => IsMin(keys, global[p])
    <3>1. ASSUME pos[p] = Len(log) PROVE \A q \in Ids : keys[q].val = STATE_INVALID
      BY <1>2, <1>5, <3>1, SilentEnd DEF LogInv
    <3> QED BY <1>5, <3>1, ValuesInt DEF IsMin
  <2> QED BY <1>1, <1>2, <1>3, <1>4, <1>5, <2>1 DEF GlobalInv
<1>11. MonoInv'
  <2>1. ASSUME inc[p] = 0 PROVE Silent(log, p, 0)
    BY <1>2, <2>1 DEF LogInv, Silent
  <2>2. ASSUME inc[p] = 0
        PROVE  /\ \A i \in 1 .. Len(log) : log[i].id # p
               /\ keys[p].val = -1 /\ state[p][p] = -1
    BY <1>2, <1>5, <2>1, <2>2, ValuesInt DEF LogInv, NoStates, STATE_INVALID
  <2>3. inc'[p] = 1 => inc[p] = 0
    BY <1>3
  <2> QED BY <1>1, <1>2, <1>3, <1>4, <1>5, <2>2, <2>3 DEF MonoInv
<1> QED BY <1>6, <1>7, <1>8, <1>9, <1>10, <1>11 DEF ExactInv

(* sync_set_state takes a new argument.                                     *)
LEMMA SetStateExact ==
  ASSUME IInv, ExactInv, NEW p \in Ids, NEW v \in States, SetState(p, v)
  PROVE  ExactInv'
<1>1. /\ main[p] = "idle" /\ MayAsk(p, v) /\ arg' = [arg EXCEPT ![p] = v]
      /\ UNCHANGED <<log, keys, leases, inc, want, state, watch, pos, resp, broken, scan, best, low, global>>
      /\ \/ v < state[p][p] /\ ok' = [ok EXCEPT ![p] = FALSE] /\ main' = main
         \/ v = state[p][p] /\ ok' = [ok EXCEPT ![p] = TRUE] /\ main' = main
         \/ ok' = [ok EXCEPT ![p] = FALSE] /\ main' = [main EXCEPT ![p] = "put"]
  BY DEF SetState, watchVars, scanVars, envVars, my_state
<1>2. TypeOK /\ LogInv /\ DownInv /\ AnswerInv /\ CacheInv /\ GlobalInv /\ MonoInv
  BY DEF IInv, ExactInv
<1>3. /\ \A q \in Ids \ {p} : main'[q] = main[q] /\ arg'[q] = arg[q] /\ ok'[q] = ok[q]
      /\ main'[p] \in {"idle", "put"} /\ arg'[p] = v
      /\ ok'[p] => v = state[p][p]
  BY <1>1, <1>2 DEF TypeOK
<1>4. \A q \in Ids : HasLease(q)' <=> HasLease(q)
  BY <1>1 DEF HasLease
<1>5. LogInv'
  BY <1>1, <1>2 DEF LogInv
<1>6. DownInv'
  BY <1>1, <1>2, <1>3 DEF DownInv
<1>7. AnswerInv'
  BY <1>1, <1>2, <1>3, <1>4 DEF AnswerInv, Answer
<1>8. CacheInv'
  BY <1>1, <1>2, <1>4 DEF CacheInv
<1>9. GlobalInv'
  BY <1>1, <1>2, <1>3, <1>4 DEF GlobalInv
<1>10. MonoInv'
  <2>1. /\ keys[p].val \in Int /\ arg[p] \in Int /\ v \in Int
        /\ AppRule = "increasing" => v > arg[p]
    BY <1>1, <1>2, ValuesInt DEF TypeOK, MayAsk, Values
  <2>2. state[p][p] \in Int
    <3>1. state[p][p] \in Values
      BY <1>2 DEF TypeOK
    <3> QED BY <3>1, ValuesInt
  <2> SUFFICES ASSUME AppRule = "increasing", NEW s \in Ids, inc[s] = 1, HasLease(s), main'[s] # "down"
               PROVE  /\ \A i \in 1 .. Len(log) : log[i].id = s => log[i].val <= keys[s].val
                      /\ state[s][s] <= keys[s].val /\ keys[s].val <= arg'[s]
                      /\ ok'[s] => keys[s].val >= arg'[s]
    BY <1>1, <1>4 DEF MonoInv
  <2>3. /\ \A i \in 1 .. Len(log) : log[i].id = s => log[i].val <= keys[s].val
        /\ state[s][s] <= keys[s].val /\ keys[s].val <= arg[s]
        /\ ok[s] => keys[s].val >= arg[s]
    BY <1>1, <1>2, <1>3 DEF MonoInv
  <2>4. CASE s = p
    BY <1>3, <2>1, <2>2, <2>3, <2>4
  <2>5. CASE s # p
    BY <1>3, <2>3, <2>5
  <2> QED BY <2>4, <2>5
<1> QED BY <1>5, <1>6, <1>7, <1>8, <1>9, <1>10 DEF ExactInv

(* etcd applies a Put.                                                      *)
LEMMA PutAppliedExact ==
  ASSUME IInv, ExactInv, NEW p \in Ids, PutApplied(p)
  PROVE  ExactInv'
<1> DEFINE e == [id |-> p, inc |-> inc[p], val |-> arg[p]]
           r == [val |-> arg[p], lease |-> inc[p]]
<1>1. /\ main[p] \in {"start", "put"} /\ HasLease(p)
      /\ log' = Append(log, e) /\ keys' = [keys EXCEPT ![p] = r]
      /\ main' = [main EXCEPT ![p] = IF @ = "start" THEN "started" ELSE "done"]
      /\ UNCHANGED <<leases, inc, arg, ok, want, state, watch, pos, resp, broken, scan, best, low, global>>
  BY DEF PutApplied, Putting, watchVars, scanVars
<1>2. TypeOK /\ LogInv /\ DownInv /\ AnswerInv /\ CacheInv /\ GlobalInv /\ MonoInv
  BY DEF IInv, ExactInv
<1>3. inc[p] \in 1 .. MaxInc
  BY <1>1, <1>2 DEF TypeOK, HasLease
<1>4. e \in Events /\ e.id = p /\ e.val = arg[p] /\ r \in [val : {e.val}, lease : Int]
  BY <1>2, <1>3, SyncAssumption DEF TypeOK, Events, SyncAssumption
<1>5. /\ \A q \in Ids \ {p} : main'[q] = main[q] /\ keys'[q] = keys[q]
      /\ main'[p] \in {"started", "done"} /\ keys'[p].val = arg[p] /\ keys'[p].lease = inc[p]
  BY <1>1, <1>2 DEF TypeOK
<1>6. \A q \in Ids : HasLease(q)' <=> HasLease(q)
  BY <1>1 DEF HasLease
<1> HIDE DEF e, r
<1>7. LogInv'
  <2>1. inc[e.id] # 0 /\ UNCHANGED inc /\ leases' \subseteq leases /\ keys' = [keys EXCEPT ![e.id] = r]
    BY <1>1, <1>3, <1>4
  <2> QED BY <1>1, <1>2, <1>4, <2>1, LogInvAppend
<1>8. DownInv'
  BY <1>1, <1>2, <1>5 DEF DownInv
<1>9. AnswerInv'
  BY <1>1, <1>2, <1>5, <1>6 DEF AnswerInv, Answer
<1>10. \A q \in Ids : pos[q] \in 0 .. Len(log) /\ Len(log) \in Nat
  BY <1>2 DEF TypeOK
<1>11. CacheInv'
  <2> SUFFICES ASSUME Watched = Ids, NEW s \in Ids, NEW q \in Ids,
                      ~broken[s], Silent(log', q, pos[s]), q = s => HasLease(s)
               PROVE  state[s][q] = keys'[q].val
    BY <1>1, <1>6 DEF CacheInv
  <2>1. Silent(log, q, pos[s]) /\ q # p
    BY <1>1, <1>2, <1>4, <1>10, SilentAppend
  <2> QED BY <1>2, <1>5, <2>1 DEF CacheInv
<1>12. GlobalInv'
  <2>1. Len(log') = Len(log) + 1
    BY <1>1, <1>2, <1>4, LogGrows
  <2>2. \A q \in Ids : pos'[q] # Len(log')
    BY <1>1, <1>10, <2>1
  <2> QED BY <2>2 DEF GlobalInv
<1>13. MonoInv'
  <2> SUFFICES ASSUME AppRule = "increasing", NEW s \in Ids, inc[s] = 1, HasLease(s), main'[s] # "down"
               PROVE  /\ \A i \in 1 .. Len(log') : log'[i].id = s => log'[i].val <= keys'[s].val
                      /\ state[s][s] <= keys'[s].val /\ keys'[s].val <= arg[s]
                      /\ ok[s] => keys'[s].val >= arg[s]
    BY <1>1, <1>6 DEF MonoInv
  <2>1. main[s] # "down"
    BY <1>1, <1>5
  <2>2. /\ \A i \in 1 .. Len(log) : log[i].id = s => log[i].val <= keys[s].val
        /\ state[s][s] <= keys[s].val /\ keys[s].val <= arg[s]
        /\ ok[s] => keys[s].val >= arg[s]
    BY <1>2, <2>1 DEF MonoInv
  <2>3. /\ Len(log') = Len(log) + 1 /\ log'[Len(log) + 1] = e
        /\ \A i \in 1 .. Len(log) : log'[i] = log[i]
    BY <1>1, <1>2, <1>4, LogGrows
  <2>4. \A i \in 1 .. Len(log) : log[i] \in Events
    BY <1>2 DEF TypeOK
  <2>5. /\ \A i \in 1 .. Len(log) : log[i].val \in Int
        /\ keys[s].val \in Int /\ arg[s] \in Int /\ state[s][s] \in Int
    <3>1. /\ \A i \in 1 .. Len(log) : log[i].val \in Values
          /\ keys[s].val \in Values /\ arg[s] \in Values
      BY <1>2, <2>4 DEF TypeOK, Events
    <3>2. state[s][s] \in Values
      BY <1>2 DEF TypeOK
    <3> QED BY <3>1, <3>2, ValuesInt
  <2>6. keys[s].val <= keys'[s].val /\ keys'[s].val \in Int /\ (s = p => keys'[s].val = arg[s])
        /\ (s # p => keys'[s] = keys[s])
    <3>1. CASE s = p
      BY <1>5, <2>2, <2>5, <3>1
    <3>2. CASE s # p
      <4>1. keys'[s] = keys[s]
        BY <1>5, <3>2
      <4> QED BY <2>5, <3>2, <4>1
    <3> QED BY <3>1, <3>2
  <2>7. ASSUME NEW i \in 1 .. Len(log'), log'[i].id = s PROVE log'[i].val <= keys'[s].val
    <3>1. CASE i \in 1 .. Len(log)
      BY <2>2, <2>3, <2>5, <2>6, <2>7, <3>1
    <3>2. CASE i \notin 1 .. Len(log)
      <4>1. i = Len(log) + 1
        BY <1>10, <2>3, <3>2
      <4>2. s = p /\ log'[i].val = arg[p]
        BY <1>4, <2>3, <2>7, <4>1
      <4> QED BY <2>5, <2>6, <4>2
    <3> QED BY <3>1, <3>2
  <2> QED BY <2>2, <2>5, <2>6, <2>7
<1> QED BY <1>7, <1>8, <1>9, <1>11, <1>12, <1>13 DEF ExactInv

(* The answer arrives: the application thread writes its own state.         *)
LEMMA PutReturnsExact ==
  ASSUME IInv, ExactInv, NEW p \in Ids, PutReturns(p)
  PROVE  ExactInv'
<1>1. /\ Answer(p) /\ state' = [state EXCEPT ![p][p] = arg[p]]
      /\ ok' = [ok EXCEPT ![p] = TRUE] /\ main' = [main EXCEPT ![p] = "idle"]
      /\ UNCHANGED <<log, keys, leases, inc, arg, want, watch, pos, resp, broken, scan, best, low, global>>
  BY DEF PutReturns, watchVars, scanVars, envVars
<1>2. TypeOK /\ LogInv /\ DownInv /\ AnswerInv /\ CacheInv /\ GlobalInv /\ MonoInv
  BY DEF IInv, ExactInv
<1>3. /\ \A q \in Ids \ {p} : main'[q] = main[q] /\ state'[q] = state[q] /\ ok'[q] = ok[q]
      /\ main'[p] = "idle" /\ state'[p][p] = arg[p] /\ \A q \in Ids \ {p} : state'[p][q] = state[p][q]
  BY <1>1, <1>2 DEF TypeOK
<1>4. \A q \in Ids : HasLease(q)' <=> HasLease(q)
  BY <1>1 DEF HasLease
<1>5. HasLease(p) => keys[p].val = arg[p]
  BY <1>1, <1>2 DEF AnswerInv
<1>6. main[p] # "down"
  BY <1>1 DEF Answer
<1>7. LogInv'
  BY <1>1, <1>2 DEF LogInv
<1>8. DownInv'
  BY <1>1, <1>2, <1>3 DEF DownInv
<1>9. AnswerInv'
  BY <1>1, <1>2, <1>3, <1>4 DEF AnswerInv, Answer
<1>10. CacheInv'
  BY <1>1, <1>2, <1>3, <1>4, <1>5 DEF CacheInv
<1>11. GlobalInv'
  BY <1>1, <1>2, <1>3, <1>4, <1>6 DEF GlobalInv
<1>12. MonoInv'
  <2>1. arg[p] \in Int
    BY <1>2, ValuesInt DEF TypeOK
  <2> QED BY <1>1, <1>2, <1>3, <1>4, <1>5, <1>6, <2>1 DEF MonoInv
<1> QED BY <1>7, <1>8, <1>9, <1>10, <1>11, <1>12 DEF ExactInv

(* A process goes.                                                          *)
LEMMA ResetExact ==
  ASSUME IInv, ExactInv, NEW p \in Ids, Reset(p), UNCHANGED <<envVars, inc>>
  PROVE  ExactInv'
<1>1. UNCHANGED <<log, keys, leases, inc>>
  BY DEF envVars
<1>2. TypeOK /\ LogInv /\ DownInv /\ AnswerInv /\ CacheInv /\ GlobalInv /\ MonoInv
  BY DEF IInv, ExactInv
<1>3. /\ \A q \in Ids \ {p} :
           /\ main'[q] = main[q] /\ state'[q] = state[q] /\ ok'[q] = ok[q] /\ arg'[q] = arg[q]
           /\ watch'[q] = watch[q] /\ pos'[q] = pos[q] /\ broken'[q] = broken[q]
           /\ low'[q] = low[q] /\ global'[q] = global[q] /\ scan'[q] = scan[q] /\ best'[q] = best[q]
      /\ main'[p] = "down" /\ state'[p] = NoStates /\ pos'[p] = 0 /\ ~broken'[p]
      /\ watch'[p] = "read" /\ global'[p] = STATE_INVALID /\ ~ok'[p]
  BY <1>2 DEF Reset, TypeOK
<1>4. \A q \in Ids : HasLease(q)' <=> HasLease(q)
  BY <1>1 DEF HasLease
<1>5. LogInv'
  BY <1>1, <1>2 DEF LogInv
<1>6. DownInv'
  BY <1>2, <1>3 DEF DownInv
<1>7. AnswerInv'
  BY <1>1, <1>2, <1>3, <1>4 DEF AnswerInv, Answer
<1>8. CacheInv'
  <2>1. \A q \in Ids : state'[p][q] = STATE_INVALID /\ (Silent(log, q, 0) => keys[q].val = STATE_INVALID)
    BY <1>2, <1>3 DEF NoStates, LogInv
  <2> QED BY <1>1, <1>2, <1>3, <1>4, <2>1 DEF CacheInv
<1>9. GlobalInv'
  BY <1>1, <1>2, <1>3, <1>4 DEF GlobalInv
<1>10. MonoInv'
  BY <1>1, <1>2, <1>3, <1>4 DEF MonoInv
<1> QED BY <1>5, <1>6, <1>7, <1>8, <1>9, <1>10 DEF ExactInv

(* Steps that leave what the caches are about as it is: only the control    *)
(* state of the application thread changes, and not to one of an answer.    *)
LEMMA ControlExact ==
  ASSUME IInv, ExactInv, NEW p \in Ids, NEW l, l \notin {"down", "started", "done"}, main[p] # "down",
         main' = [main EXCEPT ![p] = l],
         UNCHANGED <<log, keys, leases, inc, arg, ok, state, watch, pos, broken, scan, best, low, global>>
  PROVE  ExactInv'
<1>2. TypeOK /\ LogInv /\ DownInv /\ AnswerInv /\ CacheInv /\ GlobalInv /\ MonoInv
  BY DEF IInv, ExactInv
<1>3. main'[p] = l /\ \A q \in Ids \ {p} : main'[q] = main[q]
  BY <1>2 DEF TypeOK
<1>4. \A q \in Ids : (HasLease(q)' <=> HasLease(q)) /\ (Answer(q)' => Answer(q))
                   /\ (main'[q] = "down" <=> main[q] = "down")
  BY <1>3 DEF HasLease, Answer
<1>5. LogInv'
  BY <1>2 DEF LogInv
<1>6. DownInv'
  BY <1>2, <1>4 DEF DownInv
<1>7. AnswerInv'
  BY <1>2, <1>4 DEF AnswerInv
<1>8. CacheInv'
  BY <1>2, <1>4 DEF CacheInv
<1>9. GlobalInv'
  BY <1>2, <1>4 DEF GlobalInv
<1>10. MonoInv'
  BY <1>2, <1>4 DEF MonoInv
<1> QED BY <1>5, <1>6, <1>7, <1>8, <1>9, <1>10 DEF ExactInv

(* A failed Put, sync_wait_for_global_state and its loop are of these.      *)
LEMMA CallExact ==
  ASSUME IInv, ExactInv, NEW p \in Ids,
         PutFails(p) \/ CheckGlobal(p) \/ \E k \in States : Wait(p, k)
  PROVE  ExactInv'
<1>1. CASE PutFails(p)
  <2>1. CASE Reset(p)
    BY <1>1, <2>1, ResetExact DEF PutFails
  <2>2. CASE ~Reset(p)
    <3>1. /\ main[p] # "down" /\ main' = [main EXCEPT ![p] = "idle"]
          /\ UNCHANGED <<log, keys, leases, inc, arg, ok, state, watch, pos, broken, scan, best, low, global>>
      BY <1>1, <2>2 DEF PutFails, envVars, watchVars, scanVars
    <3> QED BY <3>1, ControlExact
  <2> QED BY <2>1, <2>2
<1>2. CASE CheckGlobal(p) \/ \E k \in States : Wait(p, k)
  <2>1. /\ main[p] # "down"
        /\ \E l \in {"idle", "sleep", "wait"} : main' = [main EXCEPT ![p] = l]
        /\ UNCHANGED <<log, keys, leases, inc, arg, ok, state, watch, pos, broken, scan, best, low, global>>
    BY <1>2 DEF CheckGlobal, Wait, envVars, watchVars, scanVars
  <2> QED BY <2>1, ControlExact
<1> QED BY <1>1, <1>2

(* A lease ends, and with it the key that is bound to it.                   *)
LEMMA ExpireExact ==
  ASSUME IInv, ExactInv, NEW l \in leases, Expire(l[1], l[2])
  PROVE  ExactInv'
<1> DEFINE p == l[1]
           n == l[2]
           e == [id |-> p, inc |-> n, val |-> STATE_INVALID]
           r == [val |-> STATE_INVALID, lease |-> 0]
<1>0. p \in Ids /\ n \in 1 .. MaxInc /\ l = <<p, n>>
  BY DEF IInv, TypeOK
<1>1. /\ p \in Ids /\ n \in 1 .. MaxInc /\ l = <<p, n>>
      /\ leases' = leases \ {l}
      /\ \/ keys[p].lease = n /\ log' = Append(log, e) /\ keys' = [keys EXCEPT ![p] = r]
         \/ keys[p].lease # n /\ UNCHANGED <<log, keys>>
      /\ UNCHANGED <<inc, main, arg, ok, want, state, watch, pos, resp, broken, scan, best, low, global>>
  BY <1>0 DEF Expire, mainVars, watchVars, scanVars
<1>2. TypeOK /\ LogInv /\ DownInv /\ AnswerInv /\ CacheInv /\ GlobalInv /\ MonoInv
  BY DEF IInv, ExactInv
<1>3. \A q \in Ids : (HasLease(q)' => HasLease(q)) /\ (Answer(q)' <=> Answer(q))
                   /\ (HasLease(q)' /\ q = p => inc[p] # n)
  BY <1>1 DEF HasLease, Answer
<1>4. DownInv'
  BY <1>1, <1>2 DEF DownInv
<1>5. CASE keys[p].lease # n
  <2>0. UNCHANGED <<log, keys>>
    BY <1>1, <1>5
  <2>1. LogInv'
    BY <1>1, <1>2, <2>0 DEF LogInv
  <2>2. AnswerInv'
    BY <1>1, <1>2, <1>3, <2>0 DEF AnswerInv
  <2>3. CacheInv'
    BY <1>1, <1>2, <1>3, <2>0 DEF CacheInv
  <2>4. GlobalInv'
    BY <1>1, <1>2, <1>3, <2>0 DEF GlobalInv
  <2>5. MonoInv'
    BY <1>1, <1>2, <1>3, <2>0 DEF MonoInv
  <2> QED BY <1>4, <2>1, <2>2, <2>3, <2>4, <2>5 DEF ExactInv
<1>6. CASE keys[p].lease = n
  <2>0. log' = Append(log, e) /\ keys' = [keys EXCEPT ![p] = r]
    BY <1>1, <1>6
  <2>1. e \in Events /\ e.id = p /\ e.val = STATE_INVALID /\ r \in [val : {e.val}, lease : Int]
    BY <1>1, SmallValues DEF Events
  <2>2. /\ \A q \in Ids \ {p} : keys'[q] = keys[q]
        /\ keys'[p].val = STATE_INVALID
    BY <1>1, <1>2, <2>0 DEF TypeOK
  <2>3. inc[p] # 0 /\ inc[p] >= n
    BY <1>1, <1>2 DEF LogInv, TypeOK
  <2> HIDE DEF e, r
  <2>4. LogInv'
    <3>1. inc[e.id] # 0 /\ UNCHANGED inc /\ leases' \subseteq leases /\ keys' = [keys EXCEPT ![e.id] = r]
      BY <1>1, <2>0, <2>1, <2>3
    <3> QED BY <1>2, <2>0, <2>1, <3>1, LogInvAppend
  <2>5. AnswerInv'
    <3>1. \A q \in Ids : Answer(q) /\ HasLease(q)' => keys[q].lease = inc[q] /\ keys[q].val = arg[q] /\ q # p
      BY <1>2, <1>3, <1>6 DEF AnswerInv
    <3> QED BY <1>1, <1>3, <2>2, <3>1 DEF AnswerInv
  <2>6. \A q \in Ids : pos[q] \in 0 .. Len(log) /\ Len(log) \in Nat
    BY <1>2 DEF TypeOK
  <2>7. CacheInv'
    <3> SUFFICES ASSUME Watched = Ids, NEW s \in Ids, NEW q \in Ids,
                        ~broken[s], Silent(log', q, pos[s]), q = s => HasLease(s)'
                 PROVE  state[s][q] = keys'[q].val
      BY <1>1 DEF CacheInv
    <3>1. Silent(log, q, pos[s]) /\ q # p
      BY <1>2, <2>0, <2>1, <2>6, SilentAppend
    <3> QED BY <1>2, <1>3, <2>2, <3>1 DEF CacheInv
  <2>8. GlobalInv'
    <3>1. Len(log') = Len(log) + 1
      BY <1>2, <2>0, <2>1, LogGrows
    <3>2. \A q \in Ids : pos'[q] # Len(log')
      BY <1>1, <2>6, <3>1
    <3> QED BY <3>2 DEF GlobalInv
  <2>9. MonoInv'
    <3> SUFFICES ASSUME AppRule = "increasing", NEW s \in Ids, inc[s] = 1, HasLease(s)', main[s] # "down"
                 PROVE  /\ \A i \in 1 .. Len(log') : log'[i].id = s => log'[i].val <= keys'[s].val
                        /\ state[s][s] <= keys'[s].val /\ keys'[s].val <= arg[s]
                        /\ ok[s] => keys'[s].val >= arg[s]
      BY <1>1 DEF MonoInv
    <3>1. s # p
      BY <1>1, <1>3, <2>3
    <3>2. /\ \A i \in 1 .. Len(log) : log[i].id = s => log[i].val <= keys[s].val
          /\ state[s][s] <= keys[s].val /\ keys[s].val <= arg[s]
          /\ ok[s] => keys[s].val >= arg[s]
      BY <1>2, <1>3 DEF MonoInv
    <3>3. /\ Len(log') = Len(log) + 1 /\ log'[Len(log) + 1] = e
          /\ \A i \in 1 .. Len(log) : log'[i] = log[i]
      BY <1>2, <2>0, <2>1, LogGrows
    <3>4. ASSUME NEW i \in 1 .. Len(log'), log'[i].id = s PROVE i \in 1 .. Len(log)
      BY <2>1, <2>6, <3>1, <3>3, <3>4
    <3> QED BY <2>2, <3>1, <3>2, <3>3, <3>4
  <2> QED BY <1>4, <2>4, <2>5, <2>7, <2>8, <2>9 DEF ExactInv
<1> QED BY <1>5, <1>6

(* A response arrives, or the stream breaks.                                *)
LEMMA ReceiveBreakExact ==
  ASSUME IInv, ExactInv, NEW p \in Ids,
         Break(p) \/ \E n \in 1 .. Len(log) : Receive(p, n)
  PROVE  ExactInv'
<1>1. /\ main[p] # "down"
      /\ UNCHANGED <<log, keys, leases, inc, main, arg, ok, want, state, pos, scan, best, low, global>>
      /\ \A q \in Ids : broken[q] => broken'[q]
      /\ \A q \in Ids \ {p} : broken'[q] = broken[q] /\ watch'[q] = watch[q]
      /\ watch'[p] = watch[p] \/ watch'[p] = "events"
  BY DEF Break, Receive, envVars, mainVars, scanVars, IInv, TypeOK
<1>2. TypeOK /\ LogInv /\ DownInv /\ AnswerInv /\ CacheInv /\ GlobalInv /\ MonoInv
  BY DEF IInv, ExactInv
<1>3. \A q \in Ids : (HasLease(q)' <=> HasLease(q)) /\ (Answer(q)' <=> Answer(q))
  BY <1>1 DEF HasLease, Answer
<1>4. LogInv'
  BY <1>1, <1>2 DEF LogInv
<1>5. DownInv'
  BY <1>1, <1>2 DEF DownInv
<1>6. AnswerInv'
  BY <1>1, <1>2, <1>3 DEF AnswerInv
<1>7. CacheInv'
  BY <1>1, <1>2, <1>3 DEF CacheInv
<1>8. GlobalInv'
  BY <1>1, <1>2, <1>3 DEF GlobalInv
<1>9. MonoInv'
  BY <1>1, <1>2, <1>3 DEF MonoInv
<1> QED BY <1>4, <1>5, <1>6, <1>7, <1>8, <1>9 DEF ExactInv

(* Old events are handled again: only behind a broken stream.               *)
LEMMA HandleAgainExact ==
  ASSUME IInv, ExactInv, NEW p \in Ids, HandleAgain(p)
  PROVE  ExactInv'
<1>1. /\ main[p] # "down" /\ broken[p]
      /\ UNCHANGED <<log, keys, leases, inc, main, arg, ok, want, state, broken, scan, best, low, global>>
      /\ \A q \in Ids \ {p} : pos'[q] = pos[q] /\ watch'[q] = watch[q]
  BY DEF HandleAgain, envVars, mainVars, scanVars, IInv, TypeOK
<1>2. TypeOK /\ LogInv /\ DownInv /\ AnswerInv /\ CacheInv /\ GlobalInv /\ MonoInv
  BY DEF IInv, ExactInv
<1>3. \A q \in Ids : (HasLease(q)' <=> HasLease(q)) /\ (Answer(q)' <=> Answer(q))
  BY <1>1 DEF HasLease, Answer
<1>4. LogInv'
  BY <1>1, <1>2 DEF LogInv
<1>5. DownInv'
  BY <1>1, <1>2 DEF DownInv
<1>6. AnswerInv'
  BY <1>1, <1>2, <1>3 DEF AnswerInv
<1>7. CacheInv'
  BY <1>1, <1>2, <1>3 DEF CacheInv
<1>8. GlobalInv'
  BY <1>1, <1>2, <1>3 DEF GlobalInv
<1>9. MonoInv'
  BY <1>1, <1>2, <1>3 DEF MonoInv
<1> QED BY <1>4, <1>5, <1>6, <1>7, <1>8, <1>9 DEF ExactInv

(* An event is handled: the cache takes its value, and if it was the last   *)
(* one about its key, that is the value of the key.                         *)
LEMMA HandleEventExact ==
  ASSUME IInv, ExactInv, NEW p \in Ids, HandleEvent(p)
  PROVE  ExactInv'
<1>1. TypeOK /\ LogInv /\ DownInv /\ AnswerInv /\ CacheInv /\ GlobalInv /\ MonoInv
  BY DEF IInv, ExactInv
<1>2. PICK i \in 1 .. Len(log) : i = pos[p] + 1
  BY <1>1 DEF HandleEvent, TypeOK
<1>3. log[i] \in Events
  BY <1>1 DEF TypeOK
<1>4. PICK e \in Events : e = log[i]
  BY <1>3
<1>5. /\ main[p] # "down" /\ watch[p] = "events"
      /\ pos' = [pos EXCEPT ![p] = i]
      /\ state' = [state EXCEPT ![p][e.id] = NewState(p, e)]
      /\ UNCHANGED <<log, keys, leases, inc, main, arg, ok, want, watch, broken, scan, best, low, global>>
  BY <1>2, <1>4 DEF HandleEvent, Advance, envVars, mainVars, scanVars
<1>6. e.id \in Ids /\ e.val \in Values
  BY DEF Events
<1>7. /\ \A q \in Ids \ {p} : state'[q] = state[q] /\ pos'[q] = pos[q]
      /\ pos'[p] = i
      /\ \A q \in Ids : state'[p][q] = IF q = e.id THEN NewState(p, e) ELSE state[p][q]
  BY <1>1, <1>5, <1>6 DEF TypeOK
<1>8. \A q \in Ids : (HasLease(q)' <=> HasLease(q)) /\ (Answer(q)' <=> Answer(q))
  BY <1>5 DEF HasLease, Answer
<1>9. LogInv'
  BY <1>1, <1>5 DEF LogInv
<1>10. DownInv'
  BY <1>1, <1>5, <1>7 DEF DownInv
<1>11. AnswerInv'
  BY <1>1, <1>5, <1>8 DEF AnswerInv
<1>12. CacheInv'
  <2> SUFFICES ASSUME Watched = Ids, NEW s \in Ids, NEW q \in Ids,
                      ~broken[s], Silent(log, q, pos'[s]), q = s => HasLease(s)
               PROVE  state'[s][q] = keys[q].val
    BY <1>5, <1>8 DEF CacheInv
  <2>1. CASE s # p
    BY <1>1, <1>7, <2>1 DEF CacheInv
  <2>2. CASE s = p /\ q = e.id
    <3>1. state'[p][q] = e.val
      BY <1>6, <1>7, <2>2 DEF NewState
    <3>2. keys[q].val = log[i].val
      BY <1>1, <1>4, <1>7, <2>2 DEF LogInv
    <3> QED BY <1>4, <2>2, <3>1, <3>2
  <2>3. CASE s = p /\ q # e.id
    <3>1. ASSUME NEW j \in pos[p] + 1 .. Len(log) PROVE log[j].id # q
      <4>1. pos[p] \in Nat /\ Len(log) \in Nat
        BY <1>1 DEF TypeOK
      <4>2. j = i \/ j \in i + 1 .. Len(log)
        BY <1>2, <4>1
      <4> QED BY <1>4, <1>7, <2>3, <4>2 DEF Silent
    <3>2. Silent(log, q, pos[p])
      BY <3>1 DEF Silent
    <3> QED BY <1>1, <1>7, <2>3, <3>2 DEF CacheInv
  <2> QED BY <2>1, <2>2, <2>3
<1>13. GlobalInv'
  BY <1>1, <1>5, <1>7, <1>8 DEF GlobalInv
<1>14. MonoInv'
  <2> SUFFICES ASSUME AppRule = "increasing", NEW s \in Ids, inc[s] = 1, HasLease(s), main[s] # "down"
               PROVE  /\ \A j \in 1 .. Len(log) : log[j].id = s => log[j].val <= keys[s].val
                      /\ state'[s][s] <= keys[s].val /\ keys[s].val <= arg[s]
                      /\ ok[s] => keys[s].val >= arg[s]
    BY <1>5, <1>8 DEF MonoInv
  <2>1. /\ \A j \in 1 .. Len(log) : log[j].id = s => log[j].val <= keys[s].val
        /\ state[s][s] <= keys[s].val /\ keys[s].val <= arg[s]
        /\ ok[s] => keys[s].val >= arg[s]
    BY <1>1 DEF MonoInv
  <2>2. state'[s][s] = state[s][s] \/ (e.id = s /\ state'[s][s] = e.val)
    BY <1>7 DEF NewState
  <2>3. e.id = s => e.val <= keys[s].val
    BY <1>4, <2>1
  <2> QED BY <2>1, <2>2, <2>3
<1> QED BY <1>9, <1>10, <1>11, <1>12, <1>13, <1>14 DEF ExactInv

(* What a step of a scan leaves to show: only the scan of p, its minimum and*)
(* its control state change.                                                *)
LEMMA ScanExact ==
  ASSUME IInv, ExactInv, NEW p \in Ids, NEW l \in {"scan", "publish"},
         main[p] # "down", watch' = [watch EXCEPT ![p] = l],
         \A q \in Ids \ {p} : low'[q] = low[q] /\ scan'[q] = scan[q] /\ best'[q] = best[q],
         UNCHANGED <<log, keys, leases, inc, main, arg, ok, want, state, pos, broken, global>>,
         Watched = Ids /\ ~broken[p] /\ pos[p] = Len(log) /\ HasLease(p) =>
           /\ l = "scan" => \A q \in Ids : q < scan'[p] => keys[best'[p]].val <= keys[q].val
           /\ l = "publish" => IsMin(keys, low'[p])
  PROVE  ExactInv'
<1>1. TypeOK /\ LogInv /\ DownInv /\ AnswerInv /\ CacheInv /\ GlobalInv /\ MonoInv
  BY DEF IInv, ExactInv
<1>2. /\ watch'[p] = l /\ l # "read"
      /\ \A s \in Ids \ {p} : watch'[s] = watch[s]
  BY <1>1 DEF TypeOK
<1>3. \A s \in Ids : (HasLease(s)' <=> HasLease(s)) /\ (Answer(s)' <=> Answer(s))
  BY DEF HasLease, Answer
<1>4. LogInv'
  BY <1>1 DEF LogInv
<1>5. DownInv'
  BY <1>1, <1>2 DEF DownInv
<1>6. AnswerInv'
  BY <1>1, <1>3 DEF AnswerInv
<1>7. CacheInv'
  BY <1>1, <1>3 DEF CacheInv
<1>8. GlobalInv'
  <2> SUFFICES ASSUME Watched = Ids, NEW s \in Ids, ~broken[s], pos[s] = Len(log), HasLease(s)
               PROVE  /\ watch'[s] = "scan" => \A q \in Ids : q < scan'[s] => keys[best'[s]].val <= keys[q].val
                      /\ watch'[s] = "publish" => IsMin(keys, low'[s])
                      /\ watch'[s] = "read" /\ main[s] # "down" => IsMin(keys, global[s])
    BY <1>3 DEF GlobalInv
  <2>1. CASE s = p
    BY <1>2, <2>1
  <2>2. CASE s # p
    BY <1>1, <1>2, <2>2 DEF GlobalInv
  <2> QED BY <2>1, <2>2
<1>9. MonoInv'
  BY <1>1, <1>3 DEF MonoInv
<1> QED BY <1>4, <1>5, <1>6, <1>7, <1>8, <1>9 DEF ExactInv

(* With all events handled the scan compares the values of the keys.        *)
LEMMA ScansKeys ==
  ASSUME IInv, ExactInv, Watched = Ids, NEW p \in Ids,
         ~broken[p], pos[p] = Len(log), HasLease(p)
  PROVE  /\ \A s \in Ids : state[p][s] = keys[s].val /\ keys[s].val \in Int
         /\ watch[p] = "scan" => \A q \in Ids : q < scan[p] => keys[best[p]].val <= keys[q].val
<1>1. \A s \in Ids : state[p][s] = keys[s].val
  BY SilentEnd DEF IInv, ExactInv, CacheInv
<1>2. \A s \in Ids : keys[s].val \in Values
  BY DEF IInv, TypeOK
<1> QED BY <1>1, <1>2, ValuesInt DEF ExactInv, GlobalInv

(* A scan begins with the first entry.                                      *)
LEMMA BeginScanExact ==
  ASSUME IInv, ExactInv, NEW p \in Ids, BeginScan(p)
  PROVE  ExactInv'
<1>1. /\ main[p] # "down" /\ watch' = [watch EXCEPT ![p] = "scan"]
      /\ scan'[p] = 1 /\ best'[p] = 0
      /\ \A q \in Ids \ {p} : low'[q] = low[q] /\ scan'[q] = scan[q] /\ best'[q] = best[q]
      /\ UNCHANGED <<log, keys, leases, inc, main, arg, ok, want, state, pos, broken, global>>
  BY DEF BeginScan, envVars, mainVars, IInv, TypeOK
<1>2. \A q \in Ids : q < 1 => q = 0
  BY SyncAssumption DEF SyncAssumption, Ids
<1>3. ASSUME Watched = Ids, ~broken[p], pos[p] = Len(log), HasLease(p)
      PROVE  \A q \in Ids : q < scan'[p] => keys[best'[p]].val <= keys[q].val
  BY <1>1, <1>2, <1>3, ScansKeys
<1> QED BY <1>1, <1>3, ScanExact

(* It keeps the smaller one.                                                *)
LEMMA CompareEntryExact ==
  ASSUME IInv, ExactInv, NEW p \in Ids, CompareEntry(p)
  PROVE  ExactInv'
<1>1. /\ main[p] # "down" /\ watch[p] = "scan" /\ scan[p] \in Ids /\ best[p] \in Ids
      /\ scan'[p] = scan[p] + 1 /\ best'[p] = Smaller(p)
      /\ \A q \in Ids \ {p} : low'[q] = low[q] /\ scan'[q] = scan[q] /\ best'[q] = best[q]
      /\ UNCHANGED <<log, keys, leases, inc, main, arg, ok, want, state, pos, broken, global>>
  <2>1. main[p] # "down" /\ watch[p] = "scan" /\ scan[p] \in Ids /\ best[p] \in Ids
    <3>1. scan[p] \in 0 .. Size /\ best[p] \in Ids
      BY DEF IInv, TypeOK
    <3>2. main[p] # "down" /\ watch[p] = "scan" /\ scan[p] < Size
      BY DEF CompareEntry
    <3> QED BY <3>1, <3>2, SyncAssumption DEF SyncAssumption, Ids
  <2>2. /\ scan'[p] = scan[p] + 1 /\ best'[p] = Smaller(p)
        /\ \A q \in Ids \ {p} : scan'[q] = scan[q] /\ best'[q] = best[q]
    BY DEF CompareEntry, IInv, TypeOK
  <2>3. UNCHANGED <<log, keys, leases, inc, main, arg, ok, want, state, pos, broken, low, global>>
    BY DEF CompareEntry, envVars, mainVars
  <2> QED BY <2>1, <2>2, <2>3
<1>2. watch' = [watch EXCEPT ![p] = "scan"]
  BY <1>1 DEF CompareEntry, IInv, TypeOK
<1>3. \A q \in Ids : q < scan[p] + 1 => q < scan[p] \/ q = scan[p]
  BY <1>1 DEF Ids
<1>4. ASSUME Watched = Ids, ~broken[p], pos[p] = Len(log), HasLease(p)
      PROVE  \A q \in Ids : q < scan'[p] => keys[best'[p]].val <= keys[q].val
  <2>1. /\ \A s \in Ids : state[p][s] = keys[s].val /\ keys[s].val \in Int
        /\ \A q \in Ids : q < scan[p] => keys[best[p]].val <= keys[q].val
    BY <1>1, <1>4, ScansKeys
  <2>2. /\ Smaller(p) \in Ids
        /\ keys[Smaller(p)].val <= keys[scan[p]].val /\ keys[Smaller(p)].val <= keys[best[p]].val
    BY <1>1, <2>1 DEF Smaller
  <2> QED BY <1>1, <1>3, <2>1, <2>2
<1> QED BY <1>1, <1>2, <1>4, ScanExact

(* The minimum is taken: with all events handled, over the values of all    *)
(* keys.                                                                    *)
LEMMA TakeMinExact ==
  ASSUME IInv, ExactInv, NEW p \in Ids, TakeMin(p)
  PROVE  ExactInv'
<1>1. /\ main[p] # "down" /\ watch[p] = "scan" /\ scan[p] = Size /\ best[p] \in Ids
      /\ watch' = [watch EXCEPT ![p] = "publish"] /\ low'[p] = state[p][best[p]]
      /\ \A q \in Ids \ {p} : low'[q] = low[q] /\ scan'[q] = scan[q] /\ best'[q] = best[q]
      /\ UNCHANGED <<log, keys, leases, inc, main, arg, ok, want, state, pos, broken, global>>
  BY DEF TakeMin, envVars, mainVars, IInv, TypeOK
<1>2. \A q \in Ids : q < Size
  BY SyncAssumption DEF SyncAssumption, Ids
<1>3. ASSUME Watched = Ids, ~broken[p], pos[p] = Len(log), HasLease(p)
      PROVE  IsMin(keys, low'[p])
  BY <1>1, <1>2, <1>3, ScansKeys DEF IsMin
<1> QED BY <1>1, <1>3, ScanExact

(* The minimum becomes the global state.                                    *)
LEMMA PublishExact ==
  ASSUME IInv, ExactInv, NEW p \in Ids, Publish(p)
  PROVE  ExactInv'
<1>1. TypeOK /\ LogInv /\ DownInv /\ AnswerInv /\ CacheInv /\ GlobalInv /\ MonoInv
  BY DEF IInv, ExactInv
<1>2. /\ main[p] # "down" /\ watch[p] = "publish"
      /\ watch' = [watch EXCEPT ![p] = "read"] /\ main' = Woken(p)
      /\ global' = [global EXCEPT ![p] = low[p]]
      /\ UNCHANGED <<log, keys, leases, inc, arg, ok, want, state, pos, broken, scan, best>>
      /\ \A s \in Ids \ {p} : low'[s] = low[s]
  BY <1>1 DEF Publish, envVars, TypeOK
<1>3. /\ global'[p] = low[p] /\ watch'[p] = "read"
      /\ \A s \in Ids \ {p} : global'[s] = global[s] /\ watch'[s] = watch[s] /\ main'[s] = main[s]
      /\ main'[p] = main[p] \/ (main[p] = "sleep" /\ main'[p] = "wait")
  BY <1>1, <1>2 DEF TypeOK, Woken
<1>4. \A s \in Ids : /\ (HasLease(s)' <=> HasLease(s)) /\ (Answer(s)' <=> Answer(s))
                     /\ (main'[s] = "down" <=> main[s] = "down")
  BY <1>2, <1>3 DEF HasLease, Answer
<1>5. LogInv'
  BY <1>1, <1>2 DEF LogInv
<1>6. DownInv'
  BY <1>1, <1>2, <1>3, <1>4 DEF DownInv
<1>7. AnswerInv'
  BY <1>1, <1>2, <1>4 DEF AnswerInv
<1>8. CacheInv'
  BY <1>1, <1>2, <1>4 DEF CacheInv
<1>9. GlobalInv'
  BY <1>1, <1>2, <1>3, <1>4 DEF GlobalInv
<1>10. MonoInv'
  BY <1>1, <1>2, <1>4 DEF MonoInv
<1> QED BY <1>5, <1>6, <1>7, <1>8, <1>9, <1>10 DEF ExactInv

(* Every step keeps caches and keys related.                                *)
LEMMA NextExact == IInv /\ ExactInv /\ [Next]_vars => ExactInv'
<1> SUFFICES ASSUME IInv, ExactInv, [Next]_vars PROVE ExactInv'
  OBVIOUS
<1>1. CASE UNCHANGED vars
  BY <1>1 DEF vars, envVars, mainVars, watchVars, scanVars, ExactInv, LogInv, DownInv, AnswerInv,
              CacheInv, GlobalInv, MonoInv, HasLease, Answer
<1>2. ASSUME NEW p \in Ids, CallStep(p) PROVE ExactInv'
  BY <1>2, PutAppliedExact, PutReturnsExact, CallExact DEF CallStep
<1>3. ASSUME NEW p \in Ids, WatchStep(p) PROVE ExactInv'
  BY <1>3, ReceiveBreakExact, HandleAgainExact, HandleEventExact, BeginScanExact, CompareEntryExact, TakeMinExact,
     PublishExact DEF WatchStep
<1>4. ASSUME NEW p \in Ids, NEW v \in States, SetState(p, v) \/ Wait(p, v)
      PROVE  ExactInv'
  BY <1>4, SetStateExact, CallExact
<1>5. ASSUME NEW p \in Ids, Start(p) \/ Stop(p) \/ Break(p)
      PROVE  ExactInv'
  BY <1>5, StartExact, ResetExact, ReceiveBreakExact DEF Stop
<1>6. ASSUME NEW l \in leases, Expire(l[1], l[2]) PROVE ExactInv'
  BY <1>6, ExpireExact
<1> QED BY <1>1, <1>2, <1>3, <1>4, <1>5, <1>6 DEF Next

(* They always are.                                                         *)
LEMMA ExactInvariance == Spec => []ExactInv
  BY InitExact, NextExact, Invariance, PTL DEF Spec

(* The cache of a process that is up and whose stream works is etcd's.      *)
LEMMA CacheIsExact ==
  ASSUME IInv, ExactInv, Watched = Ids
  PROVE  CaughtUp
<1> SUFFICES ASSUME NEW p \in Ids, main[p] # "down", ~broken[p], watch[p] = "read",
                    pos[p] = Len(log)
             PROVE  /\ \A q \in Ids \ {p} : state[p][q] = keys[q].val
                    /\ HasLease(p) => /\ \A q \in Ids : global[p] <= keys[q].val
                                      /\ \E q \in Ids : global[p] = keys[q].val
  BY DEF CaughtUp
<1>1. \A q \in Ids \ {p} : state[p][q] = keys[q].val
  BY SilentEnd DEF IInv, ExactInv, CacheInv
<1>2. HasLease(p) => IsMin(keys, global[p])
  BY DEF ExactInv, GlobalInv
<1> QED BY <1>1, <1>2 DEF IsMin

(* The caches are right whenever all events are handled, whatever the       *)
(* application asks for and whoever restarts, loses its lease or its calls, *)
(* provided that the watched range of keys is that of the whole universe,   *)
(* which the order of strings grants for a Size of 1 to 9, of 90 to 99 and  *)
(* so on.                                                                   *)
THEOREM CacheExact ==
  ASSUME Watched = Ids
  PROVE  Spec => []CaughtUp
<1>1. IInv /\ ExactInv => CaughtUp
  BY CacheIsExact
<1> QED BY <1>1, Invariance, ExactInvariance, PTL

(* If moreover the application only ever asks for more, a sync_set_state    *)
(* that returned 0 has stored its state, as long as the lease lives.        *)
THEOREM ToldTheTruth ==
  ASSUME Watched = Ids, AppRule = "increasing"
  PROVE  Spec => []Truthful
<1>1. ASSUME IInv, ExactInv PROVE Truthful
  <2>1. ASSUME NEW p \in Ids, ok[p], HasLease(p), inc[p] = 1
        PROVE  keys[p].val >= arg[p]
    <3>1. main[p] # "down"
      BY <1>1, <2>1 DEF ExactInv, DownInv
    <3> QED BY <1>1, <2>1, <3>1 DEF ExactInv, MonoInv
  <2> QED BY <1>1, <2>1, CacheIsExact DEF Truthful, AckedIsStored
<1>2. IInv /\ ExactInv => Truthful
  BY <1>1
<1> QED BY <1>2, Invariance, ExactInvariance, PTL

(* When a waiter returns, every process is at its state at that moment or   *)
(* has exited, as long as no process was started again, no lease of a live  *)
(* one ran out and set_state did not write under the scan, provided that the*)
(* application only ever asks for more.                                     *)
THEOREM BarrierExact ==
  ASSUME AppRule = "increasing"
  PROVE  Spec => BarrierHolds
<1> DEFINE A == \A p \in Ids : Released(p) /\ ~doubtful[p] /\ (\A q \in Ids : Undisturbed(q)) =>
                  \A q \in Ids : keys[q].val >= want[p] \/ Exited(q)
<1>1. IInv /\ ExactInv /\ [Next]_vars => [A]_vars
  <2> SUFFICES ASSUME IInv, ExactInv, Next, NEW p \in Ids, Released(p), ~doubtful[p],
                      \A q \in Ids : Undisturbed(q), NEW q \in Ids
               PROVE  keys[q].val >= want[p] \/ Exited(q)
    OBVIOUS
  <2>1. CASE main[q] = "down"
    BY <2>1 DEF Undisturbed, Exited
  <2>2. CASE main[q] # "down"
    <3>2. want[p] \in States
      BY DEF Released, IInv, WantOK
    <3>3. EverReached(q, want[p])
      BY ReleasedBacked DEF Vouched
    <3>4. PICK i \in 1 .. Len(log) : log[i].id = q /\ log[i].val >= want[p]
      BY <3>3 DEF EverReached
    <3>5. log[i].val <= keys[q].val
      BY <2>2, <3>4 DEF ExactInv, MonoInv, Undisturbed
    <3>6. log[i] \in Events
      BY DEF IInv, TypeOK
    <3>7. log[i].val \in Int /\ keys[q].val \in Int /\ want[p] \in Int
      BY <3>2, <3>6, ValuesInt DEF IInv, TypeOK, Events, States
    <3> QED BY <3>4, <3>5, <3>7
  <2> QED BY <2>1, <2>2
<1> QED BY <1>1, Invariance, ExactInvariance, PTL DEF Spec, BarrierHolds

-----------------------------------------------------------------------------
(* The streams *)


(* The operation a lease stream in state s has outstanding.                 *)
LeaseOwes(s) ==
  CASE s = "START_DONE" -> {"lease_start"}
    [] s = "WRITE_DONE" -> {"lease_write"}
    [] s = "READ_DONE"  -> {"lease_read"}
    [] OTHER            -> {}

(* Until CloseLease the stream works on one operation at a time.  After it  *)
(* the timer does not fire again, but a keep_alive that was past its test   *)
(* still begins a write, whose tag and that of WritesDone come in any order.*)
LeaseInv ==
  /\ id <=> caller \in {"running", "blocking", "waiting", "closing"}
  /\ \A op \in LeaseOps : ops[op] <= 1
  /\ id =>
       /\ lstate \notin {"WRITES_DONE_DONE", "INVALID"}
       /\ loop = "writing" => lstate = "READY_TO_WRITE"
       /\ \A op \in LeaseOps : ops[op] = In(op, LeaseOwes(lstate))
  /\ ~id /\ loop = "writing" => \A op \in LeaseOps \ {"lease_writes_done"} : ops[op] = 0
  /\ ~id /\ lstate = "WRITE_DONE" => loop # "writing" /\ ops["lease_read"] = 0

(* The operation a watch stream in state s has outstanding until it is      *)
(* cancelled.                                                               *)
WatchOwes(s) ==
  CASE s = "START_DONE"       -> {"watch_start"}
    [] s = "CREATE"           -> {"watch_write"}
    [] s = "WRITES_DONE_DONE" -> {"watch_writes_done"}
    [] s = "INVALID"          -> {}
    [] OTHER                  -> {"watch_read"}

(* The alarm is set once, after canceling.                                  *)
AlarmInv ==
  /\ ops["alarm"] <= 1
  /\ canceling => caller \in {"alarm", "joining", "draining", "destroyed"}
  /\ caller = "alarm" => canceling /\ ops["alarm"] = 0
  /\ ops["alarm"] = 1 => canceling

(* Either the alarm or the outstanding Read begins the cancel request.  In  *)
(* the latter case nothing is read any more; in the former the alarm is     *)
(* spent, and the stream ends without an operation left.                    *)
WatchInv ==
  /\ wstate # "CANCEL_DONE" =>
       \A op \in WatchOps \ {"alarm"} : ops[op] = In(op, WatchOwes(wstate))
  /\ wstate \in {"START_DONE", "CREATE", "CREATE_DONE"} => ~watching /\ ~canceling
  /\ wstate \in {"UPDATE", "CANCEL_DONE"} => watching
  /\ wstate \notin {"WRITES_DONE_DONE", "INVALID"} => response # "canceled"
  /\ wstate \in {"START_DONE", "CREATE", "CREATE_DONE", "UPDATE"} => ~cancelled
  /\ wstate = "CANCEL_DONE" =>
       /\ canceling
       /\ ops["watch_start"] = 0 /\ ops["watch_writes_done"] = 0
       /\ ops["watch_write"] <= 1 /\ ops["watch_read"] <= 1
       /\ ops["watch_read"] = 1 => ops["alarm"] = 0 /\ caller # "alarm"
  /\ wstate \in {"WRITES_DONE_DONE", "INVALID"} =>
       canceling /\ ops["alarm"] = 0 /\ caller # "alarm"

(* The threads end one after the other, the completion queue thread with    *)
(* nothing outstanding.                                                     *)
EndInv ==
  /\ shut <=> caller \in {"draining", "destroyed"}
  /\ shut => loop = "exited"
  /\ cq = "exited" => shut /\ Drained(ops)
  /\ caller = "destroyed" => cq = "exited"

StreamsInv == StreamsTypeOK /\ LeaseInv /\ AlarmInv /\ WatchInv /\ EndInv
-------------------------------------------------------------------------------
(* What a completed operation and the ones begun in its place leave         *)
(* outstanding.                                                             *)
LEMMA ContinueOps ==
  ASSUME StreamsTypeOK, NEW op \in Ops, Pending(op), NEW new, Continue(op, new)
  PROVE  /\ ops' \in [Ops -> Nat]
         /\ \A x \in Ops : ops'[x] = IF x = op THEN ops[x] - 1 + In(x, new) ELSE ops[x] + In(x, new)
         /\ aborted' \in BOOLEAN
<1>1. Without(op) \in [Ops -> Nat]
  BY DEF StreamsTypeOK, Pending, Without
<1>2. \A x \in Ops : Without(op)[x] = IF x = op THEN ops[x] - 1 ELSE ops[x]
  BY DEF StreamsTypeOK, Without
<1>3. ops' = [x \in Ops |-> Without(op)[x] + In(x, new)]
  BY DEF Continue, Begin
<1>4. aborted' \in BOOLEAN
  BY DEF Continue
<1> QED BY <1>1, <1>2, <1>3, <1>4 DEF In

(* An operation that a thread begins is outstanding once more.              *)
LEMMA BeginOps ==
  ASSUME StreamsTypeOK, NEW new, ops' = Begin(ops, new)
  PROVE  /\ ops' \in [Ops -> Nat]
         /\ \A x \in Ops : ops'[x] = ops[x] + In(x, new)
BY DEF StreamsTypeOK, Begin, In

(* Outstanding operations are counted by the type invariant's bound.        *)
LEMMA OpsBound ==
  ASSUME ops' \in [Ops -> Nat], \A x \in Ops : ops'[x] <= 1
  PROVE  ops' \in [Ops -> 0 .. 2]
<1>1. \A x \in Ops : ops'[x] \in 0 .. 2
  OBVIOUS
<1> QED BY <1>1

(* Membership of an operation counts as zero or one.                        *)
LEMMA InBounds ==
  ASSUME NEW x, NEW S
  PROVE  /\ In(x, S) \in {0, 1}
         /\ x \in S => In(x, S) = 1
         /\ x \notin S => In(x, S) = 0
BY DEF In

(* The invariant says of every operation that it is outstanding once.       *)
LEMMA AtMostOne == StreamsInv => OnePending
<1> SUFFICES ASSUME StreamsInv, NEW op \in Ops PROVE ops[op] <= 1
  BY DEF OnePending
<1>1. CASE op \in LeaseOps \/ op = "alarm"
  BY <1>1 DEF StreamsInv, LeaseInv, AlarmInv
<1>2. CASE op \in WatchOps \ {"alarm"}
  <2>1. CASE wstate = "CANCEL_DONE"
    BY <1>2, <2>1 DEF StreamsInv, WatchInv, WatchOps
  <2>2. CASE wstate # "CANCEL_DONE"
    BY <1>2, <2>2, InBounds DEF StreamsInv, WatchInv
  <2> QED BY <2>1, <2>2
<1> QED BY <1>1, <1>2 DEF Ops

(* The streams start with one operation each.                               *)
LEMMA InitStreams == StreamsInit => StreamsInv
<1> SUFFICES ASSUME StreamsInit PROVE StreamsInv
  OBVIOUS
<1>0. /\ ops = [op \in Ops |-> In(op, {"lease_start", "watch_start"})]
      /\ \A op \in Ops : ops[op] = In(op, {"lease_start", "watch_start"})
      /\ \A op \in Ops : ops[op] \in {0, 1}
  BY InBounds DEF StreamsInit
<1>1. StreamsTypeOK
  <2>1. ops \in [Ops -> 0 .. 2]
    BY <1>0
  <2>2. updates \in 0 .. MaxUpdates
    BY StreamsAssumption DEF StreamsAssumption, StreamsInit
  <2> QED BY <2>1, <2>2 DEF StreamsTypeOK, StreamsInit
<1>2. LeaseInv
  <2>1. \A op \in LeaseOps : op \in Ops /\ ops[op] = In(op, {"lease_start"})
    BY <1>0 DEF Ops, LeaseOps, In
  <2> QED BY <2>1, InBounds DEF LeaseInv, LeaseOwes, StreamsInit
<1>3. AlarmInv /\ WatchInv
  <2>1. \A op \in WatchOps : op \in Ops /\ ops[op] = In(op, {"watch_start"})
    BY <1>0 DEF Ops, WatchOps, In
  <2>2. "alarm" \in WatchOps /\ ops["alarm"] = 0
    BY <2>1 DEF WatchOps, In
  <2> QED BY <2>1, <2>2 DEF AlarmInv, WatchInv, WatchOwes, StreamsInit
<1>4. EndInv
  BY DEF EndInv, StreamsInit
<1> QED BY <1>1, <1>2, <1>3, <1>4 DEF StreamsInv
-------------------------------------------------------------------------------
(* A tag of the lease stream, in whatever state it finds it.                *)
LEMMA LeaseStep ==
  ASSUME StreamsInv, NEW op \in LeaseOps, LeaseProceed(op)
  PROVE  StreamsInv'
<1> DEFINE new == IF lstate = "WRITE_DONE" THEN {"lease_read"} ELSE {}
<1>0. /\ StreamsTypeOK /\ LeaseInv /\ AlarmInv /\ WatchInv /\ EndInv
      /\ op \in Ops /\ Pending(op)
      /\ UNCHANGED <<id, timer, loop, watchStreamVars, shut, cq>> /\ cq = "running"
  BY DEF StreamsInv, LeaseProceed, Ops
<1>t. \A x \in Ops : ops[x] \in Nat /\ ops[x] <= 1
  BY <1>0, AtMostOne DEF StreamsTypeOK, OnePending
<1>1. /\ ops' \in [Ops -> Nat]
      /\ \A x \in Ops : ops'[x] = IF x = op THEN ops[x] - 1 + In(x, new) ELSE ops[x] + In(x, new)
      /\ aborted' \in BOOLEAN
  <2>1. CASE lstate # "INVALID"
    <3>1. Continue(op, new)
      BY <2>1 DEF LeaseProceed, LeaseReady, LeaseWritten, LeaseWritesDone, LeaseNoCase, LeaseInvalid
    <3> QED BY <1>0, <3>1, ContinueOps
  <2>2. CASE lstate = "INVALID"
    <3>1. ops' = Without(op) /\ aborted' = TRUE
      BY <2>2 DEF LeaseProceed, LeaseReady, LeaseWritten, LeaseWritesDone, LeaseNoCase, LeaseInvalid
    <3> QED BY <1>0, <2>2, <3>1 DEF Without, In, StreamsTypeOK, Pending
  <2> QED BY <2>1, <2>2
<1>2. /\ lstate \in {"START_DONE", "READ_DONE"} => lstate' = "READY_TO_WRITE"
      /\ lstate = "WRITE_DONE" => lstate' = "READ_DONE"
      /\ lstate \in {"WRITES_DONE_DONE", "INVALID"} => lstate' = "INVALID"
      /\ lstate = "READY_TO_WRITE" => lstate' = lstate
      /\ caller' = caller \/ (caller = "waiting" /\ caller' = "closing")
  BY DEF LeaseProceed, LeaseReady, LeaseWritten, LeaseWritesDone, LeaseNoCase, LeaseInvalid, Notified
<1>3. \A x \in Ops : ops'[x] <= 1
  <2>1. CASE lstate # "WRITE_DONE"
    BY <1>t, <1>1, <2>1 DEF In
  <2>2. CASE lstate = "WRITE_DONE"
    <3>1. ops["lease_read"] = 0
      BY <1>0, <2>2 DEF LeaseInv, LeaseOwes, In, LeaseOps
    <3> QED BY <1>t, <1>1, <2>2, <3>1 DEF In
  <2> QED BY <2>1, <2>2
<1>4. StreamsTypeOK'
  <2>1. ops' \in [Ops -> 0 .. 2]
    BY <1>1, <1>3, OpsBound
  <2>2. lstate' \in {"START_DONE", "READY_TO_WRITE", "WRITE_DONE", "READ_DONE",
                     "WRITES_DONE_DONE", "INVALID"}
    BY <1>0, <1>2 DEF StreamsTypeOK
  <2>3. caller' \in {"running", "blocking", "waiting", "closing", "cancel", "alarm",
                   "joining", "draining", "destroyed"}
    BY <1>0, <1>2 DEF StreamsTypeOK
  <2>4. /\ aborted' \in BOOLEAN
        /\ UNCHANGED <<id, timer, loop, wstate, watching, canceling, response, updates,
                       cancelled, shut, cq>>
    BY <1>0, <1>1 DEF watchStreamVars
  <2> QED BY <1>0, <2>1, <2>2, <2>3, <2>4 DEF StreamsTypeOK
<1>5. \A x \in WatchOps : x \in Ops /\ ops'[x] = ops[x]
  <2>1. \A x \in WatchOps : x \in Ops /\ x # op /\ In(x, new) = 0
    BY DEF WatchOps, LeaseOps, Ops, In
  <2> QED BY <1>t, <1>1, <2>1
<1>6. LeaseInv'
  <2>0. \A x \in LeaseOps : x \in Ops
    BY DEF Ops
  <2>1. /\ id' <=> caller' \in {"running", "blocking", "waiting", "closing"}
        /\ \A x \in LeaseOps : ops'[x] <= 1
    BY <1>0, <1>2, <1>3, <2>0 DEF LeaseInv
  <2>2. ASSUME id PROVE  /\ lstate' \notin {"WRITES_DONE_DONE", "INVALID"}
                         /\ loop # "writing"
                         /\ \A x \in LeaseOps : ops'[x] = In(x, LeaseOwes(lstate'))
    <3>1. /\ op \in LeaseOwes(lstate)
          /\ \A x \in LeaseOps : ops[x] = In(x, LeaseOwes(lstate))
      BY <1>0, <2>2 DEF LeaseInv, Pending, In
    <3>2. /\ lstate # "READY_TO_WRITE" /\ lstate' \notin {"WRITES_DONE_DONE", "INVALID"}
          /\ loop # "writing"
      BY <1>0, <1>2, <2>2, <3>1 DEF LeaseInv, LeaseOwes, StreamsTypeOK
    <3>3. \A x \in LeaseOps : ops'[x] = In(x, new)
      <4> HIDE DEF new
      <4>1. LeaseOwes(lstate) = {op}
        BY <3>1 DEF LeaseOwes
      <4> QED BY <1>t, <1>1, <2>0, <3>1, <4>1, InBounds
    <3>4. LeaseOwes(lstate') = new
      BY <1>0, <1>2, <3>2, <2>2 DEF LeaseOwes, StreamsTypeOK, LeaseInv
    <3> QED BY <3>2, <3>3, <3>4
  <2>3. ASSUME ~id, loop = "writing" PROVE \A x \in LeaseOps \ {"lease_writes_done"} : ops'[x] = 0
    <3>1. /\ lstate # "WRITE_DONE"
          /\ \A x \in LeaseOps \ {"lease_writes_done"} : ops[x] = 0 /\ x # op
      BY <1>0, <2>3 DEF LeaseInv, Pending
    <3> QED BY <1>t, <1>1, <2>0, <3>1 DEF In
  <2>4. lstate' # "WRITE_DONE"
    BY <1>0, <1>2 DEF StreamsTypeOK
  <2> QED BY <1>0, <2>1, <2>2, <2>3, <2>4 DEF LeaseInv
<1>7. AlarmInv' /\ WatchInv'
  <2>1. ops'["alarm"] = ops["alarm"] /\ ops'["watch_start"] = ops["watch_start"]
        /\ ops'["watch_write"] = ops["watch_write"] /\ ops'["watch_read"] = ops["watch_read"]
        /\ ops'["watch_writes_done"] = ops["watch_writes_done"]
    BY <1>5 DEF WatchOps
  <2>2. /\ UNCHANGED <<wstate, watching, canceling, response, cancelled>>
        /\ caller' \in {"alarm", "joining", "draining", "destroyed"} <=>
             caller \in {"alarm", "joining", "draining", "destroyed"}
        /\ caller' = "alarm" <=> caller = "alarm"
    BY <1>0, <1>2 DEF watchStreamVars
  <2>3. AlarmInv'
    BY <1>0, <2>1, <2>2 DEF AlarmInv
  <2>4. WatchInv'
    BY <1>0, <1>5, <2>1, <2>2 DEF WatchInv
  <2> QED BY <2>3, <2>4
<1>8. EndInv'
  BY <1>0, <1>2 DEF EndInv
<1> QED BY <1>4, <1>6, <1>7, <1>8 DEF StreamsInv
-------------------------------------------------------------------------------
(* What the reads of the watch deliver.                                     *)
LEMMA GotType ==
  ASSUME StreamsTypeOK, NEW op \in Ops, Got(op)
  PROVE  /\ response' \in {"none", "created", "events", "canceled"}
         /\ updates' \in 0 .. MaxUpdates
         /\ response' = "canceled" => \/ response = "canceled"
                                      \/ /\ op = "watch_read" /\ wstate # "CREATE_DONE"
                                         /\ cancelled /\ ~Pending("watch_write")
<1>1. CASE op # "watch_read"
  BY <1>1 DEF Got, StreamsTypeOK
<1>2. CASE op = "watch_read"
  <2>1. PICK r \in Answers : /\ response' = r
                             /\ updates' = IF r = "events" THEN updates + 1 ELSE updates
    BY <1>2 DEF Got
  <2>2. /\ r \in {"created", "events", "canceled"}
        /\ r = "events" => updates < MaxUpdates
        /\ r = "canceled" => wstate # "CREATE_DONE" /\ cancelled /\ ~Pending("watch_write")
    BY DEF Answers
  <2>3. updates' \in 0 .. MaxUpdates
    BY <2>1, <2>2, StreamsAssumption DEF StreamsAssumption, StreamsTypeOK
  <2> QED BY <1>2, <2>1, <2>2, <2>3
<1> QED BY <1>1, <1>2

(* A tag of the watch stream leaves the lease alone.                        *)
LEMMA WatchLeavesLease ==
  ASSUME StreamsInv, NEW op \in WatchOps, NEW new \in SUBSET WatchOps, WatchProceed(op), Continue(op, new)
  PROVE  LeaseInv' /\ EndInv'
<1>1. /\ op \in Ops /\ StreamsTypeOK /\ Pending(op) /\ cq = "running"
      /\ UNCHANGED <<lstate, id, loop, caller, shut, cq>>
  BY DEF StreamsInv, Ops, WatchProceed, leaseVars
<1>2. \A x \in LeaseOps : x \in Ops /\ x # op /\ In(x, new) = 0
  BY DEF WatchOps, LeaseOps, Ops, In
<1>3. \A x \in LeaseOps : ops'[x] = ops[x]
  <2>1. \A x \in LeaseOps : ops'[x] = ops[x] + 0 /\ ops[x] \in Nat
    BY <1>1, <1>2, ContinueOps DEF StreamsTypeOK
  <2> QED BY <2>1
<1>4. ops'["lease_read"] = ops["lease_read"]
  BY <1>3 DEF LeaseOps
<1>5. LeaseInv'
  BY <1>1, <1>3, <1>4 DEF StreamsInv, LeaseInv
<1> QED BY <1>1, <1>5 DEF StreamsInv, EndInv

(* A tag of the watch stream, in whatever state it finds it.                *)
LEMMA WatchStreamStep ==
  ASSUME StreamsInv, NEW op \in WatchOps, WatchProceed(op)
  PROVE  StreamsInv'
<1>0. /\ StreamsTypeOK /\ AlarmInv /\ WatchInv /\ op \in Ops /\ Pending(op) /\ Got(op)
      /\ UNCHANGED <<leaseVars, loop, canceling, caller, shut, cq>>
  BY DEF StreamsInv, Ops, WatchProceed
<1>t. /\ \A x \in Ops : ops[x] \in Nat /\ ops[x] <= 1
      /\ ops["watch_start"] \in {0, 1} /\ ops["watch_write"] \in {0, 1} /\ ops["watch_read"] \in {0, 1}
      /\ ops["watch_writes_done"] \in {0, 1} /\ ops["alarm"] \in {0, 1}
      /\ ops[op] = 1
  <2>1. \A x \in Ops : ops[x] \in Nat /\ ops[x] <= 1
    BY <1>0, AtMostOne DEF StreamsTypeOK, OnePending
  <2> QED BY <1>0, <2>1 DEF Ops, WatchOps, Pending
<1>r. /\ response' \in {"none", "created", "events", "canceled"}
      /\ updates' \in 0 .. MaxUpdates
      /\ response' = "canceled" => \/ response = "canceled"
                                   \/ /\ op = "watch_read" /\ wstate # "CREATE_DONE"
                                      /\ cancelled /\ ~Pending("watch_write")
  BY <1>0, GotType
<1>1. ASSUME NEW new \in SUBSET WatchOps, Continue(op, new)
      PROVE  /\ ops' \in [Ops -> Nat] /\ aborted' \in BOOLEAN
             /\ \A x \in WatchOps : ops'[x] = IF x = op THEN In(x, new) ELSE ops[x] + In(x, new)
  <2>1. /\ ops' \in [Ops -> Nat] /\ aborted' \in BOOLEAN
        /\ \A x \in Ops : ops'[x] = IF x = op THEN ops[x] - 1 + In(x, new) ELSE ops[x] + In(x, new)
    BY <1>0, <1>1, ContinueOps
  <2>2. \A x \in WatchOps : x \in Ops
    BY DEF Ops
  <2> QED BY <1>t, <2>1, <2>2, InBounds
<1>2. ASSUME NEW new \in SUBSET WatchOps, Continue(op, new), AlarmInv', WatchInv',
             wstate' \in {"START_DONE", "CREATE", "CREATE_DONE", "UPDATE", "CANCEL_DONE",
                          "WRITES_DONE_DONE", "INVALID"},
             watching' \in BOOLEAN, cancelled' \in BOOLEAN
      PROVE  StreamsInv'
  <2>1. LeaseInv' /\ EndInv'
    BY <1>2, WatchLeavesLease
  <2>2. \A x \in Ops : ops'[x] <= 1
    <3>1. CASE wstate' = "CANCEL_DONE"
      BY <1>2, <2>1, <3>1 DEF LeaseInv, AlarmInv, WatchInv, Ops, WatchOps
    <3>2. CASE wstate' # "CANCEL_DONE"
      BY <1>2, <2>1, <3>2 DEF LeaseInv, AlarmInv, WatchInv, Ops, WatchOps, In
    <3> QED BY <3>1, <3>2
  <2>3. ops' \in [Ops -> 0 .. 2]
    BY <1>1, <1>2, <2>2, OpsBound
  <2>4. aborted' \in BOOLEAN /\ UNCHANGED <<lstate, id, timer, loop, canceling, caller, shut, cq>>
    BY <1>0, <1>1, <1>2 DEF leaseVars
  <2>5. StreamsTypeOK'
    BY <1>0, <1>2, <1>r, <2>3, <2>4 DEF StreamsTypeOK
  <2> QED BY <1>2, <2>1, <2>5 DEF StreamsInv
<1> USE <1>0, <1>t DEF WatchOps
<1>3. CASE WatchStarted(op)
  <2>1. Continue(op, {"watch_write"}) /\ {"watch_write"} \in SUBSET WatchOps
    BY <1>3 DEF WatchStarted
  <2>2. AlarmInv' /\ WatchInv'
    BY <1>1, <1>3, <1>r, <2>1 DEF WatchStarted, AlarmInv, WatchInv, WatchOwes, In
  <2> QED BY <1>2, <1>3, <2>1, <2>2 DEF WatchStarted, StreamsTypeOK
<1>4. CASE WatchCreate(op)
  <2>1. Continue(op, {"watch_read"}) /\ {"watch_read"} \in SUBSET WatchOps
    BY <1>4 DEF WatchCreate
  <2>2. AlarmInv' /\ WatchInv'
    BY <1>1, <1>4, <1>r, <2>1 DEF WatchCreate, AlarmInv, WatchInv, WatchOwes, In
  <2> QED BY <1>2, <1>4, <2>1, <2>2 DEF WatchCreate, StreamsTypeOK
<1>5. CASE WatchCreated(op)
  <2>1. Continue(op, {"watch_read"}) /\ {"watch_read"} \in SUBSET WatchOps
    BY <1>5 DEF WatchCreated
  <2>2. AlarmInv' /\ WatchInv'
    BY <1>1, <1>5, <1>r, <2>1 DEF WatchCreated, AlarmInv, WatchInv, WatchOwes, In
  <2> QED BY <1>2, <1>5, <2>1, <2>2 DEF WatchCreated, StreamsTypeOK
<1>6. CASE WatchUpdate(op)
  <2>1. Continue(op, {"watch_read"}) /\ {"watch_read"} \in SUBSET WatchOps
    BY <1>6 DEF WatchUpdate
  <2>2. AlarmInv' /\ WatchInv'
    BY <1>1, <1>6, <1>r, <2>1 DEF WatchUpdate, AlarmInv, WatchInv, WatchOwes, In
  <2> QED BY <1>2, <1>6, <2>1, <2>2 DEF WatchUpdate, StreamsTypeOK
<1>7. CASE WatchCancel(op)
  <2>1. Continue(op, {"watch_write"}) /\ {"watch_write"} \in SUBSET WatchOps
    BY <1>7 DEF WatchCancel
  <2>2. AlarmInv' /\ WatchInv'
    BY <1>1, <1>7, <1>r, <2>1 DEF WatchCancel, AlarmInv, WatchInv, WatchOwes, In
  <2> QED BY <1>2, <1>7, <2>1, <2>2 DEF WatchCancel, StreamsTypeOK
<1>8. CASE WatchCanceled(op)
  <2>1. CASE response' = "canceled"
    <3>1. Continue(op, {"watch_writes_done"}) /\ {"watch_writes_done"} \in SUBSET WatchOps
      BY <1>8, <2>1 DEF WatchCanceled
    <3>2. op = "watch_read" /\ ops["watch_write"] = 0
      BY <1>8, <1>r, <2>1 DEF WatchCanceled, WatchInv, Pending
    <3>3. AlarmInv' /\ WatchInv'
      BY <1>1, <1>8, <2>1, <3>1, <3>2 DEF WatchCanceled, AlarmInv, WatchInv, WatchOwes, In
    <3> QED BY <1>2, <1>8, <2>1, <3>1, <3>3 DEF WatchCanceled, StreamsTypeOK
  <2>2. CASE response' # "canceled"
    <3>1. Continue(op, {}) /\ {} \in SUBSET WatchOps
      BY <1>8, <2>2 DEF WatchCanceled
    <3>2. \A x \in WatchOps : ops'[x] = IF x = op THEN 0 ELSE ops[x]
      <4>1. \A x \in WatchOps : ops'[x] = IF x = op THEN 0 ELSE ops[x] + 0
        BY <1>1, <3>1 DEF In
      <4> QED BY <4>1 DEF Ops
    <3>3. AlarmInv' /\ WatchInv'
      <4>1. wstate = "CANCEL_DONE" /\ UNCHANGED <<wstate, watching, cancelled>>
        BY <1>8, <2>2 DEF WatchCanceled
      <4>2. /\ ops'["watch_start"] = 0 /\ ops'["watch_writes_done"] = 0
            /\ ops'["watch_write"] <= 1 /\ ops'["watch_read"] <= 1 /\ ops'["alarm"] <= 1
            /\ ops'["watch_read"] = 1 => ops["watch_read"] = 1
            /\ ops'["alarm"] = 1 => ops["alarm"] = 1
            /\ ops["alarm"] = 0 => ops'["alarm"] = 0
        BY <3>2, <4>1 DEF WatchInv
      <4> QED BY <2>2, <4>1, <4>2 DEF AlarmInv, WatchInv
    <3> QED BY <1>2, <1>8, <2>2, <3>1, <3>3 DEF WatchCanceled, StreamsTypeOK
  <2> QED BY <2>1, <2>2
<1>9. CASE WatchWritesDone(op)
  <2>1. Continue(op, {}) /\ {} \in SUBSET WatchOps
    BY <1>9 DEF WatchWritesDone
  <2>2. AlarmInv' /\ WatchInv'
    BY <1>1, <1>9, <2>1 DEF WatchWritesDone, AlarmInv, WatchInv, WatchOwes, In
  <2> QED BY <1>2, <1>9, <2>1, <2>2 DEF WatchWritesDone, StreamsTypeOK
<1>10. ~WatchInvalid(op)
  BY DEF WatchInvalid, WatchInv, WatchOwes, In
<1> QED BY <1>3, <1>4, <1>5, <1>6, <1>7, <1>8, <1>9, <1>10 DEF WatchProceed
-------------------------------------------------------------------------------
(* The uv loop thread.                                                      *)
LEMMA LoopSteps == StreamsInv /\ LoopStep => StreamsInv'
<1> SUFFICES ASSUME StreamsInv, LoopStep PROVE StreamsInv'
  OBVIOUS
<1> USE DEF StreamsInv
<1>1. CASE KeepAlive
  <2>1. /\ StreamsTypeOK' /\ AlarmInv' /\ WatchInv' /\ EndInv'
    BY <1>1 DEF KeepAlive, StreamsTypeOK, AlarmInv, WatchInv, EndInv, Drained, leaseVars, watchStreamVars
  <2>2. LeaseInv'
    BY <1>1 DEF KeepAlive, LeaseInv, leaseVars
  <2> QED BY <2>1, <2>2
<1>2. CASE KeepAliveWrite
  <2>0. /\ loop = "writing" /\ loop' = "idle" /\ lstate' = "WRITE_DONE"
        /\ ops' = Begin(ops, {"lease_write"})
        /\ UNCHANGED <<id, timer, wstate, watching, canceling, response, updates, cancelled,
                       caller, shut, cq, aborted>>
    BY <1>2 DEF KeepAliveWrite, watchStreamVars
  <2>1. /\ ops' \in [Ops -> Nat]
        /\ \A x \in Ops : ops'[x] = ops[x] + In(x, {"lease_write"})
    BY <2>0, BeginOps
  <2>2. \A x \in Ops : ops[x] \in Nat /\ ops[x] <= 1
    BY AtMostOne DEF StreamsTypeOK, OnePending
  <2>3. ops["lease_write"] = 0 /\ ops["lease_start"] = 0 /\ ops["lease_read"] = 0
    BY <2>0 DEF LeaseInv, LeaseOwes, In, LeaseOps
  <2>4. /\ ops'["lease_write"] = 1
        /\ \A x \in Ops \ {"lease_write"} : ops'[x] = ops[x]
    <3>1. "lease_write" \in Ops
      BY DEF Ops, LeaseOps
    <3> QED BY <2>1, <2>2, <2>3, <3>1 DEF In
  <2>5. \A x \in Ops : ops'[x] <= 1
    BY <2>2, <2>4
  <2>6. ops' \in [Ops -> 0 .. 2]
    BY <2>1, <2>5, OpsBound
  <2>7. StreamsTypeOK'
    BY <2>0, <2>6 DEF StreamsTypeOK
  <2>8. LeaseInv'
    <3>1. \A x \in LeaseOps : x \in Ops /\ ops'[x] <= 1
      BY <2>5 DEF Ops
    <3>2. id => \A x \in LeaseOps : ops'[x] = In(x, {"lease_write"})
      BY <2>0, <2>4, <3>1 DEF LeaseInv, LeaseOwes, In
    <3>3. "lease_read" \in Ops \ {"lease_write"}
      BY DEF Ops, LeaseOps
    <3> QED BY <2>0, <2>3, <2>4, <3>1, <3>2, <3>3 DEF LeaseInv, LeaseOwes
  <2>9. AlarmInv' /\ WatchInv'
    <3>1. \A x \in WatchOps : ops'[x] = ops[x]
      BY <2>4 DEF Ops, WatchOps
    <3>2. /\ ops'["alarm"] = ops["alarm"] /\ ops'["watch_start"] = ops["watch_start"]
          /\ ops'["watch_write"] = ops["watch_write"] /\ ops'["watch_read"] = ops["watch_read"]
          /\ ops'["watch_writes_done"] = ops["watch_writes_done"]
      BY <3>1 DEF WatchOps
    <3> QED BY <2>0, <3>1, <3>2 DEF AlarmInv, WatchInv
  <2>10. EndInv'
    BY <2>0 DEF EndInv
  <2> QED BY <2>7, <2>8, <2>9, <2>10
<1>3. CASE LoopExit
  <2>1. /\ StreamsTypeOK' /\ AlarmInv' /\ WatchInv' /\ EndInv'
    BY <1>3 DEF LoopExit, StreamsTypeOK, AlarmInv, WatchInv, EndInv, Drained, leaseVars, watchStreamVars
  <2>2. LeaseInv'
    BY <1>3 DEF LoopExit, LeaseInv, leaseVars
  <2> QED BY <2>1, <2>2
<1> QED BY <1>1, <1>2, <1>3 DEF LoopStep

(* The steps of sync_t::destroy that begin no operation.                    *)
LEMMA QuietSteps ==
  ASSUME StreamsInv, Revoke \/ Block \/ CancelWatch \/ JoinLoop \/ JoinCq \/ CqExit
  PROVE  StreamsInv'
<1> USE DEF StreamsInv, MainStep
<1>1. CASE Revoke
  <2>1. StreamsTypeOK' /\ EndInv'
    BY <1>1 DEF Revoke, TimerRuns, StreamsTypeOK, EndInv, Drained, watchStreamVars
  <2>2. LeaseInv' /\ AlarmInv' /\ WatchInv'
    BY <1>1 DEF Revoke, TimerRuns, LeaseInv, AlarmInv, WatchInv, watchStreamVars
  <2> QED BY <2>1, <2>2
<1>2. CASE Block
  <2>1. StreamsTypeOK' /\ EndInv'
    BY <1>2 DEF Block, StreamsTypeOK, EndInv, Drained, leaseVars, watchStreamVars
  <2>2. LeaseInv' /\ AlarmInv' /\ WatchInv'
    BY <1>2 DEF Block, LeaseInv, AlarmInv, WatchInv, leaseVars, watchStreamVars
  <2> QED BY <2>1, <2>2
<1>3. CASE CancelWatch
  <2>1. StreamsTypeOK' /\ EndInv'
    BY <1>3 DEF CancelWatch, StreamsTypeOK, EndInv, Drained, leaseVars
  <2>2. LeaseInv'
    BY <1>3 DEF CancelWatch, LeaseInv, leaseVars
  <2>3. ~canceling /\ ops["alarm"] = 0
    <3>1. ops["alarm"] \in 0 .. 2
      BY DEF StreamsTypeOK, Ops, WatchOps
    <3> QED BY <1>3, <3>1 DEF CancelWatch, AlarmInv
  <2>4. AlarmInv' /\ WatchInv'
    BY <1>3, <2>3 DEF CancelWatch, AlarmInv, WatchInv, WatchOwes, StreamsTypeOK
  <2> QED BY <2>1, <2>2, <2>4
<1>4. CASE JoinLoop
  <2>1. StreamsTypeOK'
    BY <1>4 DEF JoinLoop, StreamsTypeOK, leaseVars, watchStreamVars
  <2>2. EndInv'
    BY <1>4 DEF JoinLoop, StreamsTypeOK, EndInv
  <2>3. LeaseInv' /\ AlarmInv' /\ WatchInv'
    BY <1>4 DEF JoinLoop, LeaseInv, AlarmInv, WatchInv, leaseVars, watchStreamVars
  <2> QED BY <2>1, <2>2, <2>3
<1>5. CASE JoinCq
  <2>1. StreamsTypeOK'
    BY <1>5 DEF JoinCq, StreamsTypeOK, leaseVars, watchStreamVars
  <2>2. EndInv'
    BY <1>5 DEF JoinCq, StreamsTypeOK, EndInv, Drained
  <2>3. LeaseInv' /\ AlarmInv' /\ WatchInv'
    BY <1>5 DEF JoinCq, LeaseInv, AlarmInv, WatchInv, leaseVars, watchStreamVars
  <2> QED BY <2>1, <2>2, <2>3
<1>6. CASE CqExit
  <2>1. StreamsTypeOK'
    BY <1>6 DEF CqExit, StreamsTypeOK, leaseVars, watchStreamVars
  <2>2. EndInv'
    BY <1>6 DEF CqExit, EndInv, Drained
  <2>3. LeaseInv' /\ AlarmInv' /\ WatchInv'
    BY <1>6 DEF CqExit, LeaseInv, AlarmInv, WatchInv, leaseVars, watchStreamVars
  <2> QED BY <2>1, <2>2, <2>3
<1> QED BY <1>1, <1>2, <1>3, <1>4, <1>5, <1>6

(* The lease stream is closed: its WritesDone is the first.                 *)
LEMMA CloseStep ==
  ASSUME StreamsInv, CloseLease
  PROVE  StreamsInv'
<1> USE DEF StreamsInv
<1>0. /\ caller = "closing" /\ caller' = "cancel" /\ lstate' = "WRITES_DONE_DONE"
      /\ id = TRUE /\ id' = FALSE /\ timer' = FALSE
      /\ ops' = Begin(ops, {"lease_writes_done"})
      /\ UNCHANGED <<loop, wstate, watching, canceling, response, updates, cancelled, shut, cq, aborted>>
  BY DEF CloseLease, MainStep, watchStreamVars, LeaseInv, StreamsTypeOK
<1>1. /\ ops' \in [Ops -> Nat]
      /\ \A x \in Ops : ops'[x] = ops[x] + In(x, {"lease_writes_done"})
  BY <1>0, BeginOps
<1>2. \A x \in Ops : ops[x] \in Nat /\ ops[x] <= 1
  BY AtMostOne DEF StreamsTypeOK, OnePending
<1>3. "lease_writes_done" \in LeaseOps /\ "lease_writes_done" \in Ops /\ ops["lease_writes_done"] = 0
  BY <1>0 DEF LeaseInv, LeaseOwes, In, LeaseOps, Ops
<1>4. /\ ops'["lease_writes_done"] = 1
      /\ \A x \in Ops \ {"lease_writes_done"} : ops'[x] = ops[x]
  BY <1>1, <1>2, <1>3 DEF In
<1>5. \A x \in Ops : ops'[x] <= 1
  BY <1>2, <1>4
<1>6. ops' \in [Ops -> 0 .. 2]
  BY <1>1, <1>5, OpsBound
<1>7. StreamsTypeOK'
  <2>1. id' \in BOOLEAN /\ timer' \in BOOLEAN
    BY <1>0
  <2>2. lstate' \in {"START_DONE", "READY_TO_WRITE", "WRITE_DONE", "READ_DONE",
                     "WRITES_DONE_DONE", "INVALID"}
    BY <1>0
  <2>3. caller' \in {"running", "blocking", "waiting", "closing", "cancel", "alarm",
                   "joining", "draining", "destroyed"}
    BY <1>0
  <2> QED BY <1>0, <1>6, <2>1, <2>2, <2>3 DEF StreamsTypeOK
<1>8. LeaseInv'
  <2>1. \A x \in LeaseOps : x \in Ops /\ ops'[x] <= 1
    BY <1>5 DEF Ops
  <2>2. loop = "writing" => \A x \in LeaseOps \ {"lease_writes_done"} : ops'[x] = 0
    BY <1>0, <1>4, <2>1 DEF LeaseInv, LeaseOwes, In
  <2> QED BY <1>0, <2>1, <2>2 DEF LeaseInv
<1>9. AlarmInv' /\ WatchInv'
  <2>1. \A x \in WatchOps : ops'[x] = ops[x]
    BY <1>4 DEF Ops, WatchOps
  <2>2. /\ ops'["alarm"] = ops["alarm"] /\ ops'["watch_start"] = ops["watch_start"]
        /\ ops'["watch_write"] = ops["watch_write"] /\ ops'["watch_read"] = ops["watch_read"]
        /\ ops'["watch_writes_done"] = ops["watch_writes_done"]
    BY <2>1 DEF WatchOps
  <2> QED BY <1>0, <2>1, <2>2 DEF AlarmInv, WatchInv
<1>10. EndInv'
  BY <1>0 DEF EndInv
<1> QED BY <1>7, <1>8, <1>9, <1>10

(* The alarm is set, once.                                                  *)
LEMMA AlarmStep ==
  ASSUME StreamsInv, SetAlarm
  PROVE  StreamsInv'
<1> USE DEF StreamsInv
<1>0. /\ caller = "alarm" /\ caller' = "joining"
      /\ ops' = Begin(ops, {"alarm"})
      /\ UNCHANGED <<lstate, id, timer, loop, wstate, watching, canceling, response, updates,
                     cancelled, shut, cq, aborted>>
  BY DEF SetAlarm, MainStep, leaseVars, watchStreamVars
<1>1. /\ ops' \in [Ops -> Nat]
      /\ \A x \in Ops : ops'[x] = ops[x] + In(x, {"alarm"})
  BY <1>0, BeginOps
<1>2. \A x \in Ops : ops[x] \in Nat /\ ops[x] <= 1
  BY AtMostOne DEF StreamsTypeOK, OnePending
<1>3. "alarm" \in Ops /\ ops["alarm"] = 0 /\ canceling
  BY <1>0 DEF AlarmInv, Ops, WatchOps
<1>4. /\ ops'["alarm"] = 1
      /\ \A x \in Ops \ {"alarm"} : ops'[x] = ops[x]
  BY <1>1, <1>2, <1>3 DEF In
<1>5. \A x \in Ops : ops'[x] <= 1
  BY <1>2, <1>4
<1>6. ops' \in [Ops -> 0 .. 2]
  BY <1>1, <1>5, OpsBound
<1>7. StreamsTypeOK'
  BY <1>0, <1>6 DEF StreamsTypeOK
<1>8. LeaseInv'
  <2>1. \A x \in LeaseOps : ops'[x] = ops[x]
    BY <1>4 DEF Ops, LeaseOps
  <2>2. ops'["lease_read"] = ops["lease_read"]
    BY <2>1 DEF LeaseOps
  <2> QED BY <1>0, <2>1, <2>2 DEF LeaseInv
<1>9. AlarmInv' /\ WatchInv'
  <2>1. \A x \in WatchOps \ {"alarm"} : ops'[x] = ops[x]
    BY <1>4 DEF Ops, WatchOps
  <2>2. /\ ops'["watch_start"] = ops["watch_start"]
        /\ ops'["watch_write"] = ops["watch_write"] /\ ops'["watch_read"] = ops["watch_read"]
        /\ ops'["watch_writes_done"] = ops["watch_writes_done"]
    BY <2>1 DEF WatchOps
  <2> QED BY <1>0, <1>3, <1>4, <2>1, <2>2 DEF AlarmInv, WatchInv
<1>10. EndInv'
  BY <1>0 DEF EndInv
<1> QED BY <1>7, <1>8, <1>9, <1>10

(* Every step preserves the invariant.                                      *)
LEMMA NextStreams == StreamsInv /\ [StreamsNext]_streamsVars => StreamsInv'
<1> SUFFICES ASSUME StreamsInv, [StreamsNext]_streamsVars PROVE StreamsInv'
  OBVIOUS
<1>1. CASE UNCHANGED streamsVars
  BY <1>1 DEF streamsVars, leaseVars, watchStreamVars, StreamsInv, StreamsTypeOK, LeaseInv, AlarmInv, WatchInv, EndInv, Drained
<1>2. CASE Ended
  BY <1>1, <1>2 DEF Ended
<1> QED BY <1>1, <1>2, LeaseStep, WatchStreamStep, LoopSteps, QuietSteps, CloseStep, AlarmStep
        DEF StreamsNext, DestroyStep

LEMMA StreamsInvariance == StreamsSpec => []StreamsInv
BY InitStreams, NextStreams, PTL DEF StreamsSpec

(* In every interleaving of the three threads the streams keep to the rules *)
(* of gRPC: no kind of operation is outstanding twice, and a watch in its   *)
(* invalid state gets no tag (Watch.cc:81), although both the alarm and the *)
(* outstanding Read may begin the cancel request.                           *)
THEOREM StreamsOrderly == StreamsSpec => []Orderly
<1>1. StreamsInv => WatchEndsClean
  BY DEF StreamsInv, AlarmInv, WatchInv, WatchOwes, WatchEndsClean, In, Pending
<1>2. StreamsInv => Orderly
  BY <1>1, AtMostOne DEF StreamsInv, Orderly
<1> QED BY <1>2, StreamsInvariance, PTL

(* sync_t::destroy frees the streams when no operation with their address   *)
(* as tag is outstanding and both threads have ended.                       *)
THEOREM NothingDangles == StreamsSpec => []SafeToDelete
<1>1. StreamsInv => SafeToDelete
  BY DEF StreamsInv, EndInv, Drained, SafeToDelete, Pending
<1> QED BY <1>1, StreamsInvariance, PTL
===============================================================================
