-------------------------- MODULE CommsLifecycleProofs --------------------------
(***************************************************************************)
(* Safety of start and shutdown for any number of reader and writer threads*)
(* and requests, with a failing BuildAndStart and a spurious wake-up.      *)
(***************************************************************************)
EXTENDS CommsLifecycle, FiniteSetTheorems, SequenceTheorems, TLAPS

StopPhase == {"stop", "stopcq", "stopwait", "join", "shutdown", "exit"}

(* comms_start creates every thread once, in its order.                     *)
StartInv ==
  /\ pc[Main] = "start" =>
       \A j \in 1 .. Len(StartOrder) : pc[StartOrder[j]] = "none" <=> j >= idx[Main]
  /\ pc[Main] # "start" => Comms \in started /\ \A w \in Writers : pc[w] # "none"

(* comms_shutdown has joined every thread before the one it works on.       *)
StopInv ==
  /\ pc[Main] \in {"stop", "stopcq", "stopwait", "join"} =>
       \A j \in 1 .. Len(StopOrder) : j < idx[Main] => pc[StopOrder[j]] = "exit"
  /\ pc[Main] \in {"stopcq", "stopwait", "join"} => Stopping
  /\ pc[Main] = "stopcq" => Target = Receiver /\ server = "down"
  /\ pc[Main] \in {"shutdown", "exit"} => \A t \in Workers : pc[t] = "exit"
  /\ pc[Main] = "exit" => pc[Aux] = "exit"
  /\ stop # {} \/ server = "down" => pc[Main] \in StopPhase
  /\ server = "down" => \A w \in Writers : pc[w] = "exit"
  /\ \A r \in Readers : r \in stop => pc[Receiver] = "exit"

(* One CallData object asks for the next request while the server runs, from*)
(* the first request on.                                                    *)
CallInv ==
  /\ server = "none" => calls.pending = 0 /\ calls.ready = 0 /\ calls.finishing = 0
  /\ calls.pending + calls.ready <= 1
  /\ calls.ready + calls.finishing <= handled
  /\ server = "up" /\ pc[Receiver] = "serve" => calls.pending + calls.ready = 1
  /\ pc[Receiver] \in {"announce", "request"} =>
       calls.pending = 0 /\ calls.ready = 0 /\ calls.finishing = 0
  /\ cqShut => server = "down" /\ calls.ready = 0
  /\ Receiver \in stop => server = "down"
  /\ pc[Receiver] \in {"none", "begin"} /\ ~crashed => server = "none"

(* A thread that was woken by its condition variable finds the flag set, so *)
(* that a writer works only when the server was built, or could not be, and *)
(* comms_wait_for_start goes on only when the writer has started.           *)
WakeInv ==
  /\ Receiver \in started => server # "none"
  /\ pc[Receiver] \in {"announce", "request", "serve"} => server # "none"
  /\ pc[Receiver] \in {"close", "exit"} => "bind" \in met \/ cqShut
  /\ Receiver \in stopped => pc[Receiver] = "exit"
  /\ \A w \in Writers : w \in started => pc[w] \in {"work", "close", "exit"}
  /\ "spurious" \notin met =>
       /\ \A w \in Writers :
            /\ pc[w] = "announce" => \/ server # "none" \/ Receiver \in stopped
                                     \/ asleep[w] = <<"started", Receiver>>
            /\ pc[w] \in {"work", "close", "exit"} => server # "none" \/ Receiver \in stopped
       /\ pc[Main] = "await" =>
            /\ seen[Main] = NWriters
            /\ \A i \in 1 .. NWriters : i < idx[Main] =>
                 Writer(i) \in started \/ asleep[Main] = <<"started", Writer(i)>>
       /\ pc[Main] \in {"awaited", "up"} => Writers \subseteq started

IInv == TypeOK /\ StartInv /\ StopInv /\ CallInv /\ WakeInv
-------------------------------------------------------------------------------
(* The threads and the orders in which they are started and stopped.        *)

(* Threads of different kinds are different.                                *)
LEMMA Kinds ==
  /\ Main \notin Workers /\ Aux \notin Workers /\ Main # Aux /\ Main # Comms /\ Aux # Comms
  /\ Comms \notin Workers
  /\ Receiver \notin Readers \cup Writers
  /\ Readers \cap Writers = {}
  /\ Main \in Threads /\ Aux \in Threads /\ Receiver \in Workers /\ Workers \subseteq Threads
  /\ Readers \subseteq Workers /\ Writers \subseteq Workers
  /\ \A i \in Nat : Writer(i) # Receiver /\ Reader(i) # Receiver
  /\ \A i, j \in Nat : Writer(i) # Reader(j)
  /\ \A i, j \in Nat : (Writer(i) = Writer(j) => i = j) /\ (Reader(i) = Reader(j) => i = j)
BY DEF Main, Aux, Comms, Receiver, Readers, Writers, Workers, Threads, Reader, Writer

(* A sequence of three parts, the second of one element.                    *)
LEMMA ThreeParts ==
  ASSUME NEW T, NEW f \in Seq(T), NEW x \in T, NEW g \in Seq(T), NEW s, s = f \o <<x>> \o g
  PROVE  /\ s \in Seq(T)
         /\ Len(s) = Len(f) + 1 + Len(g)
         /\ \A i \in 1 .. Len(f) : s[i] = f[i]
         /\ s[Len(f) + 1] = x
         /\ \A i \in 1 .. Len(g) : s[Len(f) + 1 + i] = g[i]
<1> DEFINE q == f \o <<x>>
<1>1. /\ q \in Seq(T) /\ Len(q) = Len(f) + 1
      /\ \A i \in 1 .. Len(f) : q[i] = f[i]
      /\ q[Len(f) + 1] = x
      /\ Len(f) \in Nat /\ Len(g) \in Nat
  OBVIOUS
<1>0. s = q \o g
  OBVIOUS
<1> HIDE DEF q
<1>2. /\ s \in Seq(T) /\ Len(s) = Len(q) + Len(g)
      /\ \A i \in 1 .. Len(q) + Len(g) : s[i] = IF i <= Len(q) THEN q[i] ELSE g[i - Len(q)]
  BY <1>0, <1>1, ConcatProperties
<1>3. \A i \in 1 .. Len(f) + 1 : s[i] = q[i]
  BY <1>1, <1>2
<1>4. ASSUME NEW i \in 1 .. Len(g) PROVE s[Len(f) + 1 + i] = g[i]
  BY <1>1, <1>2, SMTT(30)
<1>5. s \in Seq(T) /\ Len(s) = Len(f) + 1 + Len(g)
  BY <1>1, <1>2
<1>6. \A i \in 1 .. Len(f) : s[i] = f[i]
  BY <1>1, <1>3
<1>7. s[Len(f) + 1] = x
  BY <1>1, <1>3
<1> QED BY <1>4, <1>5, <1>6, <1>7

(* What comms_start starts, in order.                                       *)
LEMMA StartOrderIs ==
  /\ StartOrder \in Seq(Workers)
  /\ Len(StartOrder) = NReaders + 1 + NWriters
  /\ \A i \in 1 .. NReaders : StartOrder[i] = Reader(i)
  /\ StartOrder[NReaders + 1] = Receiver
  /\ \A i \in 1 .. NWriters : StartOrder[NReaders + 1 + i] = Writer(i)
<1> DEFINE f == [i \in 1 .. NReaders |-> Reader(i)]
           g == [i \in 1 .. NWriters |-> Writer(i)]
<1>1. NReaders \in Nat /\ NWriters \in Nat
  BY LifecycleAssumption DEF LifecycleAssumption
<1>2. f \in Seq(Workers) /\ Len(f) = NReaders /\ g \in Seq(Workers) /\ Len(g) = NWriters
  BY <1>1 DEF Workers, Readers, Writers
<1>3. /\ \A i \in 1 .. NReaders : f[i] = Reader(i)
      /\ \A i \in 1 .. NWriters : g[i] = Writer(i)
  OBVIOUS
<1>4. StartOrder = f \o <<Receiver>> \o g
  BY DEF StartOrder
<1> HIDE DEF f, g
<1>5. Receiver \in Workers
  BY DEF Workers
<1>6. /\ StartOrder \in Seq(Workers)
      /\ Len(StartOrder) = Len(f) + 1 + Len(g)
      /\ \A i \in 1 .. Len(f) : StartOrder[i] = f[i]
      /\ StartOrder[Len(f) + 1] = Receiver
      /\ \A i \in 1 .. Len(g) : StartOrder[Len(f) + 1 + i] = g[i]
  <2>1. f \in Seq(Workers) /\ g \in Seq(Workers)
    BY <1>2
  <2> QED BY <1>4, <1>5, <2>1, ThreeParts
<1>7. Len(StartOrder) = NReaders + 1 + NWriters
  BY <1>1, <1>2, <1>6
<1> QED BY <1>2, <1>3, <1>6, <1>7

(* What comms_shutdown stops, in order.                                     *)
LEMMA StopOrderIs ==
  /\ StopOrder \in Seq(Workers)
  /\ Len(StopOrder) = NReaders + 1 + NWriters
  /\ \A i \in 1 .. NWriters : StopOrder[i] = Writer(i)
  /\ StopOrder[NWriters + 1] = Receiver
  /\ \A i \in 1 .. NReaders : StopOrder[NWriters + 1 + i] = Reader(i)
<1> DEFINE f == [i \in 1 .. NWriters |-> Writer(i)]
           g == [i \in 1 .. NReaders |-> Reader(i)]
<1>1. NReaders \in Nat /\ NWriters \in Nat
  BY LifecycleAssumption DEF LifecycleAssumption
<1>2. f \in Seq(Workers) /\ Len(f) = NWriters /\ g \in Seq(Workers) /\ Len(g) = NReaders
  BY <1>1 DEF Workers, Readers, Writers
<1>3. /\ \A i \in 1 .. NWriters : f[i] = Writer(i)
      /\ \A i \in 1 .. NReaders : g[i] = Reader(i)
  OBVIOUS
<1>4. StopOrder = f \o <<Receiver>> \o g
  BY DEF StopOrder
<1> HIDE DEF f, g
<1>5. Receiver \in Workers
  BY DEF Workers
<1>6. /\ StopOrder \in Seq(Workers)
      /\ Len(StopOrder) = Len(f) + 1 + Len(g)
      /\ \A i \in 1 .. Len(f) : StopOrder[i] = f[i]
      /\ StopOrder[Len(f) + 1] = Receiver
      /\ \A i \in 1 .. Len(g) : StopOrder[Len(f) + 1 + i] = g[i]
  <2>1. f \in Seq(Workers) /\ g \in Seq(Workers)
    BY <1>2
  <2> QED BY <1>4, <1>5, <2>1, ThreeParts
<1>7. Len(StopOrder) = NReaders + 1 + NWriters
  BY <1>1, <1>2, <1>6
<1> QED BY <1>2, <1>3, <1>6, <1>7

(* comms_start names no thread twice.                                       *)
LEMMA StartOrderOnce ==
  \A i, j \in 1 .. Len(StartOrder) : StartOrder[i] = StartOrder[j] => i = j
<1> SUFFICES ASSUME NEW i \in 1 .. Len(StartOrder), NEW j \in 1 .. Len(StartOrder),
                    StartOrder[i] = StartOrder[j]
             PROVE  i = j
  OBVIOUS
<1>0. NReaders \in Nat /\ NWriters \in Nat
  BY LifecycleAssumption DEF LifecycleAssumption
<1>1. ASSUME NEW k \in 1 .. Len(StartOrder)
      PROVE  \/ k \in 1 .. NReaders /\ StartOrder[k] = Reader(k)
             \/ k = NReaders + 1 /\ StartOrder[k] = Receiver
             \/ \E m \in 1 .. NWriters : k = NReaders + 1 + m /\ StartOrder[k] = Writer(m)
  <2>1. CASE k > NReaders + 1
    <3>1. k - (NReaders + 1) \in 1 .. NWriters /\ k = NReaders + 1 + (k - (NReaders + 1))
      BY <1>0, <2>1, StartOrderIs
    <3>2. StartOrder[NReaders + 1 + (k - (NReaders + 1))] = Writer(k - (NReaders + 1))
      BY <3>1, StartOrderIs
    <3> QED BY <3>1, <3>2
  <2>2. CASE k <= NReaders + 1
    BY <1>0, <2>2, StartOrderIs
  <2> QED BY <1>0, <2>1, <2>2, StartOrderIs
<1>2. (1 .. NReaders) \subseteq Nat /\ (1 .. NWriters) \subseteq Nat
  BY <1>0
<1> QED BY <1>1, <1>2, Kinds

(* There are as many writers as writer_thread_count says.                   *)
LEMMA WriterCount ==
  /\ IsFiniteSet(Writers) /\ Cardinality(Writers) = NWriters
  /\ \A S \in SUBSET Writers : Cardinality(S) \in 0 .. NWriters
<1> DEFINE f == [i \in 1 .. NWriters |-> Writer(i)]
<1>0. NWriters \in Nat /\ (1 .. NWriters) \subseteq Nat
  BY LifecycleAssumption DEF LifecycleAssumption
<1>1. IsFiniteSet(1 .. NWriters) /\ Cardinality(1 .. NWriters) = NWriters
  BY <1>0, FS_Interval
<1>2. f \in Surjection(1 .. NWriters, Writers)
  BY DEF Surjection, Writers
<1>3. f \in Injection(1 .. NWriters, Writers)
  BY <1>0, Kinds DEF Injection, IsInjective, Writers
<1>4. IsFiniteSet(Writers) /\ Cardinality(Writers) = NWriters
  BY <1>1, <1>2, <1>3, FS_Surjection
<1> QED BY <1>0, <1>4, FS_Subset, FS_CardinalityType

(* The counts are numbers, and both orders have all threads.                *)
LEMMA Sizes ==
  /\ NReaders \in Nat /\ NWriters \in Nat /\ MaxCalls \in Nat
  /\ Len(StartOrder) = NReaders + 1 + NWriters
  /\ Len(StopOrder) = NReaders + 1 + NWriters
BY LifecycleAssumption, StartOrderIs, StopOrderIs DEF LifecycleAssumption

(* comms_shutdown stops every thread.                                       *)
LEMMA StopOrderAll == \A t \in Workers : \E j \in 1 .. Len(StopOrder) : StopOrder[j] = t
<1> SUFFICES ASSUME NEW t \in Workers PROVE \E j \in 1 .. Len(StopOrder) : StopOrder[j] = t
  OBVIOUS
<1>1. CASE t = Receiver
  BY <1>1, Sizes, StopOrderIs
<1>2. CASE t \in Writers
  <2>1. PICK i \in 1 .. NWriters : t = Writer(i)
    BY <1>2 DEF Writers
  <2>2. i \in 1 .. Len(StopOrder)
    BY Sizes
  <2> QED BY <2>1, <2>2, StopOrderIs
<1>3. CASE t \in Readers
  <2>1. PICK i \in 1 .. NReaders : t = Reader(i)
    BY <1>3 DEF Readers
  <2>2. NWriters + 1 + i \in 1 .. Len(StopOrder)
    BY Sizes
  <2> QED BY <2>1, <2>2, StopOrderIs
<1> QED BY <1>1, <1>2, <1>3 DEF Workers
-------------------------------------------------------------------------------
(* One lemma per action: it preserves the invariant.                        *)

(* The application thread creates the next thread.                          *)
LEMMA SpawnStep ==
  ASSUME IInv, Spawn
  PROVE  IInv'
<1> USE Kinds DEF Spawn, At, Goto, IInv, waitVars, flagVars, callVars
<1> DEFINE t == StartOrder[idx[Main]]
<1>0. /\ pc[Main] = "start" /\ idx[Main] \in 1 .. Len(StartOrder) /\ t \in Workers /\ pc[t] = "none"
      /\ pc' = [pc EXCEPT ![t] = "begin"]
      /\ idx' = [idx EXCEPT ![Main] = @ + 1]
      /\ UNCHANGED <<seen, asleep, started, stop, stopped, server, cqShut, calls, handled, crashed, met>>
  BY Sizes, StartOrderIs, SMTT(30) DEF TypeOK, StartInv
<1> HIDE DEF t
<1>1. TypeOK'
  <2>1. idx' \in [Threads -> 1 .. Len(StartOrder) + 1]
    BY <1>0, Sizes DEF TypeOK
  <2>2. pc' \in [Threads -> {"none", "launched", "start", "started", "await", "awaited",
                         "up", "stop", "stopcq", "stopwait", "join", "shutdown",
                         "begin", "lock", "announce", "work", "request", "serve",
                         "close", "exit"}]
    BY <1>0 DEF TypeOK
  <2> QED BY <1>0, <2>1, <2>2, SMTT(30) DEF TypeOK
<1>2. StartInv'
  <2>1. /\ idx'[Main] = idx[Main] + 1 /\ pc'[Main] = "start"
        /\ \A x \in Threads : pc'[x] = IF x = t THEN "begin" ELSE pc[x]
    BY <1>0 DEF TypeOK
  <2>2. \A j \in 1 .. Len(StartOrder) : StartOrder[j] \in Threads /\ (StartOrder[j] = t <=> j = idx[Main])
    BY <1>0, StartOrderIs, StartOrderOnce DEF t
  <2>3. \A j \in 1 .. Len(StartOrder) : pc[StartOrder[j]] = "none" <=> j >= idx[Main]
    BY <1>0 DEF StartInv
  <2>4. idx[Main] \in Nat
    BY <1>0, Sizes
  <2> QED BY <2>1, <2>2, <2>3, <2>4, Sizes DEF StartInv
<1>3. StopInv'
  BY DEF TypeOK, StopInv, StopPhase, Stopping, Target
<1>4. CallInv'
  <2>1. pc'[Receiver] \in {"none", "begin"} => pc[Receiver] \in {"none", "begin"}
    BY <1>0 DEF TypeOK
  <2> QED BY <1>0, <2>1 DEF CallInv
<1>5. WakeInv'
  <2>1. /\ \A x \in Threads : pc'[x] = IF x = t THEN "begin" ELSE pc[x]
        /\ pc'[Main] = pc[Main]
    BY <1>0 DEF TypeOK
  <2>2. Receiver \in stopped => Receiver # t
    BY <1>0 DEF WakeInv
  <2>3. \A w \in Writers : w \in Threads /\ (w \in started => w # t)
    BY <1>0 DEF WakeInv
  <2>4. Receiver \in Threads
    OBVIOUS
  <2> QED BY <1>0, <2>1, <2>2, <2>3, <2>4 DEF WakeInv
<1> QED BY <1>1, <1>2, <1>3, <1>4, <1>5

(* comms_start ends when all threads are created.                           *)
LEMMA AnnounceStartStep ==
  ASSUME IInv, AnnounceStart
  PROVE  IInv'
<1> USE Kinds DEF AnnounceStart, Step, At, Goto, Notify, IInv, waitVars, flagVars, callVars
<1>1. TypeOK'
  BY DEF TypeOK, CvObjects
<1>2. StartInv'
  <2>1. ASSUME NEW i \in 1 .. NWriters PROVE pc[Writer(i)] # "none"
    <3>1. /\ NReaders + 1 + i \in 1 .. Len(StartOrder) /\ NReaders + 1 + i < idx[Main]
          /\ StartOrder[NReaders + 1 + i] = Writer(i)
      BY Sizes, StartOrderIs, SMTT(30) DEF TypeOK
    <3>2. ~(NReaders + 1 + i >= idx[Main])
      BY <3>1, Sizes, SMTT(30) DEF TypeOK
    <3> QED BY <3>1, <3>2 DEF StartInv
  <2>2. \A w \in Writers : pc[w] # "none" /\ w \in Threads /\ w # Main
    BY <2>1 DEF Writers
  <2> QED BY <2>2 DEF TypeOK, StartInv
<1>3. StopInv'
  BY DEF TypeOK, StopInv, StopPhase, Stopping, Target
<1>4. CallInv'
  BY DEF TypeOK, CallInv
<1>5. WakeInv'
  BY DEF TypeOK, WakeInv
<1> QED BY <1>1, <1>2, <1>3, <1>4, <1>5

(* comms_wait_for_start on the application thread sees all writers.         *)
LEMMA BeginAwaitMainStep ==
  ASSUME IInv, BeginAwait(Main, "started")
  PROVE  IInv'
<1> USE Kinds DEF BeginAwait, Step, At, Goto, IInv, waitVars, flagVars, callVars
<1>1. TypeOK'
  <2>1. Pushed \in 0 .. NWriters
    BY WriterCount DEF Pushed
  <2>2. 1 \in 1 .. Len(StartOrder) + 1
    BY Sizes
  <2> HIDE DEF BeginAwait
  <2>3. /\ idx' = [idx EXCEPT ![Main] = 1] /\ seen' = [seen EXCEPT ![Main] = Pushed]
        /\ pc' = [pc EXCEPT ![Main] = "await"]
        /\ UNCHANGED <<asleep, started, stop, stopped, server, cqShut, calls, handled, crashed, met>>
    BY DEF BeginAwait
  <2>4. idx' \in [Threads -> 1 .. Len(StartOrder) + 1]
    BY <2>2, <2>3 DEF TypeOK
  <2>5. seen' \in [{Main, Aux} -> 0 .. NWriters]
    BY <2>1, <2>3 DEF TypeOK
  <2> QED BY <2>3, <2>4, <2>5 DEF TypeOK
<1>2. StartInv'
  BY DEF TypeOK, StartInv
<1>3. StopInv'
  BY DEF TypeOK, StopInv, StopPhase, Stopping, Target
<1>4. CallInv'
  BY DEF TypeOK, CallInv
<1>5. WakeInv'
  <2>1. {w \in Writers : pc[w] # "none"} = Writers
    BY DEF StartInv
  <2>2. Pushed = NWriters
    BY <2>1, WriterCount DEF Pushed
  <2>3. seen'[Main] = NWriters /\ idx'[Main] = 1
    BY <2>2 DEF TypeOK
  <2>4. \A i \in 1 .. NWriters : ~(i < 1)
    BY Sizes
  <2> QED BY <2>3, <2>4 DEF TypeOK, WakeInv
<1> QED BY <1>1, <1>2, <1>3, <1>4, <1>5

(* comms_wait_for_start on the catch thread.                                *)
LEMMA BeginAwaitAuxStep ==
  ASSUME IInv, BeginAwait(Aux, "launched")
  PROVE  IInv'
<1> USE Kinds DEF BeginAwait, Step, At, Goto, IInv, waitVars, flagVars, callVars
<1>1. TypeOK'
  <2>1. Pushed \in 0 .. NWriters
    BY WriterCount DEF Pushed
  <2>2. 1 \in 1 .. Len(StartOrder) + 1
    BY Sizes
  <2> HIDE DEF BeginAwait
  <2>3. /\ idx' = [idx EXCEPT ![Aux] = 1] /\ seen' = [seen EXCEPT ![Aux] = Pushed]
        /\ pc' = [pc EXCEPT ![Aux] = "await"]
        /\ UNCHANGED <<asleep, started, stop, stopped, server, cqShut, calls, handled, crashed, met>>
    BY DEF BeginAwait
  <2>4. idx' \in [Threads -> 1 .. Len(StartOrder) + 1]
    BY <2>2, <2>3 DEF TypeOK
  <2>5. seen' \in [{Main, Aux} -> 0 .. NWriters]
    BY <2>1, <2>3 DEF TypeOK
  <2> QED BY <2>3, <2>4, <2>5 DEF TypeOK
<1>2. StartInv'
  BY DEF TypeOK, StartInv
<1>3. StopInv'
  BY DEF TypeOK, StopInv, StopPhase, Stopping, Target
<1>4. CallInv'
  BY DEF TypeOK, CallInv
<1>5. WakeInv'
  BY DEF TypeOK, WakeInv
<1> QED BY <1>1, <1>2, <1>3, <1>4, <1>5

(* The wait for one writer.                                                 *)
LEMMA AwaitWriterStep ==
  ASSUME IInv, NEW t \in {Main, Aux}, AwaitWriter(t)
  PROVE  IInv'
<1> USE Kinds DEF AwaitWriter, At, WaitUnless, Awaited, IInv, waitVars, flagVars, callVars
<1>1. TypeOK'
  <2>1. idx[t] \in 1 .. NWriters /\ t \in Threads
    BY Sizes DEF TypeOK
  <2>2. Writer(idx[t]) \in CvObjects
    BY <2>1 DEF Writers, CvObjects
  <2>3. idx' \in [Threads -> 1 .. Len(StartOrder) + 1]
    BY <2>1, Sizes DEF TypeOK
  <2>4. asleep' \in [Threads -> {<<>>} \cup ({"started", "stopped"} \X CvObjects)]
    BY <2>1, <2>2 DEF TypeOK
  <2> QED BY <2>3, <2>4 DEF TypeOK
<1>2. StartInv'
  BY DEF TypeOK, StartInv
<1>3. StopInv'
  BY DEF TypeOK, StopInv, StopPhase, Stopping, Target
<1>4. CallInv'
  BY DEF TypeOK, CallInv
<1>5. WakeInv'
  BY SMTT(30) DEF TypeOK, WakeInv
<1> QED BY <1>1, <1>2, <1>3, <1>4, <1>5

(* The use of a torn vector of writers.                                     *)
LEMMA AwaitTornStep ==
  ASSUME IInv, NEW t \in {Main, Aux}, AwaitTorn(t)
  PROVE  IInv'
<1> USE Kinds DEF AwaitTorn, At, IInv, waitVars, flagVars, callVars
<1>1. TypeOK'
  BY DEF TypeOK, CvObjects
<1>2. StartInv'
  BY DEF TypeOK, StartInv
<1>3. StopInv'
  BY DEF TypeOK, StopInv, StopPhase, Stopping, Target
<1>4. CallInv'
  BY DEF TypeOK, CallInv
<1>5. WakeInv'
  BY DEF TypeOK, WakeInv
<1> QED BY <1>1, <1>2, <1>3, <1>4, <1>5

(* The wait for comms itself, after that for all writers.                   *)
LEMMA AwaitCommsStep ==
  ASSUME IInv, NEW t \in {Main, Aux}, AwaitComms(t)
  PROVE  IInv'
<1> USE Kinds DEF AwaitComms, Step, At, Goto, WaitUnless, IInv, waitVars, flagVars, callVars
<1>1. TypeOK'
  BY DEF TypeOK, CvObjects
<1>2. StartInv'
  BY DEF TypeOK, StartInv
<1>3. StopInv'
  BY DEF TypeOK, StopInv, StopPhase, Stopping, Target
<1>4. CallInv'
  BY DEF TypeOK, CallInv
<1>5. WakeInv'
  <2>1. ASSUME t = Main, "spurious" \notin met PROVE Writers \subseteq started
    <3>1. idx[Main] > NWriters /\ asleep[Main] = <<>>
      BY <2>1 DEF WakeInv
    <3>2. \A i \in 1 .. NWriters : i < idx[Main]
      BY <3>1, Sizes DEF TypeOK
    <3>3. \A i \in 1 .. NWriters : Writer(i) \in started
      BY <2>1, <3>1, <3>2 DEF WakeInv
    <3> QED BY <3>3 DEF Writers
  <2> QED BY <2>1 DEF TypeOK, WakeInv
<1> QED BY <1>1, <1>2, <1>3, <1>4, <1>5

(* comms_wait_for_start returns.                                            *)
LEMMA UpStep ==
  ASSUME IInv, NEW t \in {Main, Aux}, Up(t)
  PROVE  IInv'
<1> USE Kinds DEF Up, Step, At, Goto, IInv, waitVars, flagVars, callVars
<1>1. TypeOK'
  BY DEF TypeOK, CvObjects
<1>2. StartInv'
  BY DEF TypeOK, StartInv
<1>3. StopInv'
  BY DEF TypeOK, StopInv, StopPhase, Stopping, Target
<1>4. CallInv'
  BY DEF TypeOK, CallInv
<1>5. WakeInv'
  BY DEF TypeOK, WakeInv
<1> QED BY <1>1, <1>2, <1>3, <1>4, <1>5

(* A reader or writer has started.                                          *)
LEMMA AnnounceWorkerStep ==
  ASSUME IInv, NEW c \in Readers \cup Writers, AnnounceWorker(c, "work")
  PROVE  IInv'
<1> USE Kinds DEF AnnounceWorker, Step, At, Goto, Notify, IInv, waitVars, flagVars, callVars
<1>1. TypeOK'
  BY DEF TypeOK, CvObjects
<1>2. StartInv'
  BY DEF TypeOK, StartInv
<1>3. StopInv'
  BY DEF TypeOK, StopInv, StopPhase, Stopping, Target
<1>4. CallInv'
  BY DEF TypeOK, CallInv
<1>5. WakeInv'
  <2>1. /\ \A x \in Threads : pc'[x] = IF x = c THEN "work" ELSE pc[x]
        /\ \A x \in Threads : asleep'[x] = IF asleep[x] = <<"started", c>> THEN <<>> ELSE asleep[x]
        /\ c \in Threads /\ c # Main /\ c # Receiver /\ asleep[c] = <<>> /\ pc[c] = "announce"
    BY DEF TypeOK
  <2>2. \A w \in Writers : asleep[w] = <<"started", Receiver>> => asleep'[w] = asleep[w]
    BY <2>1
  <2>3. c \in Writers /\ "spurious" \notin met => server # "none" \/ Receiver \in stopped
    BY <2>1 DEF WakeInv
  <2>4. \A i \in 1 .. NWriters :
          asleep[Main] = <<"started", Writer(i)>> =>
            Writer(i) \in started' \/ asleep'[Main] = <<"started", Writer(i)>>
    BY <2>1
  <2>5. \A w \in Writers : w \in started' => w \in started \/ w = c
    OBVIOUS
  <2> QED BY <2>1, <2>2, <2>3, <2>4, <2>5 DEF WakeInv
<1> QED BY <1>1, <1>2, <1>3, <1>4, <1>5

(* The receiver has started.                                                *)
LEMMA AnnounceReceiverStep ==
  ASSUME IInv, AnnounceWorker(Receiver, "request")
  PROVE  IInv'
<1> USE Kinds DEF AnnounceWorker, Step, At, Goto, Notify, IInv, waitVars, flagVars, callVars
<1>1. TypeOK'
  BY DEF TypeOK, CvObjects
<1>2. StartInv'
  BY DEF TypeOK, StartInv
<1>3. StopInv'
  BY DEF TypeOK, StopInv, StopPhase, Stopping, Target
<1>4. CallInv'
  BY DEF TypeOK, CallInv
<1>5. WakeInv'
  BY DEF TypeOK, WakeInv
<1> QED BY <1>1, <1>2, <1>3, <1>4, <1>5

(* A reader begins.                                                         *)
LEMMA ReaderBeginStep ==
  ASSUME IInv, NEW r \in Readers, ReaderBegin(r)
  PROVE  IInv'
<1> USE Kinds DEF ReaderBegin, Step, At, Goto, IInv, waitVars, flagVars, callVars
<1>1. TypeOK'
  BY DEF TypeOK, CvObjects
<1>2. StartInv'
  BY DEF TypeOK, StartInv
<1>3. StopInv'
  BY DEF TypeOK, StopInv, StopPhase, Stopping, Target
<1>4. CallInv'
  BY DEF TypeOK, CallInv
<1>5. WakeInv'
  BY DEF TypeOK, WakeInv
<1> QED BY <1>1, <1>2, <1>3, <1>4, <1>5

(* A writer does not wait for a receiver that stops or has stopped.         *)
LEMMA WriterBeginStep ==
  ASSUME IInv, NEW w \in Writers, WriterBegin(w)
  PROVE  IInv'
<1> USE Kinds DEF WriterBegin, Step, At, Goto, IInv, waitVars, flagVars, callVars
<1>1. TypeOK'
  BY DEF TypeOK, CvObjects
<1>2. StartInv'
  BY DEF TypeOK, StartInv
<1>3. StopInv'
  BY DEF TypeOK, StopInv, StopPhase, Stopping, Target
<1>4. CallInv'
  BY DEF TypeOK, CallInv
<1>5. WakeInv'
  <2>1. /\ w \in Threads /\ w # Main /\ w # Receiver /\ pc[w] = "begin"
        /\ \A x \in Threads \ {w} : pc'[x] = pc[x]
        /\ pc'[w] = "lock" \/ (pc'[w] = "announce" /\ Receiver \in stopped \cup stop)
    BY DEF TypeOK
  <2>2. Receiver \in stop => server # "none"
    BY DEF CallInv
  <2> QED BY <2>1, <2>2 DEF WakeInv
<1> QED BY <1>1, <1>2, <1>3, <1>4, <1>5

(* A writer waits for the receiver.                                         *)
LEMMA WriterLockStep ==
  ASSUME IInv, NEW w \in Writers, WriterLock(w)
  PROVE  IInv'
<1> USE Kinds DEF WriterLock, Step, At, Goto, WaitUnless, IInv, waitVars, flagVars, callVars
<1>1. TypeOK'
  BY DEF TypeOK, CvObjects
<1>2. StartInv'
  BY DEF TypeOK, StartInv
<1>3. StopInv'
  BY DEF TypeOK, StopInv, StopPhase, Stopping, Target
<1>4. CallInv'
  BY DEF TypeOK, CallInv
<1>5. WakeInv'
  BY DEF TypeOK, WakeInv
<1> QED BY <1>1, <1>2, <1>3, <1>4, <1>5

(* A reader or writer sees that it shall stop.                              *)
LEMMA WorkerStopsStep ==
  ASSUME IInv, NEW c \in Readers \cup Writers, WorkerStops(c)
  PROVE  IInv'
<1> USE Kinds DEF WorkerStops, Step, At, Goto, IInv, waitVars, flagVars, callVars
<1>1. TypeOK'
  BY DEF TypeOK, CvObjects
<1>2. StartInv'
  BY DEF TypeOK, StartInv
<1>3. StopInv'
  BY DEF TypeOK, StopInv, StopPhase, Stopping, Target
<1>4. CallInv'
  BY DEF TypeOK, CallInv
<1>5. WakeInv'
  BY DEF TypeOK, WakeInv
<1> QED BY <1>1, <1>2, <1>3, <1>4, <1>5

(* A thread announces its end.                                              *)
LEMMA WorkerClosesStep ==
  ASSUME IInv, NEW c \in Workers, WorkerCloses(c)
  PROVE  IInv'
<1> USE Kinds DEF WorkerCloses, Step, At, Goto, Notify, IInv, waitVars, flagVars, callVars
<1>1. TypeOK'
  BY DEF TypeOK, CvObjects
<1>2. StartInv'
  BY DEF TypeOK, StartInv
<1>3. StopInv'
  BY DEF TypeOK, StopInv, StopPhase, Stopping, Target
<1>4. CallInv'
  BY DEF TypeOK, CallInv
<1>5. WakeInv'
  BY DEF TypeOK, WakeInv
<1> QED BY <1>1, <1>2, <1>3, <1>4, <1>5

(* The receiver waits for a reader.                                         *)
LEMMA ReceiverAwaitsStep ==
  ASSUME IInv, ReceiverAwaits
  PROVE  IInv'
<1> USE Kinds DEF ReceiverAwaits, At, WaitUnless, IInv, waitVars, flagVars, callVars
<1>1. TypeOK'
  <2>1. idx[Receiver] \in 1 .. NReaders /\ Receiver \in Threads
    BY Sizes DEF TypeOK
  <2>2. Reader(idx[Receiver]) \in CvObjects
    BY <2>1 DEF Readers, CvObjects
  <2>3. idx' \in [Threads -> 1 .. Len(StartOrder) + 1]
    BY <2>1, Sizes DEF TypeOK
  <2>4. asleep' \in [Threads -> {<<>>} \cup ({"started", "stopped"} \X CvObjects)]
    BY <2>1, <2>2 DEF TypeOK
  <2> QED BY <2>3, <2>4 DEF TypeOK
<1>2. StartInv'
  BY DEF TypeOK, StartInv
<1>3. StopInv'
  BY DEF TypeOK, StopInv, StopPhase, Stopping, Target
<1>4. CallInv'
  BY DEF TypeOK, CallInv
<1>5. WakeInv'
  BY DEF TypeOK, WakeInv
<1> QED BY <1>1, <1>2, <1>3, <1>4, <1>5

(* The server is built, once, or not.                                       *)
LEMMA ReceiverBuildsStep ==
  ASSUME IInv, ReceiverBuilds
  PROVE  IInv'
<1> USE Kinds DEF ReceiverBuilds, At, Goto, IInv, waitVars, flagVars, callVars
<1>a. /\ Receiver \in Threads /\ Receiver # Main /\ Receiver # Aux /\ pc[Receiver] = "begin" /\ ~crashed
      /\ server = "none" /\ Receiver \notin stop /\ Receiver \notin stopped /\ ~cqShut
      /\ calls.pending = 0 /\ calls.ready = 0 /\ calls.finishing = 0
      /\ UNCHANGED <<idx, seen, asleep, started, stop, stopped, cqShut, calls, handled, crashed>>
  BY DEF CallInv, WakeInv
<1>b. \/ /\ pc' = [pc EXCEPT ![Receiver] = "announce"] /\ server' = "up" /\ met' = met
      \/ /\ pc' = [pc EXCEPT ![Receiver] = "close"] /\ server' = server
         /\ met' = met \cup {"bind"} /\ "bind" \in Faults
  OBVIOUS
<1>c. /\ \A x \in Threads \ {Receiver} : pc'[x] = pc[x]
      /\ pc'[Main] = pc[Main] /\ pc'[Aux] = pc[Aux]
      /\ pc'[Receiver] \in {"announce", "close"}
  BY <1>a, <1>b DEF TypeOK
<1> HIDE DEF ReceiverBuilds, IInv
<1>d. TypeOK /\ StartInv /\ StopInv /\ CallInv /\ WakeInv
  BY DEF IInv
<1>1. TypeOK'
  <2>2. pc' \in [Threads -> {"none", "launched", "start", "started", "await", "awaited",
                         "up", "stop", "stopcq", "stopwait", "join", "shutdown",
                         "begin", "lock", "announce", "work", "request", "serve",
                         "close", "exit"}]
    BY <1>a, <1>b, <1>d, ZenonT(60) DEF TypeOK
  <2>3. server' \in {"none", "up", "down"} /\ met' \in SUBSET Faults
    BY <1>b, <1>d DEF TypeOK
  <2> QED BY <1>a, <1>d, <2>2, <2>3 DEF TypeOK
<1>2. StartInv'
  <2>1. \A j \in 1 .. Len(StartOrder) : StartOrder[j] \in Threads
    BY StartOrderIs
  <2>2. \A x \in Threads : pc'[x] = "none" <=> pc[x] = "none"
    BY <1>a, <1>c
  <2> QED BY <1>a, <1>c, <1>d, <2>1, <2>2 DEF StartInv
<1>3. StopInv'
  <2>1. \A j \in 1 .. Len(StopOrder) : StopOrder[j] \in Threads
    BY StopOrderIs
  <2>2. \A x \in Threads : pc[x] = "exit" => pc'[x] = "exit"
    BY <1>a, <1>c
  <2>3. server' # "down"
    BY <1>a, <1>b
  <2> QED BY <1>a, <1>c, <1>d, <2>1, <2>2, <2>3 DEF StopInv, Stopping, Target
<1>4. CallInv'
  <2>1. 0 <= handled
    BY <1>d, Sizes DEF TypeOK
  <2>2. server' \in {"up", server}
    BY <1>b
  <2> QED BY <1>a, <1>c, <1>d, <2>1, <2>2 DEF CallInv
<1>5. WakeInv'
  <2>1. \A w \in Writers : w \in Threads \ {Receiver}
    OBVIOUS
  <2>2. /\ pc'[Receiver] = "announce" => server' # "none"
        /\ pc'[Receiver] = "close" => "bind" \in met'
        /\ "spurious" \notin met' => "spurious" \notin met
        /\ server # "none" => server' # "none"
    BY <1>a, <1>b, <1>d DEF TypeOK
  <2>3. \A w \in Writers : pc'[w] = pc[w]
    BY <1>c, <2>1
  <2>4. pc'[Receiver] \notin {"exit", "request", "serve"}
    BY <1>c
  <2> QED BY <1>a, <1>c, <1>d, <2>2, <2>3, <2>4 DEF WakeInv
<1> QED BY <1>1, <1>2, <1>3, <1>4, <1>5 DEF IInv

(* The receiver makes its first request, or the program ends with it.       *)
LEMMA ReceiverRequestsStep ==
  ASSUME IInv, ReceiverRequests
  PROVE  IInv'
<1> USE Kinds
<1>a. /\ UNCHANGED <<idx, seen, asleep, started, stop, stopped, server, cqShut, handled, met>>
      /\ pc[Receiver] = "request" /\ ~crashed /\ crashed' = cqShut
      /\ pc' = [pc EXCEPT ![Receiver] = "serve"]
      /\ calls' = [calls EXCEPT !.pending = IF cqShut THEN @ ELSE 1]
  BY DEF ReceiverRequests, Step, At, Goto, waitVars, flagVars
<1>b. TypeOK /\ StartInv /\ StopInv /\ CallInv /\ WakeInv
  BY DEF IInv
<1>c. /\ calls.pending = 0 /\ calls.ready = 0 /\ calls.finishing = 0
      /\ server # "none" /\ (cqShut => server = "down") /\ handled \in Nat
  BY <1>a, <1>b, Sizes DEF CallInv, WakeInv, TypeOK
<1>d. /\ calls' \in [pending : 0 .. 1, ready : 0 .. 1, finishing : 0 .. MaxCalls]
      /\ calls'.pending = (IF cqShut THEN 0 ELSE 1) /\ calls'.ready = 0 /\ calls'.finishing = 0
  BY <1>a, <1>b, <1>c DEF TypeOK
<1>e. /\ pc' \in [Threads -> {"none", "launched", "start", "started", "await", "awaited",
                         "up", "stop", "stopcq", "stopwait", "join", "shutdown",
                         "begin", "lock", "announce", "work", "request", "serve",
                         "close", "exit"}]
      /\ pc'[Receiver] = "serve"
      /\ \A x \in Threads \ {Receiver} : pc'[x] = pc[x]
      /\ pc'[Main] = pc[Main] /\ pc'[Aux] = pc[Aux]
  BY <1>a, <1>b DEF TypeOK
<1>1. TypeOK'
  <2>1. crashed' \in BOOLEAN
    BY <1>a, <1>b, Zenon DEF TypeOK
  <2> QED BY <1>a, <1>b, <1>d, <1>e, <2>1 DEF TypeOK
<1>2. StartInv'
  <2>1. \A j \in 1 .. Len(StartOrder) : StartOrder[j] \in Threads
    BY StartOrderIs
  <2>2. \A x \in Threads : pc'[x] = "none" <=> pc[x] = "none"
    BY <1>a, <1>e
  <2> QED BY <1>a, <1>b, <1>e, <2>1, <2>2 DEF StartInv
<1>3. StopInv'
  <2>1. \A j \in 1 .. Len(StopOrder) : StopOrder[j] \in Threads
    BY StopOrderIs
  <2>2. \A x \in Threads : pc[x] = "exit" <=> pc'[x] = "exit"
    BY <1>a, <1>e
  <2> QED BY <1>a, <1>b, <1>e, <2>1, <2>2 DEF StopInv, Stopping, Target
<1>4. CallInv'
  BY <1>a, <1>b, <1>c, <1>d, <1>e DEF CallInv
<1>5. WakeInv'
  <2>1. \A w \in Writers : pc'[w] = pc[w]
    BY <1>e
  <2> QED BY <1>a, <1>b, <1>c, <1>e, <2>1 DEF WakeInv
<1> QED BY <1>1, <1>2, <1>3, <1>4, <1>5 DEF IInv

(* A request takes the pending CallData.                                    *)
LEMMA RequestArrivesStep ==
  ASSUME IInv, RequestArrives
  PROVE  IInv'
<1> USE Kinds DEF RequestArrives, IInv, waitVars, flagVars, callVars
<1>1. TypeOK'
  <2>1. /\ calls'.pending = calls.pending - 1 /\ calls'.ready = calls.ready + 1
        /\ calls'.finishing = calls.finishing
        /\ calls' \in [pending : {calls'.pending}, ready : {calls'.ready}, finishing : {calls'.finishing}]
    BY DEF TypeOK
  <2>2. calls'.pending \in 0 .. 1 /\ calls'.ready \in 0 .. 1 /\ calls'.finishing \in 0 .. MaxCalls
    BY <2>1 DEF TypeOK, CallInv
  <2>3. handled' \in 0 .. MaxCalls
    BY Sizes, SMTT(30) DEF TypeOK
  <2> QED BY <2>1, <2>2, <2>3 DEF TypeOK
<1>2. StartInv'
  BY DEF TypeOK, StartInv
<1>3. StopInv'
  BY DEF TypeOK, StopInv, StopPhase, Stopping, Target
<1>4. CallInv'
  BY DEF TypeOK, CallInv
<1>5. WakeInv'
  BY DEF TypeOK, WakeInv
<1> QED BY <1>1, <1>2, <1>3, <1>4, <1>5

(* The receiver proceeds with a CallData.                                   *)
LEMMA ReceiverProceedsStep ==
  ASSUME IInv, ReceiverProceeds
  PROVE  IInv'
<1> USE Kinds
<1>a. /\ UNCHANGED <<pc, idx, seen, asleep, started, stop, stopped, server, cqShut, handled, crashed, met>>
      /\ pc[Receiver] = "serve"
  BY DEF ReceiverProceeds, At, waitVars, flagVars
<1>b. TypeOK /\ StartInv /\ StopInv /\ CallInv /\ WakeInv
  BY DEF IInv
<1>c. /\ calls \in [pending : Int, ready : Int, finishing : Int]
      /\ calls.pending \in 0 .. 1 /\ calls.ready \in 0 .. 1 /\ calls.finishing \in 0 .. MaxCalls
      /\ handled \in 0 .. MaxCalls
  BY <1>b, Sizes DEF TypeOK
<1>d. /\ calls' \in [pending : Int, ready : Int, finishing : Int]
      /\ \/ /\ calls.ready > 0 /\ calls'.ready = calls.ready - 1 /\ calls'.pending = calls.pending + 1
            /\ calls'.finishing = calls.finishing + 1
         \/ /\ calls.finishing > 0 /\ calls'.ready = calls.ready /\ calls'.pending = calls.pending
            /\ calls'.finishing = calls.finishing - 1
         \/ /\ calls.pending > 0 /\ server = "down" /\ calls'.ready = calls.ready
            /\ calls'.pending = calls.pending - 1 /\ calls'.finishing = calls.finishing
  <2>1. CASE calls.ready > 0 /\ calls' = Processed
    <3>1. /\ calls'.ready = calls.ready - 1 /\ calls'.pending = calls.pending + 1
          /\ calls'.finishing = calls.finishing + 1
      BY <1>c, <2>1 DEF Processed
    <3>2. DOMAIN calls = {"pending", "ready", "finishing"}
      BY <1>c
    <3>3. calls' = [pending |-> calls.pending + 1, ready |-> calls.ready - 1,
                    finishing |-> calls.finishing + 1]
      BY <1>c, <2>1, <3>2 DEF Processed
    <3> QED BY <1>c, <2>1, <3>1, <3>3
  <2>2. CASE calls.finishing > 0 /\ calls' = [calls EXCEPT !.finishing = @ - 1]
    BY <1>c, <2>2
  <2>3. CASE calls.pending > 0 /\ server = "down" /\ calls' = [calls EXCEPT !.pending = @ - 1]
    BY <1>c, <2>3
  <2> QED BY <2>1, <2>2, <2>3 DEF ReceiverProceeds
<1>e. /\ calls.pending + calls.ready <= 1 /\ calls.ready + calls.finishing <= handled
      /\ server = "none" => calls.pending = 0 /\ calls.ready = 0 /\ calls.finishing = 0
      /\ server = "up" => calls.pending + calls.ready = 1
      /\ pc[Receiver] = "serve"
      /\ cqShut => server = "down" /\ calls.ready = 0
      /\ Receiver \in stop => server = "down"
  BY <1>a, <1>b DEF CallInv
<1>f. MaxCalls \in Nat
  BY Sizes
<1>1. TypeOK'
  <2>1. calls'.pending \in 0 .. 1 /\ calls'.ready \in 0 .. 1
    BY <1>c, <1>d, <1>e
  <2>2. calls'.finishing \in 0 .. MaxCalls
    BY <1>c, <1>d, <1>e, <1>f
  <2>3. calls' \in [pending : 0 .. 1, ready : 0 .. 1, finishing : 0 .. MaxCalls]
    BY <1>d, <2>1, <2>2
  <2> QED BY <1>a, <1>b, <2>3 DEF TypeOK
<1>2. StartInv'
  BY <1>a, <1>b DEF StartInv
<1>3. StopInv'
  BY <1>a, <1>b DEF StopInv, Stopping, Target
<1>4. CallInv'
  <2>1. server' = "none" => calls'.pending = 0 /\ calls'.ready = 0 /\ calls'.finishing = 0
    BY <1>a, <1>c, <1>d, <1>e
  <2>2. calls'.pending + calls'.ready <= 1
    BY <1>c, <1>d, <1>e
  <2>3. calls'.ready + calls'.finishing <= handled'
    BY <1>a, <1>c, <1>d, <1>e, <1>f
  <2>4. server' = "up" => calls'.pending + calls'.ready = 1
    BY <1>a, <1>c, <1>d, <1>e
  <2>5. cqShut' => server' = "down" /\ calls'.ready = 0
    BY <1>a, <1>c, <1>d, <1>e
  <2> QED BY <1>a, <1>e, <2>1, <2>2, <2>3, <2>4, <2>5 DEF CallInv
<1>5. WakeInv'
  BY <1>a, <1>b DEF WakeInv
<1> QED BY <1>1, <1>2, <1>3, <1>4, <1>5 DEF IInv

(* The completion queue is drained.                                         *)
LEMMA ReceiverDrainedStep ==
  ASSUME IInv, ReceiverDrained
  PROVE  IInv'
<1> USE Kinds DEF ReceiverDrained, Step, At, Goto, IInv, waitVars, flagVars, callVars
<1>1. TypeOK'
  BY DEF TypeOK, CvObjects
<1>2. StartInv'
  BY DEF TypeOK, StartInv
<1>3. StopInv'
  BY DEF TypeOK, StopInv, StopPhase, Stopping, Target
<1>4. CallInv'
  BY DEF TypeOK, CallInv
<1>5. WakeInv'
  BY DEF TypeOK, WakeInv
<1> QED BY <1>1, <1>2, <1>3, <1>4, <1>5

(* comms_shutdown begins with the first thread.                             *)
LEMMA BeginShutdownStep ==
  ASSUME IInv, BeginShutdown
  PROVE  IInv'
<1> USE Kinds DEF BeginShutdown, Step, At, Goto, IInv, waitVars, flagVars, callVars
<1>1. TypeOK'
  BY DEF TypeOK, CvObjects
<1>2. StartInv'
  BY DEF TypeOK, StartInv
<1>3. StopInv'
  BY DEF TypeOK, StopInv, StopPhase, Stopping, Target
<1>4. CallInv'
  BY DEF TypeOK, CallInv
<1>5. WakeInv'
  BY ZenonT(60) DEF TypeOK, WakeInv
<1> QED BY <1>1, <1>2, <1>3, <1>4, <1>5

(* comms_shutdown stops a writer, or, the receiver having ended, a reader.  *)
LEMMA StopWorkerStep ==
  ASSUME IInv, StopWorker
  PROVE  IInv'
<1> USE Kinds DEF StopWorker, Step, At, Goto, IInv, waitVars, flagVars, callVars
<1>0. /\ idx[Main] \in 1 .. Len(StopOrder) /\ Target \in Workers /\ Target # Receiver
      /\ pc[Main] = "stop" /\ pc' = [pc EXCEPT ![Main] = "stopwait"]
      /\ stop' = stop \cup {Target}
      /\ UNCHANGED <<idx, seen, asleep, started, stopped, server, cqShut, calls, handled, crashed, met>>
  BY Sizes, StopOrderIs DEF TypeOK, Stopping, Target
<1>1. TypeOK'
  BY <1>0 DEF TypeOK
<1>2. StartInv'
  BY DEF TypeOK, StartInv
<1>3. StopInv'
  <2>1. \A x \in Threads : x # Main => pc'[x] = pc[x]
    BY <1>0 DEF TypeOK
  <2>2. pc'[Main] = "stopwait"
    BY <1>0 DEF TypeOK
  <2>3. \A j \in 1 .. Len(StopOrder) : StopOrder[j] \in Threads \ {Main}
    BY StopOrderIs
  <2>4. Target \in Readers => pc[Receiver] = "exit"
    <3>1. ASSUME idx[Main] <= NWriters PROVE Target \in Writers
      BY <1>0, <3>1, StopOrderIs, Sizes DEF Target, Writers
    <3>2. idx[Main] # NWriters + 1
      BY <1>0, StopOrderIs DEF Target
    <3>3. ASSUME idx[Main] > NWriters + 1 PROVE pc[Receiver] = "exit"
      <4>1. NWriters + 1 \in 1 .. Len(StopOrder) /\ NWriters + 1 < idx[Main]
        BY <1>0, <3>3, Sizes
      <4> QED BY <1>0, <4>1, StopOrderIs DEF StopInv
    <3>4. idx[Main] \in Nat /\ NWriters \in Nat
      BY <1>0, Sizes
    <3> QED BY <3>1, <3>2, <3>3, <3>4
  <2>5. Main \in Threads /\ Aux \in Threads /\ Receiver \in Threads
    OBVIOUS
  <2>6. \A j \in 1 .. Len(StopOrder) : j < idx'[Main] => pc'[StopOrder[j]] = "exit"
    BY <1>0, <2>1, <2>3 DEF StopInv
  <2>7. Stopping'
    BY <1>0, Sizes DEF Stopping
  <2>8. server' = "down" => \A w \in Writers : pc'[w] = "exit"
    BY <1>0, <2>1 DEF StopInv
  <2>9. \A r \in Readers : r \in stop' => pc'[Receiver] = "exit"
    BY <1>0, <2>1, <2>4, <2>5 DEF StopInv
  <2> QED BY <2>2, <2>6, <2>7, <2>8, <2>9 DEF StopInv, StopPhase
<1>4. CallInv'
  BY DEF TypeOK, CallInv
<1>5. WakeInv'
  BY DEF TypeOK, WakeInv
<1> QED BY <1>1, <1>2, <1>3, <1>4, <1>5

(* comms_shutdown stops the server, all writers having ended.               *)
LEMMA StopServerStep ==
  ASSUME IInv, StopServer
  PROVE  IInv'
<1> USE Kinds DEF StopServer, At, Goto, IInv, waitVars, flagVars, callVars
<1>1. TypeOK'
  BY ZenonT(60) DEF TypeOK, CvObjects
<1>2. StartInv'
  BY DEF TypeOK, StartInv
<1>3. StopInv'
  <2>0. /\ idx[Main] \in 1 .. Len(StopOrder) /\ Target = Receiver
        /\ pc[Main] = "stop"
        /\ UNCHANGED <<idx, seen, asleep, started, stop, stopped>>
    BY Sizes DEF TypeOK, Stopping
  <2>1. \A x \in Threads : x # Main => pc'[x] = pc[x]
    BY DEF TypeOK
  <2>2. \/ pc'[Main] = "stopwait" /\ server' = server
        \/ pc'[Main] = "stopcq" /\ server' = "down"
    BY DEF TypeOK
  <2>3. \A j \in 1 .. Len(StopOrder) : StopOrder[j] \in Threads \ {Main}
    BY StopOrderIs
  <2>4. ASSUME NEW i \in 1 .. NWriters PROVE pc[Writer(i)] = "exit"
    <3>1. NWriters + 1 <= idx[Main]
      <4>1. ASSUME idx[Main] <= NWriters PROVE FALSE
        <5>1. idx[Main] \in 1 .. NWriters
          BY <2>0, <4>1, Sizes
        <5>2. Target = Writer(idx[Main]) /\ idx[Main] \in Nat
          BY <5>1, StopOrderIs, Sizes DEF Target
        <5> QED BY <2>0, <5>2
      <4> QED BY <2>0, <4>1, Sizes
    <3>2. i \in 1 .. Len(StopOrder) /\ i < idx[Main] /\ StopOrder[i] = Writer(i)
      BY <2>0, <3>1, Sizes, StopOrderIs
    <3> QED BY <2>0, <3>2 DEF StopInv
  <2>5. \A w \in Writers : pc'[w] = "exit"
    BY <2>1, <2>4 DEF Writers
  <2>6. \A j \in 1 .. Len(StopOrder) : j < idx'[Main] => pc'[StopOrder[j]] = "exit"
    BY <2>0, <2>1, <2>3 DEF StopInv
  <2>7. Stopping' /\ Target' = Receiver
    BY <2>0, Sizes DEF Stopping, Target
  <2>8. Receiver \in Threads \ {Main}
    OBVIOUS
  <2>9. \A r \in Readers : r \in stop' => pc'[Receiver] = "exit"
    BY <2>0, <2>1, <2>8 DEF StopInv
  <2> QED BY <2>2, <2>5, <2>6, <2>7, <2>9 DEF StopInv, StopPhase
<1>4. CallInv'
  BY DEF TypeOK, CallInv
<1>5. WakeInv'
  BY ZenonT(60) DEF TypeOK, WakeInv
<1> QED BY <1>1, <1>2, <1>3, <1>4, <1>5

(* The completion queue is shut down when all requests are answered.        *)
LEMMA StopCqStep ==
  ASSUME IInv, StopCq
  PROVE  IInv'
<1> USE Kinds DEF StopCq, Step, At, Goto, Answered, IInv, waitVars, flagVars, callVars
<1>1. TypeOK'
  BY DEF TypeOK, CvObjects
<1>2. StartInv'
  BY DEF TypeOK, StartInv
<1>3. StopInv'
  BY DEF TypeOK, StopInv, StopPhase, Stopping, Target
<1>4. CallInv'
  <2>1. server = "down" /\ calls.ready = 0
    BY DEF StopInv
  <2>2. pc'[Receiver] = pc[Receiver]
    BY DEF TypeOK
  <2> QED BY <2>1, <2>2 DEF CallInv
<1>5. WakeInv'
  BY DEF TypeOK, WakeInv
<1> QED BY <1>1, <1>2, <1>3, <1>4, <1>5

(* comms_shutdown waits for a thread ...                                    *)
LEMMA StopWaitStep ==
  ASSUME IInv, StopWait
  PROVE  IInv'
<1> USE Kinds DEF StopWait, Step, At, Goto, WaitUnless, IInv, waitVars, flagVars, callVars
<1>1. TypeOK'
  <2>1. Target \in CvObjects
    BY StopOrderIs, Sizes DEF TypeOK, StopInv, Stopping, Target, CvObjects
  <2> QED BY <2>1 DEF TypeOK
<1>2. StartInv'
  BY DEF TypeOK, StartInv
<1>3. StopInv'
  BY DEF TypeOK, StopInv, StopPhase, Stopping, Target
<1>4. CallInv'
  BY DEF TypeOK, CallInv
<1>5. WakeInv'
  BY DEF TypeOK, WakeInv
<1> QED BY <1>1, <1>2, <1>3, <1>4, <1>5

(* ... and joins it.                                                        *)
LEMMA JoinStep ==
  ASSUME IInv, Join
  PROVE  IInv'
<1> USE Kinds DEF Join, Step, At, Goto, Joinable, IInv, waitVars, flagVars, callVars
<1>1. TypeOK'
  <2>1. idx' \in [Threads -> 1 .. Len(StartOrder) + 1]
    BY Sizes, SMTT(30) DEF TypeOK, StopInv, Stopping
  <2> QED BY <2>1 DEF TypeOK
<1>2. StartInv'
  BY DEF TypeOK, StartInv
<1>3. StopInv'
  BY SMTT(30) DEF TypeOK, StopInv, StopPhase, Stopping, Target
<1>4. CallInv'
  BY DEF TypeOK, CallInv
<1>5. WakeInv'
  BY DEF TypeOK, WakeInv
<1> QED BY <1>1, <1>2, <1>3, <1>4, <1>5

(* comms_shutdown ends when all threads are joined.                         *)
LEMMA AnnounceShutdownStep ==
  ASSUME IInv, AnnounceShutdown
  PROVE  IInv'
<1> USE Kinds DEF AnnounceShutdown, Step, At, Goto, Notify, IInv, waitVars, flagVars, callVars
<1>1. TypeOK'
  BY DEF TypeOK, CvObjects
<1>2. StartInv'
  BY DEF TypeOK, StartInv
<1>3. StopInv'
  <2>1. ASSUME NEW t \in Workers PROVE pc[t] = "exit"
    <3>1. PICK j \in 1 .. Len(StopOrder) : StopOrder[j] = t
      BY StopOrderAll
    <3>2. j < idx[Main]
      BY Sizes DEF TypeOK, Stopping
    <3> QED BY <3>1, <3>2 DEF StopInv
  <2>2. \A x \in Threads : x # Main => pc'[x] = pc[x]
    BY DEF TypeOK
  <2>3. pc'[Main] = "shutdown"
    BY DEF TypeOK
  <2>4. \A t \in Workers : pc'[t] = "exit"
    BY <2>1, <2>2
  <2> QED BY <2>3, <2>4 DEF StopInv, StopPhase
<1>4. CallInv'
  BY DEF TypeOK, CallInv
<1>5. WakeInv'
  BY DEF TypeOK, WakeInv
<1> QED BY <1>1, <1>2, <1>3, <1>4, <1>5

(* The catch thread ends.                                                   *)
LEMMA CatchFailsStep ==
  ASSUME IInv, CatchFails
  PROVE  IInv'
<1> USE Kinds DEF CatchFails, Step, At, Goto, IInv, waitVars, flagVars, callVars
<1>1. TypeOK'
  BY DEF TypeOK, CvObjects
<1>2. StartInv'
  BY DEF TypeOK, StartInv
<1>3. StopInv'
  BY DEF TypeOK, StopInv, StopPhase, Stopping, Target
<1>4. CallInv'
  BY DEF TypeOK, CallInv
<1>5. WakeInv'
  BY DEF TypeOK, WakeInv
<1> QED BY <1>1, <1>2, <1>3, <1>4, <1>5

(* The program ends.                                                        *)
LEMMA DestroyStep ==
  ASSUME IInv, Destroy
  PROVE  IInv'
<1> USE Kinds DEF Destroy, Step, At, Goto, Joinable, IInv, waitVars, flagVars, callVars
<1>1. TypeOK'
  BY DEF TypeOK, CvObjects
<1>2. StartInv'
  BY DEF TypeOK, StartInv
<1>3. StopInv'
  BY DEF TypeOK, StopInv, StopPhase, Stopping, Target
<1>4. CallInv'
  BY DEF TypeOK, CallInv
<1>5. WakeInv'
  BY DEF TypeOK, WakeInv
<1> QED BY <1>1, <1>2, <1>3, <1>4, <1>5

(* A spurious wake-up.                                                      *)
LEMMA WakeSpuriouslyStep ==
  ASSUME IInv, NEW t \in Threads, WakeSpuriously(t)
  PROVE  IInv'
<1> USE Kinds DEF WakeSpuriously, IInv, waitVars, flagVars, callVars
<1>1. TypeOK'
  BY DEF TypeOK, CvObjects
<1>2. StartInv'
  BY DEF TypeOK, StartInv
<1>3. StopInv'
  BY DEF TypeOK, StopInv, StopPhase, Stopping, Target
<1>4. CallInv'
  BY DEF TypeOK, CallInv
<1>5. WakeInv'
  BY DEF TypeOK, WakeInv
<1> QED BY <1>1, <1>2, <1>3, <1>4, <1>5
-------------------------------------------------------------------------------
(* The invariant holds.                                                     *)

(* It holds before comms_start.                                             *)
LEMMA InitIInv == Init => IInv
<1> SUFFICES ASSUME Init PROVE IInv
  OBVIOUS
<1> USE Kinds DEF Init
<1>0. /\ \A t \in Threads : t \notin {Main, Aux} => pc[t] = "none"
      /\ pc[Main] = "start" /\ pc[Aux] = "launched"
      /\ idx[Main] = 1
  OBVIOUS
<1>1. TypeOK
  <2>1. /\ 1 \in 1 .. Len(StartOrder) + 1 /\ 0 \in 0 .. NWriters /\ 0 \in 0 .. MaxCalls
        /\ 0 \in 0 .. 1
    BY Sizes
  <2>2. idx \in [Threads -> 1 .. Len(StartOrder) + 1] /\ seen \in [{Main, Aux} -> 0 .. NWriters]
    BY <2>1
  <2>3. pc \in [Threads -> {"none", "launched", "start"}]
    OBVIOUS
  <2>4. calls \in [pending : 0 .. 1, ready : 0 .. 1, finishing : 0 .. MaxCalls]
    BY <2>1
  <2> QED BY <2>1, <2>2, <2>3, <2>4 DEF TypeOK
<1>2. StartInv
  <2>1. \A j \in 1 .. Len(StartOrder) : StartOrder[j] \in Workers /\ j >= 1
    BY Sizes, StartOrderIs
  <2> QED BY <1>0, <2>1 DEF StartInv
<1>3. StopInv
  BY <1>0 DEF StopInv, StopPhase
<1>4. CallInv
  BY <1>0 DEF CallInv
<1>5. WakeInv
  BY <1>0 DEF WakeInv
<1> QED BY <1>1, <1>2, <1>3, <1>4, <1>5 DEF IInv

(* Every step preserves it.                                                 *)
LEMMA NextIInv == IInv /\ [Next]_vars => IInv'
<1> SUFFICES ASSUME IInv, [Next]_vars PROVE IInv'
  OBVIOUS
<1> USE Kinds
<1>1. ASSUME NEW t \in {Main, Aux}, Await(t) PROVE IInv'
  BY <1>1, AwaitWriterStep, AwaitTornStep, AwaitCommsStep, UpStep DEF Await
<1>2. CASE MainStep
  BY <1>1, <1>2, SpawnStep, AnnounceStartStep, StopWorkerStep, StopServerStep, StopCqStep,
     StopWaitStep, JoinStep, AnnounceShutdownStep, DestroyStep DEF MainStep
<1>3. CASE BeginAwait(Main, "started") \/ BeginShutdown
  BY <1>3, BeginAwaitMainStep, BeginShutdownStep
<1>4. CASE AuxStep
  BY <1>1, <1>4, BeginAwaitAuxStep, CatchFailsStep DEF AuxStep
<1>5. ASSUME NEW r \in Readers, ReaderStep(r) PROVE IInv'
  BY <1>5, ReaderBeginStep, AnnounceWorkerStep, WorkerStopsStep, WorkerClosesStep DEF ReaderStep
<1>6. ASSUME NEW w \in Writers, WriterStep(w) PROVE IInv'
  BY <1>6, WriterBeginStep, WriterLockStep, AnnounceWorkerStep, WorkerStopsStep,
     WorkerClosesStep DEF WriterStep
<1>10. CASE ReceiverStep
  BY <1>10, ReceiverAwaitsStep, ReceiverBuildsStep, AnnounceReceiverStep, ReceiverRequestsStep,
     ReceiverProceedsStep,
     ReceiverDrainedStep, WorkerClosesStep DEF ReceiverStep
<1>7. CASE RequestArrives
  BY <1>7, RequestArrivesStep
<1>8. CASE \E t \in Threads : WakeSpuriously(t)
  BY <1>8, WakeSpuriouslyStep
<1>9. CASE Ended \/ UNCHANGED vars
  <2>1. UNCHANGED <<pc, idx, seen, asleep, started, stop, stopped, server, cqShut, calls, handled, crashed, met>>
    BY <1>9 DEF Ended, vars, waitVars, flagVars, callVars
  <2> QED BY <2>1 DEF IInv, TypeOK, StartInv, StopInv, CallInv, WakeInv, Stopping, Target
<1> QED BY <1>2, <1>3, <1>4, <1>5, <1>6, <1>7, <1>8, <1>9, <1>10 DEF Next

(* The inductive invariant is an invariant.                                 *)
LEMMA Invariance == Spec => []IInv
BY InitIInv, NextIInv, PTL DEF Spec
-------------------------------------------------------------------------------
(* The server is served to its end (comms_receiver.cc:125), once the        *)
(* receiver has made its first request: while it runs, one CallData waits   *)
(* for the next call or is about to make way for one that does, and none is *)
(* left that would ask for another when the completion queue is shut down.  *)
(* Of the first request, made after the start is announced, it says nothing.*)
THEOREM ServedToItsEnd == Spec => []Served
<1>1. IInv => Served
  BY DEF IInv, CallInv, Served, Accepting, NoRequestAfterShutdown
<1> QED BY <1>1, Invariance, PTL

(* However the start ended, comms_shutdown (comms.cc:156) stops the server  *)
(* after all writers and a reader after the receiver, and comms is destroyed*)
(* after all threads.                                                       *)
THEOREM StoppedInOrder == Spec => []StopsInOrder
<1>1. IInv => StopsInOrder
  <2> SUFFICES ASSUME IInv PROVE StopsInOrder
    OBVIOUS
  <2>1. \A t \in Threads : t \in Workers \/ t = Main \/ t = Aux
    BY DEF Threads
  <2> QED BY <2>1 DEF IInv, StopInv, StopsInOrder
<1> QED BY <1>1, Invariance, PTL

(* The invariant says that who relies on a thread finds it up.  Without     *)
(* writers nobody waits for the receiver (comms_writer.cc waits for it), and*)
(* a shutdown may find no server.                                           *)
LEMMA IInvReliedOnIsUp ==
  ASSUME IInv, NWriters > 0
  PROVE  ReliedOnIsUp
<1> USE Kinds
<1>0. TypeOK /\ StartInv /\ StopInv /\ CallInv /\ WakeInv
  BY DEF IInv
<1>1. Writer(1) \in Writers /\ 1 \in 1 .. NWriters
  BY Sizes DEF Writers
<1>2. ASSUME pc[Main] = "up", met = {}
      PROVE  AllStarted /\ server = "up"
  <2>1. Writers \subseteq started /\ Comms \in started
    BY <1>0, <1>2 DEF WakeInv, StartInv
  <2>2. server # "none" \/ Receiver \in stopped
    BY <1>0, <1>1, <1>2, <2>1 DEF WakeInv
  <2>3. server # "down"
    BY <1>0, <1>2 DEF StopInv, StopPhase
  <2>4. Receiver \notin stopped
    BY <1>0, <1>2, <2>3 DEF WakeInv, CallInv
  <2> QED BY <1>0, <2>1, <2>2, <2>3, <2>4 DEF TypeOK, AllStarted
<1>3. ASSUME pc[Main] = "stop", Stopping, Target = Receiver
      PROVE  server # "none" \/ Receiver \in stopped \/ "spurious" \in met
  <2>1. idx[Main] \in 1 .. Len(StopOrder) /\ idx[Main] # 1
    BY <1>0, <1>1, <1>3, Sizes, StopOrderIs DEF TypeOK, Stopping, Target
  <2>2. 1 \in 1 .. Len(StopOrder) /\ 1 < idx[Main] /\ StopOrder[1] = Writer(1)
    BY <1>1, <2>1, Sizes, StopOrderIs
  <2>3. pc[Writer(1)] = "exit"
    BY <1>0, <1>3, <2>2 DEF StopInv
  <2> QED BY <1>0, <1>1, <2>3 DEF WakeInv
<1> QED BY <1>2, <1>3 DEF ReliedOnIsUp

(* comms_wait_for_start returns when writers and server are up, and the     *)
(* shutdown uses only a server that was built, if there is a writer.        *)
THEOREM StartIsRelied ==
  ASSUME NWriters > 0
  PROVE  Spec => []ReliedOnIsUp
<1>1. IInv => ReliedOnIsUp
  BY IInvReliedOnIsUp
<1> QED BY <1>1, Invariance, PTL
===============================================================================
