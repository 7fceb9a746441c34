----------------------------- MODULE CommsBundles -----------------------------
(***************************************************************************)
(* The packet path of grpc/comms_v2_bundles: accessors fill one bundle per *)
(* end point and deposit full bundles in a bounded submit queue; writer    *)
(* threads transmit a bundle with retries and hand every packet back to    *)
(* the reap queue of the accessor that submitted it; comms_shutdown stops  *)
(* the writers one after the other.                                        *)
(*                                                                         *)
(* A packet is an identity.  Its 32-bit word shared by submit.dst and      *)
(* reap.rc (the union of comms.h:40-48) is header[p].  Queues are          *)
(* moodycamel::ConcurrentQueue objects, which keep one FIFO sub-queue per  *)
(* producing thread and promise no order between producers: the submit     *)
(* queue is one sequence per accessor, a reap queue (order irrelevant to   *)
(* the properties) is a set.  Capacities count elements, the block         *)
(* granularity of the library's pool is left out.  COMMS_SHORT_CIRCUIT is  *)
(* 0 in this build, so nothing is ever put in the catch queue.             *)
(*                                                                         *)
(* A name with a suffix, as in ReapRoom_OneShort, is a faulty variant of   *)
(* the definition after it: a property must notice the exchange.           *)
(***************************************************************************)
EXTENDS Integers, Sequences, FiniteSets

CONSTANTS
  Packets,      (* packet objects of the application                       *)
  Accessors,    (* comms_accessor_t objects, each used by one thread       *)
  Writers,      (* comms_writer_t threads (writer_thread_count)            *)
  EndPoints,    (* indices into end_points_                                *)
  Owner,        (* the accessor whose thread uses a packet                 *)
  BundleSize,   (* COMMS_BUNDLE_SIZE                                       *)
  SubmitCap,    (* capacity of submit_queue_, in bundles                   *)
  ReapCap,      (* capacity of a reap queue, in packets                    *)
  RetryCount,   (* writer_retry_count                                      *)
  ShutdownRule, (* what the application awaits before comms_shutdown       *)
  NoOne         (* no accessor / no end point                              *)

ASSUME ParamAssumption ==
  /\ IsFiniteSet(Packets)
  /\ IsFiniteSet(Accessors)
  /\ EndPoints \subseteq Nat
  /\ 0 \in EndPoints
  /\ Owner \in [Packets -> Accessors]
  /\ BundleSize \in Nat \ {0}
  /\ SubmitCap \in Nat
  /\ ReapCap \in Nat
  /\ RetryCount \in Nat
  /\ ShutdownRule \in {"any", "flushed", "reaped"}
  /\ NoOne \notin Accessors \cup EndPoints

VARIABLES
  held,       (* packets in the hands of the application                   *)
  header,     (* submit.dst, later overwritten by reap.rc                  *)
  opaque,     (* the reap queue (its accessor) stored in packet.opaque     *)
  batch,      (* packets submit_n has still to add                         *)
  todo,       (* end points submit_flush has still to visit                *)
  bouncing,   (* end point whose refused bundle spins into the reap queue  *)
  bundles,    (* submit_bundles_                                           *)
  submitQ,    (* submit_queue_, one sub-queue per producing accessor       *)
  reapQ,      (* reap_queue_ of each accessor                              *)
  live,       (* accessors not yet destroyed                               *)
  wpc,        (* control state of a writer thread                          *)
  cargo,      (* the bundle a writer works on                              *)
  tries,      (* retry counter of transmit_n                               *)
  deliveries, (* how often each peer got the packet, until it is reaped    *)
  lost,       (* packets whose try_enqueue to the reap queue failed        *)
  closing,    (* comms_t::shutting_down_                                   *)
  wstop,      (* writers whose shutting_down_ is set                       *)
  shutdown    (* comms_t::shutdown_                                        *)

appVars    == <<held, batch, todo, bouncing, bundles, live>>
packetVars == <<header, opaque, deliveries, lost>>
writerVars == <<wpc, cargo, tries>>
ctlVars    == <<closing, wstop, shutdown>>
vars == <<appVars, packetVars, submitQ, reapQ, writerVars, ctlVars>>

Undelivered == [e \in EndPoints |-> 0]

SUCCESS       == 0  \* COMMS_SUCCESS, also transmit_n ok
NOT_SCHEDULED == 1  \* COMMS_NOT_SCHEDULED, also transmit_n not ok

Init ==
  /\ held       = [a \in Accessors |-> {p \in Packets : Owner[p] = a}]
  /\ header     = [p \in Packets |-> SUCCESS]
  /\ opaque     = [p \in Packets |-> NoOne]
  /\ batch      = [a \in Accessors |-> {}]
  /\ todo       = [a \in Accessors |-> {}]
  /\ bouncing   = [a \in Accessors |-> NoOne]
  /\ bundles    = [a \in Accessors |-> [e \in EndPoints |-> {}]]
  /\ submitQ    = [a \in Accessors |-> <<>>]
  /\ reapQ      = [a \in Accessors |-> {}]
  /\ live       = Accessors
  /\ wpc        = [w \in Writers |-> "poll"]
  /\ cargo      = [w \in Writers |-> {}]
  /\ tries      = [w \in Writers |-> 0]
  /\ deliveries = [p \in Packets |-> Undelivered]
  /\ lost       = {}
  /\ closing    = FALSE
  /\ wstop      = {}
  /\ shutdown   = FALSE
-------------------------------------------------------------------------------
(* Application threads, comms_accessor.cc.                                  *)

Idle(a) == a \in live /\ batch[a] = {} /\ todo[a] = {} /\ bouncing[a] = NoOne

(* comms_submit up to the call of submit_n: the shutting_down_ check is not *)
(* atomic with what follows.  The application writes submit.dst first.      *)
Submit(a, S, dst) ==
  /\ Idle(a)
  /\ ~closing
  /\ S # {}
  /\ S \subseteq held[a]
  /\ held'   = [held EXCEPT ![a] = @ \ S]
  /\ batch'  = [batch EXCEPT ![a] = S]
  /\ header' = [p \in Packets |-> IF p \in S THEN dst[p] ELSE header[p]]
  /\ UNCHANGED <<todo, bouncing, bundles, live, opaque, deliveries, lost,
                 submitQ, reapQ, writerVars, ctlVars>>

(* The bundles in submit_queue_, whichever thread produced them.            *)
Queued == UNION {{a} \X (1 .. Len(submitQ[a])) : a \in Accessors}

SubmitRoom == Cardinality(Queued) < SubmitCap

ReapRoom_OneShort(a, n) == Cardinality(reapQ[a]) + n < ReapCap

ReapRoom(a, n) == Cardinality(reapQ[a]) + n <= ReapCap

Stamp_Missing(a, b) == UNCHANGED opaque

(* The reap queue of the accessor is noted in every packet of the bundle.   *)
Stamp(a, b) == opaque' = [p \in Packets |-> IF p \in b THEN a ELSE opaque[p]]

Clear_Missing(a, e) == UNCHANGED bundles

Clear(a, e) == bundles' = [bundles EXCEPT ![a][e] = {}]

Deposit_Forgets(a, e, b) ==
  /\ Stamp(a, b)
  /\ Clear(a, e)
  /\ \/ SubmitRoom /\ submitQ' = [submitQ EXCEPT ![a] = Append(@, b)]
     \/ ~SubmitRoom /\ UNCHANGED submitQ
  /\ UNCHANGED <<header, bouncing>>

(* comms_accessor_submit_bundle with contents b: the bundle is emptied when *)
(* it was deposited, and kept while its packets bounce to the reap queue.   *)
Deposit(a, e, b) ==
  /\ Stamp(a, b)
  /\ \/ /\ SubmitRoom
        /\ submitQ' = [submitQ EXCEPT ![a] = Append(@, b)]
        /\ Clear(a, e)
        /\ UNCHANGED <<header, bouncing>>
     \/ /\ ~SubmitRoom
        /\ header'   = [p \in Packets |-> IF p \in b THEN NOT_SCHEDULED
                                                     ELSE header[p]]
        /\ bundles'  = [bundles EXCEPT ![a][e] = b]
        /\ bouncing' = [bouncing EXCEPT ![a] = e]
        /\ UNCHANGED submitQ

BundleFull(b) == Cardinality(b) = BundleSize

Target_First(p) == 0

Target(p) == header[p]

(* One turn of the loop of submit_n.                                        *)
AddPacket(a, p) ==
  LET e == Target(p)
      b == bundles[a][e] \cup {p}
  IN /\ p \in batch[a]
     /\ bouncing[a] = NoOne
     /\ batch' = [batch EXCEPT ![a] = @ \ {p}]
     /\ \/ BundleFull(b) /\ Deposit(a, e, b)
        \/ /\ ~BundleFull(b)
           /\ bundles' = [bundles EXCEPT ![a][e] = b]
           /\ UNCHANGED <<header, opaque, submitQ, bouncing>>
     /\ UNCHANGED <<held, todo, live, deliveries, lost, reapQ, writerVars,
                    ctlVars>>

(* comms_submit_flush up to submit_flush, and one turn of its loop: every   *)
(* bundle is deposited, the empty ones too.                                 *)
Flush(a) ==
  /\ Idle(a)
  /\ ~closing
  /\ todo' = [todo EXCEPT ![a] = EndPoints]
  /\ UNCHANGED <<held, batch, bouncing, bundles, live, packetVars, submitQ,
                 reapQ, writerVars, ctlVars>>

FlushEndPoint(a, e) ==
  /\ e \in todo[a]
  /\ \A f \in todo[a] : e <= f
  /\ bouncing[a] = NoOne
  /\ todo' = [todo EXCEPT ![a] = @ \ {e}]
  /\ Deposit(a, e, bundles[a][e])
  /\ UNCHANGED <<held, batch, live, deliveries, lost, reapQ, writerVars,
                 ctlVars>>

(* The spin of comms_accessor_submit_bundle ends: the refused packets are   *)
(* in the reap queue and the bundle is cleared.                             *)
Bounce(a, e) ==
  /\ bouncing[a] = e
  /\ ReapRoom(a, Cardinality(bundles[a][e]))
  /\ reapQ' = [reapQ EXCEPT ![a] = @ \cup bundles[a][e]]
  /\ Clear(a, e)
  /\ bouncing' = [bouncing EXCEPT ![a] = NoOne]
  /\ UNCHANGED <<held, batch, todo, live, packetVars, submitQ, writerVars,
                 ctlVars>>

(* comms_reap: some of the packets of the accessor's own queue.             *)
Reap(a, S) ==
  /\ Idle(a)
  /\ S # {}
  /\ S \subseteq reapQ[a]
  /\ reapQ' = [reapQ EXCEPT ![a] = @ \ S]
  /\ held'  = [held EXCEPT ![a] = @ \cup S]
  /\ deliveries' = [p \in Packets |-> IF p \in S THEN Undelivered
                                                   ELSE deliveries[p]]
  /\ UNCHANGED <<batch, todo, bouncing, bundles, live, header, opaque, lost,
                 submitQ, writerVars, ctlVars>>

(* comms_accessor_destroy, called as main.cc does: after the shutdown.      *)
Destroy(a) ==
  /\ Idle(a)
  /\ shutdown
  /\ live' = live \ {a}
  /\ UNCHANGED <<held, batch, todo, bouncing, bundles, packetVars, submitQ,
                 reapQ, writerVars, ctlVars>>
-------------------------------------------------------------------------------
(* Writer threads, comms_writer.cc:36-61 and EndPoint::transmit_n.          *)

Take(w, a) ==
  /\ wpc[w] = "poll"
  /\ submitQ[a] # <<>>
  /\ cargo'   = [cargo EXCEPT ![w] = Head(submitQ[a])]
  /\ submitQ' = [submitQ EXCEPT ![a] = Tail(@)]
  /\ wpc'     = [wpc EXCEPT ![w] = "send"]
  /\ UNCHANGED <<appVars, packetVars, reapQ, tries, ctlVars>>

(* Every bundle is transmitted through end_points_[0] (comms_writer.cc:48), *)
(* whichever end point it was filled for.                                   *)
Gateway == 0

Arrive(S) ==
  deliveries' = [p \in Packets |-> [e \in EndPoints |->
                   deliveries[p][e] + IF p \in S /\ e = Gateway THEN 1 ELSE 0]]

(* The Send RPC answers OK.                                                 *)
TransmitOk(w) ==
  /\ wpc[w] = "send"
  /\ Arrive(cargo[w])
  /\ wpc'   = [wpc EXCEPT ![w] = "ok"]
  /\ tries' = [tries EXCEPT ![w] = 0]
  /\ UNCHANGED <<appVars, header, opaque, lost, submitQ, reapQ, cargo, ctlVars>>

LastTry_OneTooMany(w) == tries[w] = RetryCount + 1

LastTry(w) == tries[w] = RetryCount

(* The Send RPC fails, before or after the peer handled the request.        *)
TransmitError(w) ==
  /\ wpc[w] = "send"
  /\ Arrive(cargo[w]) \/ UNCHANGED deliveries
  /\ \/ /\ LastTry(w)
        /\ wpc'   = [wpc EXCEPT ![w] = "failed"]
        /\ tries' = [tries EXCEPT ![w] = 0]
     \/ /\ ~LastTry(w)
        /\ tries' = [tries EXCEPT ![w] = @ + 1]
        /\ UNCHANGED wpc
  /\ UNCHANGED <<appVars, header, opaque, lost, submitQ, reapQ, cargo, ctlVars>>

Verdict_Optimistic(w) == SUCCESS

Verdict(w) == IF wpc[w] = "ok" THEN SUCCESS ELSE NOT_SCHEDULED

(* One turn of the loop that returns the packets; the result of the         *)
(* try_enqueue is ignored.                                                  *)
HandBack(w, p) ==
  /\ wpc[w] \in {"ok", "failed"}
  /\ p \in cargo[w]
  /\ header' = [header EXCEPT ![p] = Verdict(w)]
  /\ cargo'  = [cargo EXCEPT ![w] = @ \ {p}]
  /\ \/ /\ ReapRoom(opaque[p], 1)
        /\ reapQ' = [reapQ EXCEPT ![opaque[p]] = @ \cup {p}]
        /\ UNCHANGED lost
     \/ /\ ~ReapRoom(opaque[p], 1)
        /\ lost' = lost \cup {p}
        /\ UNCHANGED reapQ
  /\ UNCHANGED <<appVars, opaque, deliveries, submitQ, wpc, tries, ctlVars>>

BundleDone(w) ==
  /\ wpc[w] \in {"ok", "failed"}
  /\ cargo[w] = {}
  /\ wpc' = [wpc EXCEPT ![w] = "poll"]
  /\ UNCHANGED <<appVars, packetVars, submitQ, reapQ, cargo, tries, ctlVars>>

(* try_dequeue finds nothing; shutting_down_ is read only afterwards, when *)
(* the queue may have been filled again.                                    *)
PollEmpty(w) ==
  /\ wpc[w] = "poll"
  /\ \A a \in Accessors : submitQ[a] = <<>>
  /\ wpc' = [wpc EXCEPT ![w] = "empty"]
  /\ UNCHANGED <<appVars, packetVars, submitQ, reapQ, cargo, tries, ctlVars>>

Stopping_Always(w) == TRUE

Stopping(w) == w \in wstop

CheckStop(w) ==
  /\ wpc[w] = "empty"
  /\ wpc' = [wpc EXCEPT ![w] = IF Stopping(w) THEN "exit" ELSE "poll"]
  /\ UNCHANGED <<appVars, packetVars, submitQ, reapQ, cargo, tries, ctlVars>>
-------------------------------------------------------------------------------
(* comms_t::shutdown: the writers are stopped and waited for one by one.    *)

(* Three ways to use the API: at any time; after comms_submit_flush, as its *)
(* error text asks (comms.cc:312); after all packets came back (main.cc:203)*)
Quiet(a) ==
  /\ Idle(a)
  /\ \A e \in EndPoints : bundles[a][e] = {}
  /\ ShutdownRule = "reaped" => \A p \in Packets : Owner[p] = a => p \in held[a]

BeginShutdown ==
  /\ ~closing
  /\ ShutdownRule # "any" => \A a \in Accessors : Quiet(a)
  /\ closing' = TRUE
  /\ UNCHANGED <<appVars, packetVars, submitQ, reapQ, writerVars, wstop,
                 shutdown>>

Exited(W) == \A w \in W : wpc[w] = "exit"

StopWriter(w) ==
  /\ closing
  /\ w \notin wstop
  /\ Exited(wstop)
  /\ wstop' = wstop \cup {w}
  /\ UNCHANGED <<appVars, packetVars, submitQ, reapQ, writerVars, closing,
                 shutdown>>

FinishShutdown ==
  /\ closing
  /\ ~shutdown
  /\ wstop = Writers
  /\ Exited(Writers)
  /\ shutdown' = TRUE
  /\ UNCHANGED <<appVars, packetVars, submitQ, reapQ, writerVars, closing,
                 wstop>>

(* The program has ended.                                                   *)
Ended == shutdown /\ live = {} /\ UNCHANGED vars
-------------------------------------------------------------------------------
Call(a) ==
  \/ \E S \in SUBSET held[a] : \E dst \in [S -> EndPoints] : Submit(a, S, dst)
  \/ Flush(a)
  \/ \E S \in SUBSET reapQ[a] : Reap(a, S)
  \/ Destroy(a)

CallStep(a) ==
  \/ \E p \in batch[a] : AddPacket(a, p)
  \/ \E e \in EndPoints : FlushEndPoint(a, e) \/ Bounce(a, e)

WriterStep(w) ==
  \/ \E a \in Accessors : Take(w, a)
  \/ TransmitOk(w)
  \/ TransmitError(w)
  \/ \E p \in cargo[w] : HandBack(w, p)
  \/ BundleDone(w)
  \/ PollEmpty(w)
  \/ CheckStop(w)

ShutdownStep == (\E w \in Writers : StopWriter(w)) \/ FinishShutdown

Next ==
  \/ \E a \in Accessors : Call(a) \/ CallStep(a)
  \/ \E w \in Writers : WriterStep(w)
  \/ BeginShutdown
  \/ ShutdownStep
  \/ Ended

Spec == Init /\ [][Next]_vars

(* Threads run; the application need not call, nor ever shut down.          *)
Fairness ==
  /\ \A a \in Accessors : WF_vars(CallStep(a))
  /\ \A w \in Writers : WF_vars(WriterStep(w))
  /\ WF_vars(ShutdownStep)

FairSpec == Spec /\ Fairness
-------------------------------------------------------------------------------
TypeOK ==
  /\ held       \in [Accessors -> SUBSET Packets]
  /\ header     \in [Packets -> EndPoints \cup {SUCCESS, NOT_SCHEDULED}]
  /\ opaque     \in [Packets -> Accessors \cup {NoOne}]
  /\ batch      \in [Accessors -> SUBSET Packets]
  /\ todo       \in [Accessors -> SUBSET EndPoints]
  /\ bouncing   \in [Accessors -> EndPoints \cup {NoOne}]
  /\ bundles    \in [Accessors -> [EndPoints -> SUBSET Packets]]
  /\ submitQ    \in [Accessors -> Seq(SUBSET Packets)]
  /\ reapQ      \in [Accessors -> SUBSET Packets]
  /\ live       \in SUBSET Accessors
  /\ wpc        \in [Writers -> {"poll", "send", "ok", "failed", "empty", "exit"}]
  /\ cargo      \in [Writers -> SUBSET Packets]
  /\ tries      \in [Writers -> 0 .. RetryCount]
  /\ deliveries \in [Packets -> [EndPoints -> Nat]]
  /\ lost       \in SUBSET Packets
  /\ closing    \in BOOLEAN
  /\ wstop      \in SUBSET Writers
  /\ shutdown   \in BOOLEAN
-------------------------------------------------------------------------------
InBundles(a, p) == \E e \in EndPoints : p \in bundles[a][e]
InQueue(a, p) == \E i \in 1 .. Len(submitQ[a]) : p \in submitQ[a][i]
Carried(p) == \E w \in Writers : p \in cargo[w]

With(a, p) == \/ p \in held[a] \cup batch[a] \cup reapQ[a]
              \/ InBundles(a, p)
              \/ InQueue(a, p)

NothingVanishes ==
  \A p \in Packets : Carried(p) \/ \E a \in Accessors : With(a, p)

(* A packet never changes hands between accessors: it comes back through    *)
(* the reap queue of the accessor that submitted it (packet.opaque).        *)
StaysHome ==
  /\ \A a \in Accessors, p \in Packets : With(a, p) => Owner[p] = a
  /\ \A w \in Writers : \A p \in cargo[w] : opaque[p] = Owner[p]

(* A packet is in one place only, so it is transmitted by one writer and    *)
(* reaped once per submission: no two of the application, the call in       *)
(* progress, a bundle, the submit queue, a writer, the reap queue and the   *)
(* lost packets have it together.                                           *)
Alone(p) ==
  LET a == Owner[p]
  IN /\ p \in held[a] =>
          /\ p \notin batch[a] \cup reapQ[a] \cup lost
          /\ ~InBundles(a, p) /\ ~InQueue(a, p) /\ ~Carried(p)
     /\ p \in batch[a] =>
          /\ p \notin reapQ[a] \cup lost
          /\ ~InBundles(a, p) /\ ~InQueue(a, p) /\ ~Carried(p)
     /\ p \in reapQ[a] =>
          p \notin lost /\ ~InBundles(a, p) /\ ~InQueue(a, p) /\ ~Carried(p)
     /\ InBundles(a, p) => p \notin lost /\ ~InQueue(a, p) /\ ~Carried(p)
     /\ InQueue(a, p) => p \notin lost /\ ~Carried(p)
     /\ p \in lost => ~Carried(p)
     /\ \A e, f \in EndPoints : p \in bundles[a][e] \cap bundles[a][f] => e = f
     /\ \A i, j \in 1 .. Len(submitQ[a]) :
          p \in submitQ[a][i] \cap submitQ[a][j] => i = j
     /\ \A v, w \in Writers : p \in cargo[v] \cap cargo[w] => v = w

OnePlace == \A p \in Packets : Alone(p)

NoOverrun ==
  \A a \in Accessors, e \in EndPoints :
    /\ Cardinality(bundles[a][e]) <= BundleSize
    /\ bouncing[a] # e => Cardinality(bundles[a][e]) < BundleSize

(* Whatever is full, no packet is lost and no array overrun.  Every packet  *)
(* is somewhere, although the writers ignore the result of try_enqueue      *)
(* (comms_writer.cc:54), when a reap queue has room for all packets of its  *)
(* accessor.  A bundle, whose fixed array is guarded only by an equality    *)
(* (comms_accessor.cc:52), is full only while its refused packets wait for  *)
(* the reap queue.                                                          *)
Kept == NothingVanishes /\ NoOverrun

HeaderIsAddress ==
  \A a \in Accessors, e \in EndPoints :
    bouncing[a] # e => \A p \in bundles[a][e] : header[p] = e

NoDangling ==
  /\ \A w \in Writers : \A p \in cargo[w] : opaque[p] \in live
  /\ shutdown => \A w \in Writers : cargo[w] = {}

(* The header of a packet is what its next reader takes it for: the union   *)
(* of address and code holds the address of the bundle's end point until    *)
(* the result overwrites it (comms_writer.cc:53), and the reap queue that   *)
(* opaque points to is not destroyed while a writer has the packet, if      *)
(* accessors are destroyed after the shutdown.                              *)
HeaderIsValid == HeaderIsAddress /\ NoDangling

(* What was deposited comes back, as long as comms is not shut down.        *)
DepositComesBack ==
  \A a \in Accessors : \A p \in Packets : InQueue(a, p) ~> (p \in reapQ[a] \/ closing)

(* Every call of comms_submit, comms_submit_flush or comms_shutdown ends.   *)
CallsReturn ==
  /\ \A a \in Accessors : ~Idle(a) ~> (Idle(a) \/ a \notin live)
  /\ closing ~> shutdown

(* What the layer has made of each packet, as PacketLedger sees it.         *)
Status ==
  [p \in Packets |->
     IF p \in held[Owner[p]] THEN "app"
     ELSE IF p \notin reapQ[Owner[p]] THEN "pending"
     ELSE IF header[p] = SUCCESS THEN "success" ELSE "failure"]

Ledger == INSTANCE PacketLedger WITH
  Peers <- EndPoints, MaxDeliveries <- RetryCount + 1, status <- Status

(* The layer keeps the promise of PacketLedger: every accepted packet is    *)
(* settled once, reaches the peer of the first end point at most            *)
(* RetryCount + 1 times before, is reported as sent only when that peer got *)
(* it, even if its destination is another one, which never gets it.         *)
LedgerSpec == Ledger!Spec
===============================================================================
