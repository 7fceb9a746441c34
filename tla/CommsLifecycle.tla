----------------------------- MODULE CommsLifecycle -----------------------------
(***************************************************************************)
(* Start and shutdown of grpc/comms_v2_bundles (and of grpc/comms_v2, which*)
(* has the same code): the application thread starts reader, receiver and  *)
(* writer threads, which wait for each other, and later stops them one by  *)
(* one; the catch thread of main.cc waits for the start concurrently.      *)
(*                                                                         *)
(* Every wait is a condition variable wait without a loop: the flag is     *)
(* tested under the mutex, and what follows the wait runs whatever the flag*)
(* is then.  asleep[t] is the condition variable t is blocked on; pc[t] is *)
(* already the step after the wait.  Notifying is one step with setting the*)
(* flag, both are under the mutex.                                         *)
(*                                                                         *)
(* A name with a suffix, as in Notify_One, is a faulty variant of the      *)
(* definition after it.                                                    *)
(***************************************************************************)
EXTENDS Naturals, Sequences, FiniteSets

CONSTANTS
  NReaders,   (* reader_thread_count                                       *)
  NWriters,   (* writer_thread_count                                       *)
  MaxCalls,   (* bound: requests that the receiver gets                    *)
  Faults      (* bind: BuildAndStart fails, spurious: spurious wake-ups    *)

ASSUME LifecycleAssumption ==
  NReaders \in Nat /\ NWriters \in Nat /\ MaxCalls \in Nat
  /\ Faults \subseteq {"bind", "spurious"}

Reader(i) == <<"reader", i>>
Writer(i) == <<"writer", i>>
Receiver  == <<"receiver", 1>>
Comms     == <<"comms", 1>>
Main      == <<"main", 1>>
Aux       == <<"catch", 1>>

Readers == {Reader(i) : i \in 1 .. NReaders}
Writers == {Writer(i) : i \in 1 .. NWriters}
Workers == Readers \cup Writers \cup {Receiver}
Threads == Workers \cup {Main, Aux}

StartOrder ==
  [i \in 1 .. NReaders |-> Reader(i)] \o <<Receiver>> \o [i \in 1 .. NWriters |-> Writer(i)]

StopOrder ==
  [i \in 1 .. NWriters |-> Writer(i)] \o <<Receiver>> \o [i \in 1 .. NReaders |-> Reader(i)]

VARIABLES
  pc,       (* control state of a thread, "none" before it is created      *)
  idx,      (* loop index of the main, catch and receiver threads          *)
  seen,     (* writers_.end() in wait_for_start                            *)
  asleep,   (* condition variable <<flag, object>>, or <<>>                *)
  started,  (* objects whose started_ is set                               *)
  stop,     (* threads whose shutting_down_ is set                         *)
  stopped,  (* objects whose shutdown_ is set                              *)
  server,   (* server_: none, up or down                                   *)
  cqShut,   (* the completion queue of the receiver is shut down           *)
  calls,    (* CallData objects: pending, ready to process, finishing      *)
  handled,  (* requests so far                                             *)
  crashed,  (* null pointer or freed memory used, assertion, or exit(1)    *)
  met       (* faults that happened so far                                 *)

waitVars == <<idx, seen>>
flagVars == <<started, stop, stopped>>
callVars == <<server, cqShut, calls, handled>>
vars == <<pc, waitVars, asleep, flagVars, callVars, crashed, met>>

Init ==
  /\ pc      = [t \in Threads |-> IF t = Main THEN "start"
                                  ELSE IF t = Aux THEN "launched" ELSE "none"]
  /\ idx     = [t \in Threads |-> 1]
  /\ seen    = [t \in {Main, Aux} |-> 0]
  /\ asleep  = [t \in Threads |-> <<>>]
  /\ started = {}
  /\ stop    = {}
  /\ stopped = {}
  /\ server  = "none"
  /\ cqShut  = FALSE
  /\ calls   = [pending |-> 0, ready |-> 0, finishing |-> 0]
  /\ handled = 0
  /\ crashed = FALSE
  /\ met     = {}

(* Thread t is at location from and goes on to location to.                 *)
At(t, from) == ~crashed /\ pc[t] = from /\ asleep[t] = <<>>

Goto(t, to) == pc' = [pc EXCEPT ![t] = to]

Step(t, from, to) == At(t, from) /\ Goto(t, to)

(* notify_all on a condition variable; or t falls asleep on it, unless its  *)
(* flag is set (flagged).                                                   *)
Notify_One(cv) ==
  \/ \E t \in Threads :
       asleep[t] = cv /\ asleep' = [asleep EXCEPT ![t] = <<>>]
  \/ (\A t \in Threads : asleep[t] # cv) /\ UNCHANGED asleep

Notify(cv) ==
  asleep' = [t \in Threads |-> IF asleep[t] = cv THEN <<>> ELSE asleep[t]]

WaitUnless(flagged, t, cv) ==
  asleep' = [asleep EXCEPT ![t] = IF flagged THEN <<>> ELSE cv]

(* A bound: there is one spurious wake-up.                                  *)
WakeSpuriously(t) ==
  /\ "spurious" \in Faults \ met
  /\ ~crashed
  /\ asleep[t] # <<>>
  /\ asleep' = [asleep EXCEPT ![t] = <<>>]
  /\ met' = met \cup {"spurious"}
  /\ UNCHANGED <<pc, waitVars, flagVars, callVars, crashed>>
-------------------------------------------------------------------------------
(* comms_t::start on the application thread.                                *)

Spawn ==
  /\ At(Main, "start")
  /\ idx[Main] <= Len(StartOrder)
  /\ Goto(StartOrder[idx[Main]], "begin")
  /\ idx' = [idx EXCEPT ![Main] = @ + 1]
  /\ UNCHANGED <<seen, asleep, flagVars, callVars, crashed, met>>

AnnounceStart ==
  /\ Step(Main, "start", "started")
  /\ idx[Main] > Len(StartOrder)
  /\ started' = started \cup {Comms}
  /\ Notify(<<"started", Comms>>)
  /\ UNCHANGED <<waitVars, stop, stopped, callVars, crashed, met>>

Pushed == Cardinality({w \in Writers : pc[w] # "none"})

(* comms_t::wait_for_start: the loop over writers_ ...                      *)
BeginAwait(t, from) ==
  /\ Step(t, from, "await")
  /\ idx'  = [idx EXCEPT ![t] = 1]
  /\ seen' = [seen EXCEPT ![t] = Pushed]
  /\ UNCHANGED <<asleep, flagVars, callVars, crashed, met>>

Awaited(t) == Writer(idx[t])

AwaitWriter(t) ==
  /\ At(t, "await")
  /\ idx[t] <= seen[t]
  /\ idx' = [idx EXCEPT ![t] = @ + 1]
  /\ WaitUnless(Awaited(t) \in started, t, <<"started", Awaited(t)>>)
  /\ UNCHANGED <<pc, seen, flagVars, callVars, crashed, met>>

(* ... which uses freed memory when writers_ has grown meanwhile ...        *)
AwaitTorn(t) ==
  /\ At(t, "await")
  /\ idx[t] <= seen[t]
  /\ seen[t] < Pushed
  /\ crashed' = TRUE
  /\ UNCHANGED <<pc, waitVars, asleep, flagVars, callVars, met>>

(* ... and the wait for started_ (timeout 0), which returns started_.       *)
AwaitComms(t) ==
  /\ Step(t, "await", "awaited")
  /\ idx[t] > seen[t]
  /\ WaitUnless(Comms \in started, t, <<"started", Comms>>)
  /\ UNCHANGED <<waitVars, flagVars, callVars, crashed, met>>

Up(t) ==
  /\ Step(t, "awaited", "up")
  /\ crashed' = (Comms \notin started)
  /\ UNCHANGED <<waitVars, asleep, flagVars, callVars, met>>
-------------------------------------------------------------------------------
(* Reader, receiver and writer threads.                                     *)

AnnounceWorker(c, to) ==
  /\ Step(c, "announce", to)
  /\ started' = started \cup {c}
  /\ Notify(<<"started", c>>)
  /\ UNCHANGED <<waitVars, stop, stopped, callVars, crashed, met>>

ReaderBegin(r) ==
  /\ Step(r, "begin", "announce")
  /\ UNCHANGED <<waitVars, asleep, flagVars, callVars, crashed, met>>

(* receiver->wait_for_start of a writer: two unlocked reads, then the wait. *)
WriterBegin_NoWait(w) ==
  /\ Step(w, "begin", "announce")
  /\ UNCHANGED <<waitVars, asleep, flagVars, callVars, crashed, met>>

WriterBegin(w) ==
  /\ Step(w, "begin", IF Receiver \in stopped \cup stop THEN "announce" ELSE "lock")
  /\ UNCHANGED <<waitVars, asleep, flagVars, callVars, crashed, met>>

WriterLock(w) ==
  /\ Step(w, "lock", "announce")
  /\ WaitUnless(Receiver \in started, w, <<"started", Receiver>>)
  /\ UNCHANGED <<waitVars, flagVars, callVars, crashed, met>>

(* The loop of a reader or writer ends when it sees shutting_down_.         *)
WorkerStops(c) ==
  /\ Step(c, "work", "close")
  /\ c \in stop
  /\ UNCHANGED <<waitVars, asleep, flagVars, callVars, crashed, met>>

Locked_Spinning(c) == pc[Main] = "join" /\ StopOrder[idx[Main]] = c

(* wait_for_shutdown joins the thread with its shutdown_mtx_ locked.        *)
Locked(c) == pc[Main] = "join" /\ asleep[Main] = <<>> /\ StopOrder[idx[Main]] = c

WorkerCloses(c) ==
  /\ Step(c, "close", "exit")
  /\ ~Locked(c)
  /\ stopped' = stopped \cup {c}
  /\ Notify(<<"stopped", c>>)
  /\ UNCHANGED <<waitVars, started, stop, callVars, crashed, met>>

ReceiverAwaits ==
  /\ At(Receiver, "begin")
  /\ idx[Receiver] <= NReaders
  /\ idx' = [idx EXCEPT ![Receiver] = @ + 1]
  /\ LET r == Reader(idx[Receiver])
     IN WaitUnless(r \in started, Receiver, <<"started", r>>)
  /\ UNCHANGED <<pc, seen, flagVars, callVars, crashed, met>>

(* BuildAndStart.                                                           *)
ReceiverBuilds ==
  /\ At(Receiver, "begin")
  /\ idx[Receiver] > NReaders
  /\ \/ /\ Goto(Receiver, "announce")
        /\ server' = "up"
        /\ UNCHANGED met
     \/ /\ "bind" \in Faults
        /\ Goto(Receiver, "close")
        /\ met' = met \cup {"bind"}
        /\ UNCHANGED server
  /\ UNCHANGED <<waitVars, asleep, flagVars, cqShut, calls, handled, crashed>>

(* The first CallData, after the start was announced.  gRPC ends the program*)
(* when a call is requested on a completion queue that is shut down.        *)
ReceiverRequests ==
  /\ Step(Receiver, "request", "serve")
  /\ calls'   = [calls EXCEPT !.pending = IF cqShut THEN @ ELSE 1]
  /\ crashed' = cqShut
  /\ UNCHANGED <<waitVars, asleep, flagVars, server, cqShut, handled, met>>

(* A peer calls Send: the pending CallData becomes ready to be processed.   *)
RequestArrives ==
  /\ ~crashed
  /\ server = "up"
  /\ handled < MaxCalls
  /\ calls.pending > 0
  /\ calls'   = [calls EXCEPT !.pending = @ - 1, !.ready = @ + 1]
  /\ handled' = handled + 1
  /\ UNCHANGED <<pc, waitVars, asleep, flagVars, server, cqShut, crashed, met>>

(* CallData::Proceed: a new CallData, then Finish.                          *)
Processed == [calls EXCEPT !.ready = @ - 1, !.pending = @ + 1, !.finishing = @ + 1]

ReceiverProceeds ==
  /\ At(Receiver, "serve")
  /\ \/ calls.ready > 0 /\ calls' = Processed
     \/ calls.finishing > 0 /\ calls' = [calls EXCEPT !.finishing = @ - 1]
     \/ /\ calls.pending > 0 /\ server = "down"
        /\ calls' = [calls EXCEPT !.pending = @ - 1]
  /\ UNCHANGED <<pc, waitVars, asleep, flagVars, server, cqShut, handled, crashed, met>>

ReceiverDrained ==
  /\ Step(Receiver, "serve", "close")
  /\ cqShut
  /\ calls = [pending |-> 0, ready |-> 0, finishing |-> 0]
  /\ UNCHANGED <<waitVars, asleep, flagVars, callVars, crashed, met>>
-------------------------------------------------------------------------------
(* comms_t::shutdown on the application thread, with or without a           *)
(* comms_wait_for_start before it.                                          *)

BeginShutdown ==
  /\ Step(Main, "started", "stop") \/ Step(Main, "up", "stop")
  /\ idx' = [idx EXCEPT ![Main] = 1]
  /\ UNCHANGED <<seen, asleep, flagVars, callVars, crashed, met>>

Stopping == idx[Main] <= Len(StopOrder)
Target   == StopOrder[idx[Main]]

StopWorker ==
  /\ Step(Main, "stop", "stopwait")
  /\ Stopping
  /\ Target # Receiver
  /\ stop' = stop \cup {Target}
  /\ UNCHANGED <<waitVars, asleep, started, stopped, callVars, crashed, met>>

(* server_->Shutdown(), unless the receiver is gone already ...             *)
StopServer ==
  /\ At(Main, "stop")
  /\ Stopping
  /\ Target = Receiver
  /\ \/ Receiver \in stopped \cup stop /\ Goto(Main, "stopwait") /\ UNCHANGED <<server, crashed>>
     \/ /\ Receiver \notin stopped \cup stop
        /\ Goto(Main, "stopcq")
        /\ crashed' = (server = "none")
        /\ server' = "down"
  /\ UNCHANGED <<waitVars, asleep, flagVars, cqShut, calls, handled, met>>

Answered_Unawaited == TRUE

(* (it returns when all requests are answered)                              *)
Answered == calls.ready = 0

(* ... then cq_->Shutdown() and shutting_down_.                             *)
StopCq ==
  /\ Step(Main, "stopcq", "stopwait")
  /\ Answered
  /\ cqShut' = TRUE
  /\ stop'   = stop \cup {Receiver}
  /\ UNCHANGED <<waitVars, asleep, started, stopped, server, calls, handled, crashed, met>>

StopWait ==
  /\ Step(Main, "stopwait", "join")
  /\ WaitUnless(Target \in stopped, Main, <<"stopped", Target>>)
  /\ UNCHANGED <<waitVars, flagVars, callVars, crashed, met>>

Joinable_Unawaited(c) == TRUE

Joinable(c) == pc[c] = "exit"

Join ==
  /\ Step(Main, "join", "stop")
  /\ Joinable(Target)
  /\ idx' = [idx EXCEPT ![Main] = @ + 1]
  /\ UNCHANGED <<seen, asleep, flagVars, callVars, crashed, met>>

AnnounceShutdown ==
  /\ Step(Main, "stop", "shutdown")
  /\ ~Stopping
  /\ stopped' = stopped \cup {Comms}
  /\ Notify(<<"stopped", Comms>>)
  /\ UNCHANGED <<waitVars, started, stop, callVars, crashed, met>>

(* comms_catch fails once comms is shut down: the catch thread ends.        *)
CatchFails ==
  /\ Step(Aux, "up", "exit")
  /\ Comms \in stopped
  /\ UNCHANGED <<waitVars, asleep, flagVars, callVars, crashed, met>>

(* main joins the catch thread and destroys the comms object.               *)
Destroy ==
  /\ Step(Main, "shutdown", "exit")
  /\ Joinable(Aux)
  /\ UNCHANGED <<waitVars, asleep, flagVars, callVars, crashed, met>>

Ended == (crashed \/ pc[Main] = "exit") /\ UNCHANGED vars
-------------------------------------------------------------------------------
Await(t) == AwaitWriter(t) \/ AwaitTorn(t) \/ AwaitComms(t) \/ Up(t)

MainStep ==
  \/ Spawn \/ AnnounceStart \/ Await(Main)
  \/ StopWorker \/ StopServer \/ StopCq \/ StopWait \/ Join
  \/ AnnounceShutdown \/ Destroy

AuxStep == BeginAwait(Aux, "launched") \/ Await(Aux) \/ CatchFails

ReaderStep(r) ==
  ReaderBegin(r) \/ AnnounceWorker(r, "work") \/ WorkerStops(r) \/ WorkerCloses(r)

WriterStep(w) ==
  \/ WriterBegin(w) \/ WriterLock(w) \/ AnnounceWorker(w, "work")
  \/ WorkerStops(w) \/ WorkerCloses(w)

ReceiverStep ==
  \/ ReceiverAwaits \/ ReceiverBuilds \/ AnnounceWorker(Receiver, "request")
  \/ ReceiverRequests
  \/ ReceiverProceeds \/ ReceiverDrained \/ WorkerCloses(Receiver)

Next ==
  \/ MainStep
  \/ BeginAwait(Main, "started")
  \/ BeginShutdown
  \/ AuxStep
  \/ \E r \in Readers : ReaderStep(r)
  \/ \E w \in Writers : WriterStep(w)
  \/ ReceiverStep
  \/ RequestArrives
  \/ \E t \in Threads : WakeSpuriously(t)
  \/ Ended

Spec == Init /\ [][Next]_vars

(* Every thread runs.  The application need not shut comms down.            *)
Fairness ==
  /\ WF_vars(MainStep) /\ WF_vars(AuxStep) /\ WF_vars(ReceiverStep)
  /\ \A r \in Readers : WF_vars(ReaderStep(r))
  /\ \A w \in Writers : WF_vars(WriterStep(w))

FairSpec == Spec /\ Fairness
-------------------------------------------------------------------------------
CvObjects == Workers \cup {Comms}

TypeOK ==
  /\ pc \in [Threads -> {"none", "launched", "start", "started", "await", "awaited",
                         "up", "stop", "stopcq", "stopwait", "join", "shutdown",
                         "begin", "lock", "announce", "work", "request", "serve",
                         "close", "exit"}]
  /\ idx     \in [Threads -> 1 .. Len(StartOrder) + 1]
  /\ seen    \in [{Main, Aux} -> 0 .. NWriters]
  /\ asleep  \in [Threads -> {<<>>} \cup ({"started", "stopped"} \X CvObjects)]
  /\ started \in SUBSET CvObjects
  /\ stop    \in SUBSET Workers
  /\ stopped \in SUBSET CvObjects
  /\ server  \in {"none", "up", "down"}
  /\ cqShut  \in BOOLEAN
  /\ calls   \in [pending : 0 .. 1, ready : 0 .. 1, finishing : 0 .. MaxCalls]
  /\ handled \in 0 .. MaxCalls
  /\ crashed \in BOOLEAN
  /\ met     \in SUBSET Faults

NoRequestAfterShutdown == cqShut => calls.ready = 0

Accepting ==
  server = "up" /\ pc[Receiver] = "serve" => calls.pending + calls.ready = 1

(* The asynchronous server is served to its end: once it has made its first *)
(* request, one CallData waits for the next call while the server runs, and *)
(* when its completion queue is shut down no call is left that would ask    *)
(* for another (comms_receiver.cc:125).  The first request itself is made   *)
(* after the start is announced (line 42) and may come too late: that is    *)
(* not excluded, the program then crashes.                                  *)
Served == TypeOK /\ Accepting /\ NoRequestAfterShutdown

(* Threads are stopped in the order of use: the receiver is only told to    *)
(* stop when no writer runs, a reader only when the receiver has ended, and *)
(* comms is destroyed when all have ended, whatever went wrong.             *)
StopsInOrder ==
  /\ server = "down" => \A w \in Writers : pc[w] = "exit"
  /\ \A r \in Readers : r \in stop => pc[Receiver] = "exit"
  /\ pc[Main] = "exit" => \A t \in Threads : pc[t] = "exit"

AllStarted == Comms \in started /\ Writers \subseteq started

(* Who relies on a thread that was started finds it so.  When               *)
(* comms_wait_for_start returns to the thread that called comms_start, all  *)
(* writers, and with them the receiver, have started; and comms_shutdown    *)
(* dereferences server_ only when it was built, although it does not wait   *)
(* for the receiver: the writers, joined before, did, unless a wait ended   *)
(* early.                                                                   *)
ReliedOnIsUp ==
  /\ pc[Main] = "up" /\ met = {} => AllStarted /\ server = "up"
  /\ pc[Main] = "stop" /\ Stopping /\ Target = Receiver =>
       server # "none" \/ Receiver \in stopped \/ "spurious" \in met

Awaiting(t) == pc[t] \in {"await", "awaited"}

(* comms_wait_for_start returns, to the main and the catch thread, if the   *)
(* server could be built.                                                   *)
StartReturns ==
  \A t \in {Main, Aux} : Awaiting(t) ~> (pc[t] = "up" \/ crashed \/ "bind" \in met)

(* main.cc:107 "Wait until comms layer has started.", in any case.          *)
StartAlwaysReturns == Awaiting(Main) ~> (pc[Main] = "up" \/ crashed)

(* comms_shutdown returns and the program ends, if nothing went wrong: no   *)
(* fault was met, no vector changed under a loop, and the first request was *)
(* in time.                                                                 *)
ShutdownReturns == pc[Main] = "stop" ~> (pc[Main] = "exit" \/ crashed \/ met # {})
===============================================================================
