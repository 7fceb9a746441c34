------------------------------ MODULE CommsEarly ------------------------------
(***************************************************************************)
(* The first two versions of the communication layer, comms and            *)
(* comms_async, each with its driver: packets are pointers that go from    *)
(* the application through the send queue to a sender, which copies them   *)
(* into an RPC, and through the reap queue back.  The layer has no         *)
(* handshakes at start: a thread begins to run inside the constructor of   *)
(* its own object, before the members behind it are initialised, and the   *)
(* application waits on a condition variable without a predicate.          *)
(*                                                                         *)
(* conf.version says which of the two runs.  A queue operation, done under *)
(* its lock, is one step; an RPC, whose result is only logged, ends some   *)
(* time before the next step of its sender.  In comms_async its end is a   *)
(* completion in the queue of the first end point, where all senders look  *)
(* for theirs under one tag.  What an uninitialised flag holds, which of   *)
(* two racing writes of a member comes last, and what the use of a deleted *)
(* server or of a destroyed context does are choices.                      *)
(***************************************************************************)
EXTENDS Naturals, Sequences, Functions

CONSTANTS
  Configurations,        \* of a run: version, end_points, receivers, senders
  packet_count,          \* array of the driver
  send_batch_dequeue,
  Preload,               \* packets that comms_async's driver begins with
  MaxSent                \* submissions after which the driver stops

ASSUME EarlyAssumption ==
  /\ \A c \in Configurations :
       /\ c.version \in {"comms", "comms_async"}
       /\ {c.end_points, c.receivers, c.senders} \subseteq Nat \ {0}
  /\ {packet_count, send_batch_dequeue, Preload} \subseteq Nat \ {0}
  /\ MaxSent \in Nat

VARIABLES
  conf,           \* the configuration
  main,           \* the main thread: where it is, and in which object
  driver,         \* the thread that submits: pc, i, array, total_packets_sent
  dst,            \* all_packets: packet p is the p-th created, dst[p] its destination
  sendQ, reapQ,
  flag,           \* flag[s]: shutdown_ of sender s
  sender,         \* sender[s]: pc, end point, batches
  calls,          \* calls[s]: RPCs of s of which nobody has taken the completion
  recv,           \* recv[r]: pc, server_built_, server_ and cq_ set, server shut down
  mishap          \* what went wrong for good

queues == <<sendQ, reapQ>>
vars == <<conf, main, driver, dst, queues, flag, sender, calls, recv, mishap>>

Async == conf.version = "comms_async"
EndPoints == 1..conf.end_points
Receivers == 1..conf.receivers
Senders == 1..conf.senders

\* The flag of a sender is uninitialised memory.
Init ==
  /\ conf \in Configurations
  /\ main = <<"receiver", 1>>
  /\ driver = [pc |-> "new", i |-> 1, array |-> <<>>, sent |-> 0]
  /\ dst = <<>> /\ sendQ = <<>> /\ reapQ = <<>>
  /\ flag \in [Senders -> BOOLEAN]
  /\ sender = [s \in Senders |-> [pc |-> "new", at |-> 1, batches |-> [e \in EndPoints |-> <<>>]]]
  /\ calls = [s \in Senders |-> 0]
  /\ recv = [r \in Receivers |-> [pc |-> "new", built |-> FALSE, server |-> FALSE,
                                cq |-> FALSE, down |-> FALSE]]
  /\ mishap = {}

-----------------------------------------------------------------------------
(* Receivers *)

Alive == "crash" \notin mishap
Receiver(r, pc) == recv' = [recv EXCEPT ![r].pc = pc]

\* The members that the constructor sets to null after it started the thread.
Construct(r) ==
  /\ recv' = [recv EXCEPT ![r].server = FALSE, ![r].cq = FALSE]
  /\ mishap' = IF recv[r].server \/ recv[r].cq THEN mishap \cup {"server lost"} ELSE mishap

\* BuildAndStart, which may fail, and server_built_.
AddQueue(r) ==
  /\ recv[r].pc = "run" /\ recv' = [recv EXCEPT ![r].pc = "build", ![r].cq = Async]
  /\ UNCHANGED mishap
Build(r) ==
  /\ recv[r].pc = "build"
  /\ \E up \in BOOLEAN :
       recv' = [recv EXCEPT ![r].pc = "check", ![r].server = up, ![r].built = TRUE]
  /\ UNCHANGED mishap
Check(r) ==
  /\ recv[r].pc = "check"
  /\ Receiver(r, IF recv[r].server THEN "serve" ELSE "ended")
  /\ UNCHANGED mishap
\* The use of a null or deleted object may end the program.
Serve(r) ==
  /\ recv[r].pc = "serve" /\ Receiver(r, "serving")
  /\ \/ mishap' = mishap
     \/ (~recv[r].server \/ (Async /\ ~recv[r].cq)) /\ mishap' = mishap \cup {"crash"}
ServeEnds(r) ==
  /\ recv[r].pc = "serving" /\ recv[r].down /\ Receiver(r, "ended")
  /\ UNCHANGED mishap

ReceiverStep(r) ==
  /\ Alive /\ (AddQueue(r) \/ Build(r) \/ Check(r) \/ Serve(r) \/ ServeEnds(r))
  /\ UNCHANGED <<conf, main, driver, dst, queues, flag, sender, calls>>

-----------------------------------------------------------------------------
(* Senders *)

Sender(s, pc) == sender' = [sender EXCEPT ![s].pc = pc]

\* comms_async clears the flag at the beginning of the thread.
Run(s) ==
  /\ sender[s].pc = "run" /\ Sender(s, "test")
  /\ flag' = [flag EXCEPT ![s] = @ /\ ~Async]
  /\ mishap' = IF driver.pc = "join sender" /\ driver.i = s /\ Async
                 THEN mishap \cup {"stop lost"} ELSE mishap
  /\ UNCHANGED queues

Test_Sleeps(s) ==
  /\ sender[s].pc = "test"
  /\ Sender(s, IF flag[s] THEN "ended" ELSE IF sendQ = <<>> THEN "asleep" ELSE "wait")
  /\ UNCHANGED <<queues, flag, mishap>>
Test(s) ==
  /\ sender[s].pc = "test"
  /\ Sender(s, IF flag[s] THEN "ended" ELSE "wait")
  /\ UNCHANGED <<queues, flag, mishap>>

Least(a, b) == IF a < b THEN a ELSE b

\* Each packet of a list goes to the batch of its destination, or all to the first.
EndPoint(p) == IF Async THEN 1 ELSE dst[p]
Put(batches, p) == [batches EXCEPT ![EndPoint(p)] = Append(@, p)]
Fill(cleared, list) ==
  LET filled[n \in 0..Len(list)] == IF n = 0 THEN cleared ELSE Put(filled[n-1], list[n])
  IN  filled[Len(list)]
Batches_Uncleared(s, list) == Fill(sender[s].batches, list)
Batches(s, list) == Fill([e \in EndPoints |-> <<>>], list)
\* dequeue_n waits for a millisecond at most: nobody ever notifies it.
Take(s) ==
  LET n == Least(Len(sendQ), send_batch_dequeue)
  IN  /\ sender[s].pc = "wait"
      /\ sender' = [sender EXCEPT ![s].pc = "send", ![s].at = 1,
                                  ![s].batches = Batches(s, SubSeq(sendQ, 1, n))]
      /\ sendQ' = SubSeq(sendQ, n + 1, Len(sendQ))
      /\ UNCHANGED <<reapQ, flag, mishap>>

\* send_n of comms: the packets are copied and go back before the RPC begins.
Send(s) ==
  LET e == sender[s].at
  IN  /\ ~Async /\ sender[s].pc = "send"
      /\ reapQ' = reapQ \o sender[s].batches[e]
      /\ IF e = conf.end_points THEN Sender(s, "test")
                               ELSE sender' = [sender EXCEPT ![s].at = e + 1]
      /\ UNCHANGED <<sendQ, flag, calls, mishap>>

\* send_n of comms_async does nothing without packets, else the call starts, ...
Call(s) ==
  LET batch == sender[s].batches[1]
  IN  /\ Async /\ sender[s].pc = "send"
      /\ reapQ' = reapQ \o batch
      /\ \/ batch = <<>> /\ Sender(s, "test") /\ UNCHANGED calls
         \/ batch # <<>> /\ Sender(s, "call") /\ calls' = [calls EXCEPT ![s] = @ + 1]
      /\ UNCHANGED <<sendQ, flag, mishap>>

\* ... and Next returns the completion of any: send_n then destroys its context and
\* response, while its call goes on if the completion was another sender's.
Complete(s) ==
  /\ sender[s].pc = "call" /\ Sender(s, "test")
  /\ \E t \in Senders :
       /\ calls[t] > 0 /\ calls' = [calls EXCEPT ![t] = @ - 1]
       /\ \/ t = s /\ mishap' = mishap
          \/ /\ t # s
             /\ \E crash \in SUBSET {"crash"} : mishap' = mishap \cup {"stolen"} \cup crash
  /\ UNCHANGED <<queues, flag>>

SenderStep(s) ==
  /\ Alive
  /\ \/ (Run(s) \/ Test(s) \/ Take(s)) /\ UNCHANGED calls
     \/ Send(s) \/ Call(s) \/ Complete(s)
  /\ UNCHANGED <<conf, main, driver, dst, recv>>

-----------------------------------------------------------------------------
(* The main thread *)

Main(pc, i) == main' = <<pc, i>>
At(pc) == main[1] = pc

Driver(pc) == driver' = [driver EXCEPT !.pc = pc]

\* comms_start: receivers, then senders, and the thread that submits.
Spawn ==
  LET i == main[2]
  IN  \/ /\ At("receiver") /\ Receiver(i, "run") /\ Main("construct", i)
         /\ UNCHANGED <<driver, sender, mishap>>
      \/ /\ At("construct") /\ Construct(i)
         /\ IF i < conf.receivers THEN Main("receiver", i + 1) ELSE Main("sender", 1)
         /\ UNCHANGED <<driver, sender>>
      \/ /\ At("sender") /\ Sender(i, "run")
         /\ IF i < conf.senders THEN Main("sender", i + 1) ELSE Main("driver", 1)
         /\ UNCHANGED <<driver, recv, mishap>>
      \/ /\ At("driver") /\ Driver(IF Async THEN "preload" ELSE "loop")
         /\ Main("wait", 1) /\ UNCHANGED <<sender, recv, mishap>>

\* comms_wait; a condition variable may also return by itself.
Wait ==
  /\ \/ At("wait") /\ Main("waiting", 1)
     \/ At("waiting") /\ Main("join", 1)
  /\ UNCHANGED <<driver, sender, recv, mishap>>

\* The thread is joined, comms_destroy, and all packets are freed.
Joined == driver.pc = "ended"
Free ==
  /\ At("join") /\ Joined /\ Main("freed", 1)
  /\ UNCHANGED <<driver, sender, recv, mishap>>

MainStep == Alive /\ (Spawn \/ Wait \/ Free) /\ UNCHANGED <<conf, dst, queues, flag, calls>>

-----------------------------------------------------------------------------
(* The driver *)

\* n new packets.
New(n) == [i \in 1..n |-> Len(dst) + i]
Create(n) == dst' = dst \o [i \in 1..n |-> 1]

\* comms_put_reap of the packets that are all there will be.
PreloadReap ==
  /\ driver.pc = "preload" /\ Driver("loop")
  /\ Create(Preload) /\ reapQ' = New(Preload)
  /\ UNCHANGED <<sendQ, flag, recv, mishap, main>>

\* comms_reap, which does not wait; comms creates what is missing.
Reap ==
  LET n == Least(Len(reapQ), packet_count)
      missing == IF Async THEN 0 ELSE packet_count - n
  IN  /\ driver.pc = "loop" /\ driver.sent < MaxSent
      /\ reapQ' = SubSeq(reapQ, n + 1, Len(reapQ))
      /\ Create(missing)
      /\ driver' = [driver EXCEPT !.array = SubSeq(reapQ, 1, n) \o New(missing),
                                  !.pc = IF Async /\ n = 0 THEN "loop" ELSE "submit"]
      /\ UNCHANGED <<sendQ, flag, recv, mishap, main>>

\* comms chooses the destinations.
Submit ==
  /\ driver.pc = "submit"
  /\ \E d \in [Range(driver.array) -> IF Async THEN {1} ELSE EndPoints] :
       dst' = [p \in DOMAIN dst |-> IF p \in DOMAIN d THEN d[p] ELSE dst[p]]
  /\ sendQ' = sendQ \o driver.array
  /\ driver' = [driver EXCEPT !.pc = "loop", !.array = <<>>, !.sent = @ + Len(driver.array)]
  /\ UNCHANGED <<reapQ, flag, recv, mishap, main>>

\* comms_shutdown: each sender is told and joined,
StopSenders ==
  /\ \/ /\ driver.pc = "loop" /\ driver.sent >= MaxSent
        /\ driver' = [driver EXCEPT !.pc = "join sender", !.i = 1]
        /\ flag' = [flag EXCEPT ![1] = TRUE]
     \/ /\ driver.pc = "join sender" /\ sender[driver.i].pc = "ended"
        /\ IF driver.i = conf.senders
             THEN driver' = [driver EXCEPT !.pc = "built", !.i = 1] /\ UNCHANGED flag
             ELSE /\ driver' = [driver EXCEPT !.i = @ + 1]
                  /\ flag' = [flag EXCEPT ![driver.i + 1] = TRUE]
  /\ UNCHANGED <<dst, queues, recv, mishap, main>>

\* each receiver is shut down, when BuildAndStart has returned, and joined,
BuiltBarrier_None(r) == TRUE
BuiltBarrier(r) == recv[r].built
StopReceivers ==
  LET r == driver.i
  IN  /\ \/ /\ driver.pc = "built" /\ BuiltBarrier(r)
            /\ Driver(IF recv[r].server THEN "delete" ELSE "join receiver")
            /\ recv' = [recv EXCEPT ![r].down = recv[r].server]
            /\ UNCHANGED mishap
         \/ /\ driver.pc = "delete" /\ Driver("join receiver")
            /\ recv' = [recv EXCEPT ![r].server = FALSE]
            /\ \/ mishap' = mishap
               \/ ~Async /\ recv[r].pc = "serving" /\ mishap' = mishap \cup {"crash"}
         \/ /\ driver.pc = "join receiver" /\ recv[r].pc = "ended"
            /\ IF r = conf.receivers
                 THEN Driver("notify")
                 ELSE driver' = [driver EXCEPT !.pc = "built", !.i = r + 1]
            /\ UNCHANGED <<recv, mishap>>
      /\ UNCHANGED <<dst, queues, flag, main>>

\* and who waits at that moment is woken.
Notify ==
  /\ driver.pc = "notify" /\ Driver("ended")
  /\ IF At("waiting") THEN Main("join", 1) ELSE UNCHANGED main
  /\ mishap' = IF At("wait") THEN mishap \cup {"lost notify"} ELSE mishap
  /\ UNCHANGED <<dst, queues, flag, recv>>

DriverStep ==
  /\ Alive /\ (PreloadReap \/ Reap \/ Submit \/ StopSenders \/ StopReceivers \/ Notify)
  /\ UNCHANGED <<conf, sender, calls>>

Next ==
  \/ MainStep \/ DriverStep
  \/ \E s \in Senders : SenderStep(s)
  \/ \E r \in Receivers : ReceiverStep(r)

\* Threads run; nothing wakes a condition variable but a notification.
Fairness ==
  /\ WF_vars(MainStep /\ ~At("waiting")) /\ WF_vars(DriverStep)
  /\ \A s \in UNION {1..c.senders : c \in Configurations} :
       WF_vars(s \in Senders /\ SenderStep(s))
  /\ \A r \in UNION {1..c.receivers : c \in Configurations} :
       WF_vars(r \in Receivers /\ ReceiverStep(r))

Spec == Init /\ [][Next]_vars /\ Fairness

-----------------------------------------------------------------------------
(* Properties *)

\* Where packets are: the array of the driver, the two queues, the batches not yet sent.
Lists == ({0} \X (1..3)) \cup (Senders \X EndPoints)
List(l) ==
  IF l[1] = 0 THEN <<driver.array, sendQ, reapQ>>[l[2]]
  ELSE IF sender[l[1]].pc = "send" /\ l[2] >= sender[l[1]].at THEN sender[l[1]].batches[l[2]]
  ELSE <<>>

OnePlace ==
  /\ UNION {Range(List(l)) : l \in Lists} = DOMAIN dst
  /\ \A l, m \in Lists : \A i \in DOMAIN List(l), j \in DOMAIN List(m) :
       List(l)[i] = List(m)[j] => l = m /\ i = j

SafeToFree ==
  At("freed") =>
    /\ driver.pc = "ended"
    /\ \A s \in Senders : sender[s].pc = "ended"
    /\ \A r \in Receivers : recv[r].pc = "ended"

\* Every packet that was created has one owner: the driver's array, a queue, or a
\* batch not yet sent (Sender.cc:24-41, EndPoint.cc:41-53: the arrays of a sender
\* are used again in each round); and when the packets and the objects are freed
\* no thread is left to use them, however comms_wait returned (main.cc:155-171).
OneOwner == OnePlace /\ SafeToFree

\* What is submitted is taken by a sender, as long as the senders are not told to
\* stop (or find so in their uninitialised flags).  SafeQueue.h:36-49.
ComesBack ==
  \A p \in 1..MaxSent :
    p \in Range(sendQ) ~> (p \notin Range(sendQ) \/ (\E s \in Senders : flag[s]) \/ ~Alive)

\* The program ends, although receivers may fail and threads may be late, unless
\* one of five things happens: the notification comes before comms_wait, the
\* constructor of a receiver overwrites its server, the thread of a sender
\* overwrites the order to stop, a null or deleted server is used, or a sender
\* takes the completion of another's call.
\* Receiver.cc:33-62, Sender.cc:53-59, comms_async/EndPoint.cc:64-86.
EndsUnless == <>(At("freed") \/ mishap # {})
=============================================================================
