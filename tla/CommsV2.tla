------------------------------- MODULE CommsV2 -------------------------------
(***************************************************************************)
(* The communication layer comms_v2 and the program that drives it.  The   *)
(* driver submits packets through an accessor, reaps what comes back and   *)
(* submits a whole array again, however few packets were reaped: the rest  *)
(* of the array, a local of the loop that is not initialised but in one    *)
(* place of the stack, is what an earlier round left there, and travels a  *)
(* second time.  Packets for the local end point go from catch queue to reap*)
(* queue through the catch thread, packets for another one from the submit *)
(* queue through the writers, which transmit them.                         *)
(*                                                                         *)
(* Packets are counted, not told apart.  A queue is a FIFO per producer,   *)
(* given by its length and by the offset of its head in a block of the     *)
(* vendored queue, since room is counted in blocks.  An enqueue that is    *)
(* tried again until it succeeds is a step that waits for room.            *)
(***************************************************************************)
EXTENDS Integers, FiniteSets

CONSTANTS
  Writers, Readers,
  receiver, catcher,                       \* the other threads of the layer
  packet_count,                            \* array of driver, catcher, writer
  accessor_buffer_size,
  BLOCK_SIZE, IMPLICIT_INITIAL_INDEX_SIZE, \* of the queues
  PoolBlocks,
  writer_retry_count,
  Rounds,                                  \* arrays submitted at first
  MaxSubmitted                             \* submissions after which it stops

ASSUME CommsV2Assumption ==
  /\ IsFiniteSet(Writers \cup Readers) /\ Writers \cap Readers = {}
  /\ {receiver, catcher, "driver"} \cap (Writers \cup Readers) = {} /\ receiver # catcher
  /\ {packet_count, accessor_buffer_size, BLOCK_SIZE, IMPLICIT_INITIAL_INDEX_SIZE,
      PoolBlocks, Rounds} \subseteq Nat \ {0}
  /\ {writer_retry_count, MaxSubmitted} \subseteq Nat

VARIABLES
  dst,          \* the end point all packets go to is this one
  main,         \* the driver: where it is, packets of the array to submit
  submitted, reaped,
  buffer,       \* packet_buffer_[dst] of its accessor
  sent,         \* queue the driver fills: catch_queue_ or submit_queue_
  back,         \* back[p]: what p put into reap_queue_
  hands,        \* hands[p]: what catcher or writer p dequeued
  tries,        \* tries[w]: attempts left to transmit it
  missed,       \* writers that found nothing
  up, down,     \* threads that started, threads that ended
  stop,         \* threads told to stop
  shutdown_

packets == <<submitted, reaped, buffer, sent, back, hands, tries, missed>>
threads == <<up, down, stop, shutdown_>>
vars == <<dst, main, packets, threads>>

Movers == Writers \cup {catcher}
Layer == Writers \cup {receiver} \cup Readers
Total(f) == Cardinality(UNION {{p} \X (1..f[p]) : p \in DOMAIN f})   \* sum of f
Nothing == [len |-> 0, off |-> 0]
Enqueue(x, n) == [x EXCEPT !.len = @ + n]
Dequeue(x, n) == [len |-> x.len - n, off |-> (x.off + n) % BLOCK_SIZE]

\* An implicit producer has a block index of fixed size, a token (the writers'
\* on the reap queue) the blocks of the pool; a call takes all elements or none.
Blocks(p) == IF p \in Writers THEN PoolBlocks ELSE IMPLICIT_INITIAL_INDEX_SIZE
Fits(p, x, n) == (x.off + x.len + n - 1) \div BLOCK_SIZE < Blocks(p)

Init ==
  /\ dst \in {"local", "remote"}
  /\ main = [pc |-> "create", left |-> 0]
  /\ submitted = 0 /\ reaped = 0 /\ buffer = 0
  /\ sent = Nothing
  /\ back = [p \in Movers |-> Nothing]
  /\ hands = [p \in Movers |-> 0]
  /\ tries = [w \in Writers |-> 0] /\ missed = {}
  /\ up = {} /\ down = {} /\ stop = {} /\ shutdown_ = FALSE

At(l) == main.pc = l
Go(l) == main' = [main EXCEPT !.pc = l]

-----------------------------------------------------------------------------
(* Threads of the layer *)

\* The driver launches the catch thread and starts the layer.
Start == At("create") /\ Go("await") /\ UNCHANGED <<dst, packets, threads>>

\* A receiver waits for the readers, a writer for the receiver, the catch thread
\* for the writers.
After(x) == IF x = receiver THEN Readers
            ELSE IF x \in Writers THEN {receiver}
            ELSE IF x = catcher THEN Writers ELSE {}
Begin(x) ==
  /\ ~At("create") /\ x \notin up /\ After(x) \subseteq up
  /\ up' = up \cup {x}
  /\ UNCHANGED <<dst, main, packets, down, stop, shutdown_>>

\* Receiver and readers end when they are told to.
Leave(x) == down' = down \cup {x} /\ UNCHANGED <<dst, main, packets, up, stop, shutdown_>>
End(x) == x \in up \ down /\ x \in stop /\ x \notin Writers /\ Leave(x)

-----------------------------------------------------------------------------
(* Driver *)

Started ==
  /\ At("await") /\ Writers \subseteq up
  /\ main' = [pc |-> "submit", left |-> packet_count]
  /\ UNCHANGED <<dst, packets, threads>>

\* comms_submit, packet by packet: a full buffer goes to the end point's queue.
Submit ==
  LET full == buffer + 1 = accessor_buffer_size
  IN  /\ At("submit") /\ main.left > 0
      /\ main' = [main EXCEPT !.left = @ - 1]
      /\ IF full THEN /\ Fits("driver", sent, accessor_buffer_size)
                      /\ sent' = Enqueue(sent, accessor_buffer_size) /\ buffer' = 0
                 ELSE buffer' = buffer + 1 /\ UNCHANGED sent
      /\ UNCHANGED <<dst, submitted, reaped, back, hands, tries, missed, threads>>

\* The array is submitted: another one, or from now on what was reaped.
Submitted ==
  /\ At("submit") /\ main.left = 0
  /\ submitted' = submitted + packet_count
  /\ main' = IF submitted' < Rounds * packet_count THEN [main EXCEPT !.left = packet_count]
             ELSE [pc |-> IF submitted' < MaxSubmitted THEN "reap" ELSE "drain", left |-> 0]
  /\ UNCHANGED <<dst, reaped, buffer, sent, back, hands, tries, missed, threads>>

\* comms_reap: as many as the array takes, from whichever producers of the queue.
Waiting == Total([p \in Movers |-> back[p].len])
Reapable_One == IF Waiting = 0 THEN 0 ELSE 1
Reapable == IF Waiting < packet_count THEN Waiting ELSE packet_count
Reap(n) ==
  /\ n = Reapable
  /\ \E part \in [Movers -> 0..n] :
        /\ Total(part) = n
        /\ \A p \in Movers : part[p] <= back[p].len
        /\ back' = [p \in Movers |-> Dequeue(back[p], part[p])]
  /\ reaped' = reaped + n
  /\ UNCHANGED <<dst, submitted, buffer, sent, hands, tries, missed, threads>>

\* Nothing reaped: reap again.  Otherwise the whole array is submitted.
Resubmit ==
  /\ At("reap") /\ \E n \in 1..packet_count : Reap(n)
  /\ main' = [pc |-> "submit", left |-> packet_count]
Drain == At("drain") /\ reaped < submitted /\ \E n \in 1..packet_count : Reap(n) /\ UNCHANGED main

\* comms_shutdown: the writers one by one, the receiver, the readers.
Order == <<Writers, {receiver}, Readers>>
Earlier(x) == UNION {Order[i] : i \in {i \in 1..3 : \A j \in 1..i : x \notin Order[j]}}
Drained_Assumed == TRUE
Drained == reaped >= submitted
Shutdown == At("drain") /\ Drained /\ Go("stop") /\ UNCHANGED <<dst, packets, threads>>
Stop(x) ==
  /\ At("stop") /\ x \notin stop /\ stop \cup Earlier(x) \subseteq down
  /\ stop' = stop \cup {x}
  /\ UNCHANGED <<dst, main, packets, up, down, shutdown_>>
Stopped ==
  /\ At("stop") /\ Layer \subseteq down /\ Go("join") /\ shutdown_' = TRUE
  /\ UNCHANGED <<dst, packets, up, down, stop>>

\* The catch thread is joined, and the payloads are freed.
Join ==
  /\ At("join") /\ catcher \in down /\ Go("done") /\ UNCHANGED <<dst, packets, threads>>

-----------------------------------------------------------------------------
(* Movers *)

\* Both dequeue from the queue the packets went to.  With several writers the
\* library may also return fewer packets, or none.
Running(p) == p \in up \ down /\ hands[p] = 0 /\ p \notin missed
Mine(p) == (p = catcher) = (dst = "local")
Take(p) ==
  /\ Running(p) /\ Mine(p)
  /\ p = catcher => ~shutdown_
  /\ \E n \in 1..packet_count :
        /\ n <= sent.len
        /\ (p = catcher \/ Writers = {p}) => n = packet_count \/ n = sent.len
        /\ hands' = [hands EXCEPT ![p] = n] /\ sent' = Dequeue(sent, n)
        /\ tries' = IF p = catcher THEN tries ELSE [tries EXCEPT ![p] = writer_retry_count + 1]
  /\ UNCHANGED <<dst, main, submitted, reaped, buffer, back, missed, threads>>

\* transmit_n: the RPC fails at first, and is tried again.
Transmit(w) ==
  /\ tries[w] > 0
  /\ tries' = [tries EXCEPT ![w] = 0] \/ tries' = [tries EXCEPT ![w] = @ - 1]
  /\ UNCHANGED <<dst, main, submitted, reaped, buffer, sent, back, hands, missed, threads>>

\* comms_release of the catch thread, or the end of a writer's round, with the
\* return code of the transmission in the packets.
GiveBack(p) ==
  /\ hands[p] > 0 /\ (p \in Writers => tries[p] = 0)
  /\ Fits(p, back[p], hands[p])
  /\ hands' = [hands EXCEPT ![p] = 0]
  /\ back' = [back EXCEPT ![p] = Enqueue(@, hands[p])]
  /\ UNCHANGED <<dst, main, submitted, reaped, buffer, sent, tries, missed, threads>>

\* A writer that found nothing looks whether it was told to stop; the catch
\* thread ends when the layer is down.
Miss(w) ==
  /\ Running(w) /\ missed' = missed \cup {w}
  /\ ~Mine(w) \/ sent.len = 0 \/ Writers # {w}
  /\ UNCHANGED <<dst, main, submitted, reaped, buffer, sent, back, hands, tries, threads>>
Quit(w) ==
  /\ w \in missed /\ missed' = missed \ {w}
  /\ down' = IF w \in stop THEN down \cup {w} ELSE down
  /\ UNCHANGED <<dst, main, submitted, reaped, buffer, sent, back, hands, tries, up, stop, shutdown_>>
CatcherQuits_Never == FALSE /\ Leave(catcher)
CatcherQuits == Running(catcher) /\ shutdown_ /\ Leave(catcher)

Driver == \/ Start \/ Started \/ Submit \/ Submitted \/ Resubmit \/ Drain \/ Shutdown
          \/ (\E x \in Layer : Stop(x)) \/ Stopped \/ Join
Mover(p) == Take(p) \/ (p \in Writers /\ Transmit(p)) \/ GiveBack(p)
            \/ (p \in Writers /\ (Miss(p) \/ Quit(p)))
Thread(x) == Begin(x) \/ End(x) \/ (x \in Movers /\ Mover(x)) \/ (x = catcher /\ CatcherQuits)

Next == Driver \/ \E x \in Layer \cup {catcher} : Thread(x)

\* Every thread goes on whenever it can; an RPC returns; the writers do not keep
\* each other from dequeueing for ever.
Spec == /\ Init /\ [][Next]_vars /\ SF_vars(\E w \in Writers : Take(w))
        /\ WF_vars(Driver) /\ \A x \in Layer \cup {catcher} : WF_vars(Thread(x))

-----------------------------------------------------------------------------
(* Properties *)

\* No packet is lost or made up on its way: the submissions not reaped yet are in
\* the buffer, in a queue or in the hands of a thread, with the part of an array
\* that is being submitted not yet counted.  And the packets that travel twice do
\* not pile up: the array is only filled with old ones when the reap queue was
\* emptied, so that what travels fits the queue that the driver fills, the hands
\* of the movers and one more array.
Travelling == buffer + sent.len + Waiting + Total(hands)
Accounted ==
  /\ submitted - reaped + (IF At("submit") THEN packet_count - main.left ELSE 0) = Travelling
  /\ Travelling <= BLOCK_SIZE * IMPLICIT_INITIAL_INDEX_SIZE
                   + packet_count * (Cardinality({p \in Movers : Mine(p)}) + 1)

\* When the layer is shut down nothing is left anywhere: no writer leaves packets
\* behind, and the payloads that are freed at the end nobody holds.
QuietShutdown == At("stop") \/ At("join") \/ At("done") => Travelling = 0

\* The driver ends.  It waits for room in one queue and the movers for room in the
\* other, where only it makes room: they never all wait at once.
DriverEnds == <>At("done")

=============================================================================
