------------------------------ MODULE SyncStreams ------------------------------
(***************************************************************************)
(* The lease and the watch of one sync_t (etcd/synchronization/Lease.cc,   *)
(* Watch.cc) and sync_t::destroy.  Three threads share both objects        *)
(* without a common lock: the application thread in destroy, the uv loop   *)
(* thread that runs the keep-alive timer, and the completion queue thread, *)
(* which calls proceed() for every completed operation, whichever it was.  *)
(*                                                                         *)
(* External: ops counts the gRPC operations of a kind between their begin  *)
(* and the delivery of their tag; they complete in any order, but a        *)
(* response of etcd only after the request was written.  Beginning an      *)
(* operation on a completion queue that is shut down and drained aborts the*)
(* process, as does an exception on the completion queue thread.           *)
(*                                                                         *)
(* A name with a suffix, as in TimerRuns_StoppedFirst, is a faulty variant *)
(* of the definition after it.                                             *)
(***************************************************************************)
EXTENDS Naturals, FiniteSets

CONSTANT
  MaxUpdates    (* bound: watch responses with events                      *)

ASSUME StreamsAssumption == MaxUpdates \in Nat

VARIABLES
  ops,       (* gRPC operations whose tag was not delivered yet            *)
  lstate,    (* Lease::next_state_                                         *)
  id,        (* Lease::id_ # 0                                             *)
  timer,     (* the keep-alive timer is started                            *)
  loop,      (* uv loop thread: idle, writing (in keep_alive) or exited    *)
  wstate,    (* Watch::next_state_                                         *)
  watching,  (* Watch::watch_id_ # -1                                      *)
  canceling, (* Watch::canceling_                                          *)
  response,  (* Watch::response_                                           *)
  updates,   (* responses with events sent by etcd so far                  *)
  cancelled, (* etcd has got the cancel request                            *)
  caller,    (* application thread, in destroy                             *)
  shut,      (* the completion queue was shut down                         *)
  cq,        (* completion queue thread: running or exited                 *)
  aborted    (* the process was terminated                                 *)

leaseVars == <<lstate, id, timer>>
watchStreamVars == <<wstate, watching, canceling, response, updates, cancelled>>
streamsVars == <<ops, leaseVars, loop, watchStreamVars, caller, shut, cq, aborted>>

LeaseOps == {"lease_start", "lease_write", "lease_read", "lease_writes_done"}
WatchOps == {"watch_start", "watch_write", "watch_read", "watch_writes_done", "alarm"}
Ops      == LeaseOps \cup WatchOps

In(op, S) == IF op \in S THEN 1 ELSE 0

Pending(op) == ops[op] > 0

(* After sync_start: both streams are started, the timer fires at once.     *)
StreamsInit ==
  /\ ops       = [op \in Ops |-> In(op, {"lease_start", "watch_start"})]
  /\ lstate    = "START_DONE"
  /\ id        = TRUE
  /\ timer     = TRUE
  /\ loop      = "idle"
  /\ wstate    = "START_DONE"
  /\ watching  = FALSE
  /\ canceling = FALSE
  /\ response  = "none"
  /\ updates   = 0
  /\ cancelled = FALSE
  /\ caller    = "running"
  /\ shut      = FALSE
  /\ cq        = "running"
  /\ aborted   = FALSE

Running == ~aborted

Drained(o) == \A op \in Ops : o[op] = 0

Without(op) == [ops EXCEPT ![op] = @ - 1]

Begin(o, new) == [op \in Ops |-> o[op] + In(op, new)]

(* The completion queue thread has got op and begins the operations new.    *)
Continue(op, new) ==
  /\ ops' = Begin(Without(op), new)
  /\ aborted' = (new # {} /\ shut /\ Drained(Without(op)))
-------------------------------------------------------------------------------
(* Lease::proceed, for the tag of op.                                       *)

Notified == IF caller = "waiting" THEN "closing" ELSE caller

LeaseReady(op) ==
  /\ lstate \in {"START_DONE", "READ_DONE"}
  /\ lstate' = "READY_TO_WRITE"
  /\ caller' = Notified
  /\ Continue(op, {})

LeaseWritten_NoRead(op) ==
  /\ lstate = "WRITE_DONE"
  /\ lstate' = "READ_DONE"
  /\ Continue(op, {})
  /\ UNCHANGED caller

LeaseWritten(op) ==
  /\ lstate = "WRITE_DONE"
  /\ lstate' = "READ_DONE"
  /\ Continue(op, {"lease_read"})
  /\ UNCHANGED caller

LeaseWritesDone(op) ==
  /\ lstate = "WRITES_DONE_DONE"
  /\ lstate' = "INVALID"
  /\ Continue(op, {})
  /\ UNCHANGED caller

LeaseNoCase(op) ==
  /\ lstate = "READY_TO_WRITE"
  /\ Continue(op, {})
  /\ UNCHANGED <<lstate, caller>>

LeaseInvalid(op) ==
  /\ lstate = "INVALID"
  /\ ops' = Without(op)
  /\ aborted' = TRUE
  /\ UNCHANGED <<lstate, caller>>

LeaseProceed(op) ==
  /\ Running /\ cq = "running"
  /\ Pending(op)
  /\ op = "lease_read" => ~Pending("lease_write")
  /\ \/ LeaseReady(op)
     \/ LeaseWritten(op)
     \/ LeaseWritesDone(op)
     \/ LeaseNoCase(op)
     \/ LeaseInvalid(op)
  /\ UNCHANGED <<id, timer, loop, watchStreamVars, shut, cq>>
-------------------------------------------------------------------------------
(* Lease::keep_alive on the uv loop thread: next_state_ is tested, then set.*)

KeepAlive ==
  /\ Running
  /\ loop = "idle" /\ timer
  /\ id /\ lstate = "READY_TO_WRITE"
  /\ loop' = "writing"
  /\ UNCHANGED <<ops, leaseVars, watchStreamVars, caller, shut, cq, aborted>>

KeepAliveWrite ==
  /\ Running
  /\ loop = "writing"
  /\ loop'   = "idle"
  /\ lstate' = "WRITE_DONE"
  /\ ops'    = Begin(ops, {"lease_write"})
  /\ UNCHANGED <<id, timer, watchStreamVars, caller, shut, cq, aborted>>

(* uv_run returns: stopped, or no handle is left.                           *)
LoopExit ==
  /\ Running
  /\ loop = "idle"
  /\ caller = "joining" \/ ~timer
  /\ loop' = "exited"
  /\ UNCHANGED <<ops, leaseVars, watchStreamVars, caller, shut, cq, aborted>>
-------------------------------------------------------------------------------
(* Watch::proceed.                                                          *)

(* Reads of the watch stream deliver what etcd sends: the confirmation of   *)
(* the creation, then events, then the confirmation of the cancellation.    *)
Answers ==
  IF wstate = "CREATE_DONE" THEN {"created"}
  ELSE (IF updates < MaxUpdates THEN {"events"} ELSE {})
         \cup (IF cancelled /\ ~Pending("watch_write") THEN {"canceled"} ELSE {})

Got(op) ==
  IF op # "watch_read" THEN response' = response /\ UNCHANGED updates
  ELSE \E r \in Answers :
         /\ response' = r
         /\ updates' = IF r = "events" THEN updates + 1 ELSE updates

WatchStarted(op) ==
  /\ wstate = "START_DONE"
  /\ wstate' = "CREATE"
  /\ Continue(op, {"watch_write"})
  /\ UNCHANGED <<watching, cancelled>>

WatchCreate(op) ==
  /\ wstate = "CREATE"
  /\ wstate' = "CREATE_DONE"
  /\ Continue(op, {"watch_read"})
  /\ UNCHANGED <<watching, cancelled>>

WatchCreated(op) ==
  /\ wstate = "CREATE_DONE"
  /\ wstate' = "UPDATE"
  /\ watching' = TRUE
  /\ Continue(op, {"watch_read"})
  /\ UNCHANGED cancelled


WatchUpdate(op) ==
  /\ wstate = "UPDATE"
  /\ ~(canceling /\ watching)
  /\ Continue(op, {"watch_read"})
  /\ UNCHANGED <<wstate, watching, cancelled>>

WatchCancel(op) ==
  /\ wstate = "UPDATE"
  /\ canceling /\ watching
  /\ wstate' = "CANCEL_DONE"
  /\ cancelled' = TRUE
  /\ Continue(op, {"watch_write"})
  /\ UNCHANGED watching

WatchCanceled_Unchecked(op) ==
  /\ wstate = "CANCEL_DONE"
  /\ wstate' = "WRITES_DONE_DONE"
  /\ watching' = FALSE
  /\ Continue(op, {"watch_writes_done"})
  /\ UNCHANGED cancelled

(* Without the confirmation nothing happens, and nothing more is read.      *)
WatchCanceled(op) ==
  /\ wstate = "CANCEL_DONE"
  /\ \/ /\ response' = "canceled"
        /\ wstate' = "WRITES_DONE_DONE"
        /\ watching' = FALSE
        /\ Continue(op, {"watch_writes_done"})
     \/ /\ response' # "canceled"
        /\ Continue(op, {})
        /\ UNCHANGED <<wstate, watching>>
  /\ UNCHANGED cancelled

WatchWritesDone(op) ==
  /\ wstate = "WRITES_DONE_DONE"
  /\ wstate' = "INVALID"
  /\ Continue(op, {})
  /\ UNCHANGED <<watching, cancelled>>

WatchInvalid(op) ==
  /\ wstate = "INVALID"
  /\ ops' = Without(op)
  /\ aborted' = TRUE
  /\ UNCHANGED <<wstate, watching, cancelled>>

WatchProceed(op) ==
  /\ Running /\ cq = "running"
  /\ Pending(op)
  /\ Got(op)
  /\ \/ WatchStarted(op)
     \/ WatchCreate(op)
     \/ WatchCreated(op)
     \/ WatchUpdate(op)
     \/ WatchCancel(op)
     \/ WatchCanceled(op)
     \/ WatchWritesDone(op)
     \/ WatchInvalid(op)
  /\ UNCHANGED <<leaseVars, loop, canceling, caller, shut, cq>>
-------------------------------------------------------------------------------
(* sync_t::destroy.                                                         *)

MainStep(from, to) == Running /\ caller = from /\ caller' = to

TimerRuns_StoppedFirst == FALSE

(* The timer still runs while revoke waits.                                 *)
TimerRuns == timer

(* Lease::revoke looks at next_state_ without a loop.                       *)
Revoke ==
  /\ MainStep("running", IF lstate = "READY_TO_WRITE" THEN "closing" ELSE "blocking")
  /\ timer' = TimerRuns
  /\ UNCHANGED <<ops, lstate, id, loop, watchStreamVars, shut, cq, aborted>>

(* A notification before this step is lost.                                 *)
Block ==
  /\ MainStep("blocking", "waiting")
  /\ UNCHANGED <<ops, leaseVars, loop, watchStreamVars, shut, cq, aborted>>

CloseLease ==
  /\ MainStep("closing", "cancel")
  /\ lstate' = "WRITES_DONE_DONE"
  /\ ops'    = Begin(ops, {"lease_writes_done"})
  /\ id'     = FALSE
  /\ timer'  = FALSE
  /\ UNCHANGED <<loop, watchStreamVars, shut, cq, aborted>>

(* Watch::cancel: canceling_ is set before the alarm goes off.              *)

CancelWatch ==
  /\ MainStep("cancel", IF watching THEN "alarm" ELSE "joining")
  /\ canceling' = watching
  /\ UNCHANGED <<ops, leaseVars, loop, wstate, watching, response, updates,
                 cancelled, shut, cq, aborted>>


SetAlarm ==
  /\ MainStep("alarm", "joining")
  /\ ops' = Begin(ops, {"alarm"})
  /\ UNCHANGED <<leaseVars, loop, watchStreamVars, shut, cq, aborted>>

(* The loop thread is joined, then the completion queue is shut down.       *)
JoinLoop ==
  /\ MainStep("joining", "draining")
  /\ loop = "exited"
  /\ shut' = TRUE
  /\ UNCHANGED <<ops, leaseVars, loop, watchStreamVars, cq, aborted>>

(* Next returns false once the queue is shut down and drained.              *)
CqExit ==
  /\ Running
  /\ cq = "running"
  /\ shut /\ Drained(ops)
  /\ cq' = "exited"
  /\ UNCHANGED <<ops, leaseVars, loop, watchStreamVars, caller, shut, aborted>>

JoinCq_Unjoined ==
  /\ MainStep("draining", "destroyed")
  /\ UNCHANGED <<ops, leaseVars, loop, watchStreamVars, shut, cq, aborted>>

JoinCq ==
  /\ MainStep("draining", "destroyed")
  /\ cq = "exited"
  /\ UNCHANGED <<ops, leaseVars, loop, watchStreamVars, shut, cq, aborted>>

Ended == (caller = "destroyed" \/ aborted) /\ UNCHANGED streamsVars
-------------------------------------------------------------------------------
LoopStep == KeepAlive \/ KeepAliveWrite \/ LoopExit

DestroyStep ==
  Block \/ CloseLease \/ CancelWatch \/ SetAlarm \/ JoinLoop \/ JoinCq

StreamsNext ==
  \/ \E op \in LeaseOps : LeaseProceed(op)
  \/ \E op \in WatchOps : WatchProceed(op)
  \/ LoopStep
  \/ Revoke
  \/ DestroyStep
  \/ CqExit
  \/ Ended

StreamsSpec == StreamsInit /\ [][StreamsNext]_streamsVars

(* The threads run, every operation whose answer etcd owes completes; etcd  *)
(* need not send events and the application need not call sync_destroy.     *)
Fairness ==
  /\ \A op \in LeaseOps : WF_streamsVars(LeaseProceed(op))
  /\ \A op \in WatchOps \ {"watch_read"} : WF_streamsVars(WatchProceed(op))
  /\ WF_streamsVars(WatchProceed("watch_read") /\ response' \in {"created", "canceled"})
  /\ WF_streamsVars(LoopStep)
  /\ WF_streamsVars(DestroyStep)
  /\ WF_streamsVars(CqExit)

StreamsFairSpec == StreamsSpec /\ Fairness
-------------------------------------------------------------------------------
StreamsTypeOK ==
  /\ ops       \in [Ops -> 0 .. 2]
  /\ lstate    \in {"START_DONE", "READY_TO_WRITE", "WRITE_DONE", "READ_DONE",
                    "WRITES_DONE_DONE", "INVALID"}
  /\ id        \in BOOLEAN
  /\ timer     \in BOOLEAN
  /\ loop      \in {"idle", "writing", "exited"}
  /\ wstate    \in {"START_DONE", "CREATE", "CREATE_DONE", "UPDATE", "CANCEL_DONE",
                    "WRITES_DONE_DONE", "INVALID"}
  /\ watching  \in BOOLEAN
  /\ canceling \in BOOLEAN
  /\ response  \in {"none", "created", "events", "canceled"}
  /\ updates   \in 0 .. MaxUpdates
  /\ cancelled \in BOOLEAN
  /\ caller    \in {"running", "blocking", "waiting", "closing", "cancel", "alarm",
                    "joining", "draining", "destroyed"}
  /\ shut      \in BOOLEAN
  /\ cq        \in {"running", "exited"}
  /\ aborted   \in BOOLEAN

OnePending == \A op \in Ops : ops[op] <= 1

WatchEndsClean == wstate = "INVALID" => \A op \in WatchOps : ~Pending(op)

(* The streams keep to the rules of gRPC.  Every kind of operation is       *)
(* outstanding once at most, as required of Read and Write: no tag, the     *)
(* alarm's in particular, makes a stream begin an operation that it has     *)
(* already begun.  The watch gets no tag in its invalid state ("Watch is in *)
(* invalid state.", Watch.cc:81): it has none outstanding then.             *)
Orderly == StreamsTypeOK /\ OnePending /\ WatchEndsClean

(* When sync_destroy frees lease, watch and loop no operation that carries  *)
(* their address as tag is outstanding and no timer callback runs.          *)
SafeToDelete ==
  caller = "destroyed" => /\ \A op \in Ops : ~Pending(op)
                        /\ loop = "exited" /\ cq = "exited"

(* Keep-alives go on until the lease is revoked.                            *)
KeepAliveGoesOn ==
  caller = "running" ~> (lstate = "WRITE_DONE" \/ caller # "running")

(* sync_destroy returns, or the process ends with an exception.             *)
(* Lease::revoke, its first part, waits without a predicate and its wake-up *)
(* may be lost, but the running keep-alive timer brings another one; the    *)
(* rest ends when it comes after the confirmation that the watch was        *)
(* created.                                                                 *)
DestroyEnds ==
  /\ caller \in {"blocking", "waiting"} ~> caller \notin {"running", "blocking", "waiting"}
  /\ caller = "alarm" ~> (caller = "destroyed" \/ aborted)
===============================================================================
