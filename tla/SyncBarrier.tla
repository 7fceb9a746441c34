------------------------------ MODULE SyncBarrier ------------------------------
(***************************************************************************)
(* etcd/synchronization: every process of a universe of Size publishes its *)
(* state under its own etcd key, bound to a lease, watches the keys of all *)
(* and waits until the smallest state, the global state, is high enough.   *)
(*                                                                         *)
(* A process is two threads: the application thread, in sync_set_state or  *)
(* sync_wait_for_global_state, and the completion queue thread, which runs *)
(* watch_callback.  They share state_ without a lock, so the search of the *)
(* completion queue thread for the minimum is one step per entry read.     *)
(* etcd (external) is the list of events on the keys, in revision order: a *)
(* watch delivers it from revision 1 on, in responses of one or more events.*)
(* A process may stop and be started again; its lease then runs out or is  *)
(* revoked.                                                                *)
(*                                                                         *)
(* A name with a suffix, as in Reached_Above, is a faulty variant of the     *)
(* definition after it.                                                    *)
(***************************************************************************)
EXTENDS Integers, Sequences, FiniteSets

CONSTANTS
  Size,      (* universe size                                              *)
  MaxState,  (* bound: highest state the application asks for              *)
  MaxInc,    (* bound: how often a process is started                      *)
  MaxLog,    (* bound: no new Put once etcd holds that many events         *)
  AppRule,   (* "increasing": the application only ever asks for more      *)
  FaultSets, (* the sets of faults to choose from: what happens to whom    *)
  Observers, (* bound: the processes that wait and whose watch delivers    *)
  Goals      (* bound: the states they wait for                            *)

ASSUME SyncAssumption ==
  /\ Size \in Nat \ {0}
  /\ MaxState \in Nat /\ MaxInc \in Nat /\ MaxLog \in Nat
  /\ AppRule \in {"any", "increasing"}
  /\ FaultSets \subseteq SUBSET (Nat \X {"stop", "restart", "expire", "rpc", "break"})
  /\ Observers \subseteq Nat
  /\ Goals \subseteq 0 .. MaxState

Ids    == 0 .. Size - 1
States == 0 .. MaxState

STATE_INVALID     == -1
STATE_INITIALIZED == 0

VARIABLES
  faults,  (* what may go wrong, chosen at first                           *)
  log,     (* events on the keys, the index is the revision                *)
  keys,    (* keys[q]: value and lease (incarnation) of the key of q       *)
  leases,  (* live leases <<q, incarnation>>                               *)
  inc,     (* incarnation of a process, 0 before the first                 *)
  main,    (* control state of the application thread                      *)
  arg,     (* last state given to sync_set_state                           *)
  ok,      (* whether that call returned 0                                 *)
  want,    (* argument of sync_wait_for_global_state                       *)
  state,   (* state_                                                       *)
  watch,   (* control state of the completion queue thread                 *)
  pos,     (* events handled by watch_callback                             *)
  resp,    (* response_: its events are those after resp.from up to resp.to*)
  broken,  (* the watch stream failed                                      *)
  scan,    (* next entry of state_ that std::min_element compares          *)
  best,    (* the entry it found smallest so far                           *)
  low,     (* the minimum taken by global_state_change_check               *)
  global,  (* global_state_                                                *)
  overtaken, (* history: set_state wrote state_ during this scan           *)
  doubtful   (* history: global_state_ is from such a scan                 *)

envVars   == <<faults, log, keys, leases>>
mainVars  == <<inc, main, arg, ok, want>>
scanVars  == <<scan, best, overtaken>>
watchVars == <<watch, pos, resp, broken, scanVars, low, global, doubtful>>
vars == <<envVars, mainVars, state, watchVars>>

NoStates  == [q \in Ids |-> STATE_INVALID]
NoEvents  == [from |-> 0, to |-> 0]

Init ==
  /\ faults \in FaultSets
  /\ log    = <<>>
  /\ keys   = [q \in Ids |-> [val |-> STATE_INVALID, lease |-> 0]]
  /\ leases = {}
  /\ inc    = [p \in Ids |-> 0]
  /\ main   = [p \in Ids |-> "down"]
  /\ arg    = [p \in Ids |-> STATE_INVALID]
  /\ ok     = [p \in Ids |-> FALSE]
  /\ want   = [p \in Ids |-> STATE_INVALID]
  /\ state  = [p \in Ids |-> NoStates]
  /\ watch  = [p \in Ids |-> "read"]
  /\ pos    = [p \in Ids |-> 0]
  /\ resp   = [p \in Ids |-> NoEvents]
  /\ broken = [p \in Ids |-> FALSE]
  /\ scan   = [p \in Ids |-> 0]
  /\ best   = [p \in Ids |-> 0]
  /\ low    = [p \in Ids |-> STATE_INVALID]
  /\ global = [p \in Ids |-> STATE_INVALID]
  /\ overtaken = [p \in Ids |-> FALSE]
  /\ doubtful  = [p \in Ids |-> FALSE]
-------------------------------------------------------------------------------
(* The watched key range [prefix0, prefixSize): etcd compares keys as       *)
(* strings, here the decimal digits of the identifiers.                     *)

Digits[n \in Nat] == IF n < 10 THEN <<n>> ELSE Append(Digits[n \div 10], n % 10)

Before(s, t) ==
  \E k \in 0 .. Len(s) :
    /\ k < Len(t)
    /\ \A i \in 1 .. k : s[i] = t[i]
    /\ k < Len(s) => s[k + 1] < t[k + 1]

Watched == {q \in Ids : ~Before(Digits[q], Digits[0]) /\ Before(Digits[q], Digits[Size])}
-------------------------------------------------------------------------------
(* Application thread.                                                      *)

my_state(p) == state[p][p]

May(p, fault) == <<p, fault>> \in faults

HasLease(p) == <<p, inc[p]>> \in leases

(* sync_start up to the Put of set_state(STATE_INITIALIZED): the lease is   *)
(* granted, lease and watch streams and both threads are created.           *)
Start(p) ==
  /\ main[p] = "down"
  /\ inc[p] < MaxInc
  /\ inc[p] > 0 => May(p, "restart")
  /\ inc'    = [inc EXCEPT ![p] = @ + 1]
  /\ leases' = leases \cup {<<p, inc[p] + 1>>}
  /\ main'   = [main EXCEPT ![p] = "start"]
  /\ arg'    = [arg EXCEPT ![p] = STATE_INITIALIZED]
  /\ UNCHANGED <<faults, log, keys, ok, want, state, watchVars>>

MayAsk(p, v) == AppRule = "increasing" => v > arg[p]

(* sync_set_state is refused, does nothing, or goes on to the Put RPC.      *)
SetState(p, v) ==
  /\ main[p] = "idle"
  /\ MayAsk(p, v)
  /\ arg' = [arg EXCEPT ![p] = v]
  /\ \/ v < my_state(p) /\ ok' = [ok EXCEPT ![p] = FALSE] /\ UNCHANGED main
     \/ v = my_state(p) /\ ok' = [ok EXCEPT ![p] = TRUE] /\ UNCHANGED main
     \/ /\ v > my_state(p)
        /\ Len(log) < MaxLog
        /\ ok'   = [ok EXCEPT ![p] = FALSE]
        /\ main' = [main EXCEPT ![p] = "put"]
  /\ UNCHANGED <<envVars, inc, want, state, watchVars>>

Putting(p) == main[p] \in {"start", "put"}
Answer(p)  == main[p] \in {"started", "done"}

(* etcd handles the Put: the key now belongs to the lease of this process.  *)
PutApplied(p) ==
  /\ Putting(p)
  /\ HasLease(p)
  /\ log'  = Append(log, [id |-> p, inc |-> inc[p], val |-> arg[p]])
  /\ keys' = [keys EXCEPT ![p] = [val |-> arg[p], lease |-> inc[p]]]
  /\ main' = [main EXCEPT ![p] = IF @ = "start" THEN "started" ELSE "done"]
  /\ UNCHANGED <<faults, leases, inc, arg, ok, want, state, watchVars>>

(* set_state writes its own entry, also while the other thread scans.       *)
PutReturns(p) ==
  /\ Answer(p)
  /\ state' = [state EXCEPT ![p][p] = arg[p]]
  /\ ok'    = [ok EXCEPT ![p] = TRUE]
  /\ main'  = [main EXCEPT ![p] = "idle"]
  /\ overtaken' = [overtaken EXCEPT ![p] = @ \/ watch[p] = "scan"]
  /\ UNCHANGED <<envVars, inc, arg, want, watch, pos, resp, broken, scan, best, low,
                 global, doubtful>>

(* The process is gone: a stop or an exit after a failed start.             *)
Reset(p) ==
  /\ main'   = [main EXCEPT ![p] = "down"]
  /\ arg'    = [arg EXCEPT ![p] = STATE_INVALID]
  /\ ok'     = [ok EXCEPT ![p] = FALSE]
  /\ want'   = [want EXCEPT ![p] = STATE_INVALID]
  /\ state'  = [state EXCEPT ![p] = NoStates]
  /\ watch'  = [watch EXCEPT ![p] = "read"]
  /\ pos'    = [pos EXCEPT ![p] = 0]
  /\ resp'   = [resp EXCEPT ![p] = NoEvents]
  /\ broken' = [broken EXCEPT ![p] = FALSE]
  /\ scan'   = [scan EXCEPT ![p] = 0]
  /\ best'   = [best EXCEPT ![p] = 0]
  /\ low'    = [low EXCEPT ![p] = STATE_INVALID]
  /\ global' = [global EXCEPT ![p] = STATE_INVALID]
  /\ overtaken' = [overtaken EXCEPT ![p] = FALSE]
  /\ doubtful'  = [doubtful EXCEPT ![p] = FALSE]

PutFails_Unchecked(p) ==
  /\ Putting(p)
  /\ May(p, "rpc")
  /\ state' = [state EXCEPT ![p][p] = arg[p]]
  /\ ok'    = [ok EXCEPT ![p] = TRUE]
  /\ main'  = [main EXCEPT ![p] = "idle"]
  /\ UNCHANGED <<envVars, inc, arg, want, watchVars>>

(* The Put RPC fails, with the lease gone, before etcd handled it, or when  *)
(* its answer is lost: set_state throws.                                    *)
PutFails(p) ==
  /\ \/ Putting(p) /\ ~HasLease(p)
     \/ (Putting(p) \/ Answer(p)) /\ May(p, "rpc")
  /\ UNCHANGED <<envVars, inc>>
  /\ \/ main[p] \in {"start", "started"} /\ Reset(p)
     \/ /\ main[p] \in {"put", "done"}
        /\ main' = [main EXCEPT ![p] = "idle"]
        /\ UNCHANGED <<arg, ok, want, state, watchVars>>

Wait(p, k) ==
  /\ p \in Observers
  /\ k \in Goals
  /\ main[p] = "idle"
  /\ want' = [want EXCEPT ![p] = k]
  /\ main' = [main EXCEPT ![p] = "wait"]
  /\ UNCHANGED <<envVars, inc, arg, ok, state, watchVars>>

Reached_Above(p) == global[p] >= want[p] - 1

Reached(p) == global[p] >= want[p]

(* The loop of wait_for_global_state, under global_state_change_mtx_.       *)
CheckGlobal(p) ==
  /\ main[p] = "wait"
  /\ \/ /\ Reached(p)
        /\ main' = [main EXCEPT ![p] = "idle"]
        /\ want' = [want EXCEPT ![p] = STATE_INVALID]
     \/ ~Reached(p) /\ main' = [main EXCEPT ![p] = "sleep"] /\ UNCHANGED want
  /\ UNCHANGED <<envVars, inc, arg, ok, state, watchVars>>

(* A crash, or sync_destroy.                                                *)
Stop(p) ==
  /\ May(p, "stop")
  /\ main[p] # "down"
  /\ Reset(p)
  /\ UNCHANGED <<envVars, inc>>

(* A lease is revoked or runs out: always after its process is gone, else   *)
(* when keep-alives were too slow.  A key still bound to it is deleted.     *)
Expire(p, n) ==
  /\ <<p, n>> \in leases
  /\ (main[p] # "down" /\ inc[p] = n) => May(p, "expire")
  /\ leases' = leases \ {<<p, n>>}
  /\ \/ /\ keys[p].lease = n
        /\ log'  = Append(log, [id |-> p, inc |-> n, val |-> STATE_INVALID])
        /\ keys' = [keys EXCEPT ![p] = [val |-> STATE_INVALID, lease |-> 0]]
     \/ keys[p].lease # n /\ UNCHANGED <<log, keys>>
  /\ UNCHANGED <<faults, mainVars, state, watchVars>>
-------------------------------------------------------------------------------
(* Completion queue thread.                                                 *)

Receive_Once(p, n) ==
  /\ p \in Observers
  /\ main[p] # "down"
  /\ watch[p] = "read"
  /\ resp[p] = NoEvents
  /\ pos[p] < n
  /\ resp'  = [resp EXCEPT ![p].to = n]
  /\ watch' = [watch EXCEPT ![p] = "events"]
  /\ UNCHANGED <<envVars, mainVars, state, pos, broken, scanVars, low, global, doubtful>>

(* A watch response with the events up to revision n arrives.  Where it     *)
(* starts matters only if it may be handled again.                          *)
Receive(p, n) ==
  /\ p \in Observers
  /\ main[p] # "down"
  /\ watch[p] = "read"
  /\ ~broken[p]
  /\ pos[p] < n
  /\ resp'  = [resp EXCEPT ![p] = [from |-> IF May(p, "break") THEN pos[p] ELSE 0,
                                     to   |-> n]]
  /\ watch' = [watch EXCEPT ![p] = "events"]
  /\ UNCHANGED <<envVars, mainVars, state, pos, broken, scanVars, low, global, doubtful>>

Break(p) ==
  /\ May(p, "break")
  /\ main[p] # "down"
  /\ ~broken[p]
  /\ broken' = [broken EXCEPT ![p] = TRUE]
  /\ UNCHANGED <<envVars, mainVars, state, watch, pos, resp, scanVars, low, global, doubtful>>

(* The Read of a broken stream completes at once, with ok = false that      *)
(* run_completion_queue_ ignores: the old response is handled again.        *)
HandleAgain(p) ==
  /\ main[p] # "down"
  /\ watch[p] = "read"
  /\ broken[p]
  /\ pos'   = [pos EXCEPT ![p] = resp[p].from]
  /\ watch' = [watch EXCEPT ![p] = "events"]
  /\ UNCHANGED <<envVars, mainVars, state, resp, broken, scanVars, low, global, doubtful>>

Advance_Twice(p) == pos[p] + 2

Advance(p) == pos[p] + 1

NewState_KeepDeleted(p, e) ==
  IF e.id \in Watched /\ e.val # STATE_INVALID THEN e.val ELSE state[p][e.id]

(* update_state, for the events of watched keys; a deleted key is invalid.  *)
NewState(p, e) == IF e.id \in Watched THEN e.val ELSE state[p][e.id]

(* One event in watch_callback.                                             *)
HandleEvent(p) ==
  LET e == log[pos[p] + 1]
  IN /\ main[p] # "down"
     /\ watch[p] = "events"
     /\ pos[p] < resp[p].to
     /\ pos'   = [pos EXCEPT ![p] = Advance(p)]
     /\ state' = [state EXCEPT ![p][e.id] = NewState(p, e)]
     /\ UNCHANGED <<envVars, mainVars, watch, resp, broken, scanVars, low, global, doubtful>>

(* global_state_change_check: std::min_element begins with the first entry. *)
BeginScan(p) ==
  /\ main[p] # "down"
  /\ watch[p] = "events"
  /\ pos[p] = resp[p].to
  /\ best' = [best EXCEPT ![p] = 0]
  /\ scan' = [scan EXCEPT ![p] = 1]
  /\ watch' = [watch EXCEPT ![p] = "scan"]
  /\ UNCHANGED <<envVars, mainVars, state, pos, resp, broken, overtaken, low, global,
                 doubtful>>

Smaller_Larger(p) == IF state[p][scan[p]] > state[p][best[p]] THEN scan[p] ELSE best[p]

Smaller(p) == IF state[p][scan[p]] < state[p][best[p]] THEN scan[p] ELSE best[p]

(* It compares the next entry with the smallest so far, both as they are now*)
CompareEntry(p) ==
  /\ main[p] # "down"
  /\ watch[p] = "scan"
  /\ scan[p] < Size
  /\ best' = [best EXCEPT ![p] = Smaller(p)]
  /\ scan' = [scan EXCEPT ![p] = @ + 1]
  /\ UNCHANGED <<envVars, mainVars, state, watch, pos, resp, broken, overtaken, low,
                 global, doubtful>>

(* The iterator it returns is dereferenced: the entry is read once more.    *)
TakeMin(p) ==
  /\ main[p] # "down"
  /\ watch[p] = "scan"
  /\ scan[p] = Size
  /\ low' = [low EXCEPT ![p] = state[p][best[p]]]
  /\ scan' = [scan EXCEPT ![p] = 0]
  /\ best' = [best EXCEPT ![p] = 0]
  /\ watch' = [watch EXCEPT ![p] = "publish"]
  /\ UNCHANGED <<envVars, mainVars, state, pos, resp, broken, overtaken, global, doubtful>>

(* notify_all, when the global state changed.                               *)
Woken(p) ==
  [main EXCEPT ![p] = IF @ = "sleep" /\ low[p] # global[p] THEN "wait" ELSE @]

Publish(p) ==
  /\ main[p] # "down"
  /\ watch[p] = "publish"
  /\ main'   = Woken(p)
  /\ global' = [global EXCEPT ![p] = low[p]]
  /\ doubtful' = [doubtful EXCEPT ![p] = overtaken[p]]
  /\ overtaken' = [overtaken EXCEPT ![p] = FALSE]
  /\ low'    = [low EXCEPT ![p] = STATE_INVALID]
  /\ watch'  = [watch EXCEPT ![p] = "read"]
  /\ UNCHANGED <<envVars, inc, arg, ok, want, state, pos, resp, broken, scan, best>>
-------------------------------------------------------------------------------
CallStep(p) ==
  PutApplied(p) \/ PutReturns(p) \/ PutFails(p) \/ CheckGlobal(p)

WatchStep(p) ==
  \/ \E n \in 1 .. Len(log) : Receive(p, n)
  \/ HandleAgain(p)
  \/ HandleEvent(p)
  \/ BeginScan(p)
  \/ CompareEntry(p)
  \/ TakeMin(p)
  \/ Publish(p)

Next ==
  \/ \E p \in Ids :
       \/ Start(p)
       \/ \E v \in States : SetState(p, v) \/ Wait(p, v)
       \/ CallStep(p)
       \/ Stop(p)
       \/ Break(p)
       \/ WatchStep(p)
  \/ \E l \in leases : Expire(l[1], l[2])

Spec == Init /\ [][Next]_vars

(* Both threads run and etcd answers; the application need not call.        *)
(* The watch of a process that is no observer has nothing to do.            *)
FairSpec ==
  /\ Spec
  /\ \A p \in Ids : WF_vars(CallStep(p))
  /\ \A p \in Observers : WF_vars(WatchStep(p))
-------------------------------------------------------------------------------
Values == States \cup {STATE_INVALID}

Events == [id : Ids, inc : 1 .. MaxInc, val : Values]

TypeOK ==
  /\ faults \in FaultSets
  /\ log    \in Seq(Events)
  /\ keys   \in [Ids -> [val : Values, lease : 0 .. MaxInc]]
  /\ leases \in SUBSET (Ids \X (1 .. MaxInc))
  /\ inc    \in [Ids -> 0 .. MaxInc]
  /\ main   \in [Ids -> {"down", "start", "started", "idle", "put", "done",
                         "wait", "sleep"}]
  /\ arg    \in [Ids -> Values]
  /\ ok     \in [Ids -> BOOLEAN]
  /\ want   \in [Ids -> Values]
  /\ state  \in [Ids -> [Ids -> Values]]
  /\ watch  \in [Ids -> {"read", "events", "scan", "publish"}]
  /\ pos    \in [Ids -> 0 .. Len(log)]
  /\ resp   \in [Ids -> [from : 0 .. Len(log), to : 0 .. Len(log)]]
  /\ broken \in [Ids -> BOOLEAN]
  /\ scan   \in [Ids -> 0 .. Size]
  /\ best   \in [Ids -> Ids]
  /\ low    \in [Ids -> Values]
  /\ global \in [Ids -> Values]
  /\ overtaken \in [Ids -> BOOLEAN]
  /\ doubtful  \in [Ids -> BOOLEAN]

Released(p) == main[p] = "wait" /\ main'[p] = "idle"

EverReached(q, k) == \E i \in 1 .. Len(log) : log[i].id = q /\ log[i].val >= k

(* The wait for a global state ends when it is reached: not before every    *)
(* process of the universe has published at least that state at some time.  *)
NeverTooEarly ==
  [][\A p \in Ids : Released(p) => \A q \in Ids : EverReached(q, want[p])]_vars

(* There is one way to break it: that set_state raises the process's own    *)
(* entry under a scan, which then ends with the new value as the minimum.   *)
(* Whatever restarts, expires or fails, no waiter is let through otherwise  *)
(* before all have published its state, and none, even so, before its own   *)
(* process has.                                                             *)
EarlyOnlyOvertaken ==
  [][\A p \in Ids : Released(p) =>
        /\ EverReached(p, want[p])
        /\ ~doubtful[p] => \A q \in Ids : EverReached(q, want[p])]_vars

Exited(q) == inc[q] > 0 /\ main[q] = "down"

Undisturbed(q) == inc[q] = 1 /\ (main[q] # "down" => HasLease(q))

(* As long as no process was started again and no lease ran out the barrier *)
(* is exact: at its release every process still there is at the awaited     *)
(* state, unless the minimum was scanned while set_state wrote.             *)
BarrierHolds ==
  [][\A p \in Ids : Released(p) /\ ~doubtful[p] /\ (\A q \in Ids : Undisturbed(q)) =>
        \A q \in Ids : keys[q].val >= want[p] \/ Exited(q)]_vars

(* Once all events are handled the cached states of the others and the      *)
(* global state are those in etcd, although the application thread writes   *)
(* state_ and the minimum is scanned for without a lock.                    *)
CaughtUp ==
  \A p \in Ids :
    main[p] # "down" /\ ~broken[p] /\ watch[p] = "read" /\ pos[p] = Len(log) =>
      /\ \A q \in Ids \ {p} : state[p][q] = keys[q].val
      /\ HasLease(p) => /\ \A q \in Ids : global[p] <= keys[q].val
                        /\ \E q \in Ids : global[p] = keys[q].val

AckedIsStored ==
  \A p \in Ids : ok[p] /\ HasLease(p) /\ inc[p] = 1 => keys[p].val >= arg[p]

(* What the layer tells the application of etcd is true: the caches, once   *)
(* all events are handled, and sync_set_state, which returned 0 only for a  *)
(* state that etcd holds while the lease lives, if the process was never    *)
(* started before.                                                          *)
Truthful == CaughtUp /\ AckedIsStored

Waiting(p) == main[p] \in {"wait", "sleep"}

AllAt(k) == \A q \in Ids : keys[q].val >= k

(* A waiter returns when all processes have got there and stay there, as    *)
(* long as its watch works.                                                 *)
WaitReturns ==
  \A p \in Ids : Waiting(p) /\ AllAt(want[p]) /\ ~broken[p] ~>
                 ~Waiting(p) \/ ~AllAt(want[p]) \/ broken[p]
===============================================================================
