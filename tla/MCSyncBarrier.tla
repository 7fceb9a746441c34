----------------------------- MODULE MCSyncBarrier -----------------------------
(* Instances of SyncBarrier for TLC.                                        *)
EXTENDS SyncBarrier

(* The observer loses its watch stream; the other one stops, loses its lease*)
(* and its Put RPCs fail.                                                   *)
Spread == {<<0, "break">>, <<1, "stop">>, <<1, "expire">>, <<1, "rpc">>}

(* The observer stops and starts again.                                     *)
Restart == {<<0, "stop">>, <<0, "restart">>}

SpreadOrRestart == {Spread, Restart}

NoFaults == {{}}
===============================================================================
