----------------------------- MODULE PacketLedger -----------------------------
(***************************************************************************)
(* What the comms layer promises about a packet, whatever queues, bundles  *)
(* and threads carry it: once accepted it is settled exactly once, and only*)
(* settled packets go back to the application.  Whichever peer a packet is *)
(* for, only the peer Gateway ever gets it, at most MaxDeliveries times    *)
(* before it is settled; success says that this peer got it, and nothing   *)
(* about the peer it was for.                                              *)
(***************************************************************************)
EXTENDS Naturals

CONSTANTS Packets, Peers, Gateway, MaxDeliveries

VARIABLES status, deliveries

None == [e \in Peers |-> 0]

Init ==
  /\ status     = [p \in Packets |-> "app"]
  /\ deliveries = [p \in Packets |-> None]

Become(S, s) == status' = [p \in Packets |-> IF p \in S THEN s ELSE status[p]]

(* The application gives the packets of S away.                            *)
Accept(S) ==
  /\ \A p \in S : status[p] = "app"
  /\ Become(S, "pending")
  /\ UNCHANGED deliveries

(* The gateway gets the packets of S (again).                              *)
Arrive(S) ==
  /\ \A p \in S : status[p] = "pending" /\ deliveries[p][Gateway] < MaxDeliveries
  /\ deliveries' = [p \in Packets |-> [e \in Peers |->
                      deliveries[p][e] + IF p \in S /\ e = Gateway THEN 1 ELSE 0]]
  /\ UNCHANGED status

(* The result of the packets of S is available to the application.         *)
Settle(S, verdict) ==
  /\ \A p \in S : status[p] = "pending"
  /\ verdict = "success" => \A p \in S : deliveries[p][Gateway] > 0
  /\ Become(S, verdict)
  /\ UNCHANGED deliveries

(* The application takes the packets of S back.                            *)
Collect(S) ==
  /\ \A p \in S : status[p] \in {"success", "failure"}
  /\ Become(S, "app")
  /\ deliveries' = [p \in Packets |-> IF p \in S THEN None ELSE deliveries[p]]

Next ==
  \E S \in SUBSET Packets :
    \/ Accept(S)
    \/ Arrive(S)
    \/ Settle(S, "success") \/ Settle(S, "failure")
    \/ Collect(S)

Spec == Init /\ [][Next]_<<status, deliveries>>
===============================================================================
