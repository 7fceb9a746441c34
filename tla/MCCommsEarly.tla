----------------------------- MODULE MCCommsEarly -----------------------------
(* CommsEarly for TLC: end points tell packets apart only in comms, and only in *)
(* comms_async does a sender overwrite its flag.                               *)
EXTENDS CommsEarly

Conf(version, end_points, senders) ==
  [version |-> version, end_points |-> end_points, receivers |-> 1, senders |-> senders]
MCConfigurations ==
  {Conf("comms", 2, 1), Conf("comms", 1, 2), Conf("comms_async", 1, 2)}
=============================================================================
