---------------------------- MODULE MCCommsBundles ----------------------------
(* Instances of CommsBundles for TLC: packets p1, p2, p3, accessors a1, a2  *)
(* and writers w1, w2 are model values.                                     *)
EXTENDS CommsBundles, TLC

CONSTANTS p1, p2, p3, a1, a2, w1, w2

(* One application thread uses all packets.                                 *)
AllFirst == [p \in Packets |-> a1]

(* Two application threads, the second with a single packet: the two packets*)
(* of the first are interchangeable.                                        *)
SplitOwner == [p \in Packets |-> IF p = p3 THEN a2 ELSE a1]

Twins == Permutations({p1, p2})
===============================================================================
