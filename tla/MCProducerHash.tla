--------------------------- MODULE MCProducerHash ---------------------------
(* Two of the three ids collide, and the third wraps around in every table. *)
EXTENDS ProducerHash, TLC

CONSTANTS t1, t2, t3
Hash == (t1 :> 0) @@ (t2 :> 0) @@ (t3 :> 7)

=============================================================================
