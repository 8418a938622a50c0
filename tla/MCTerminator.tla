--------------------------- MODULE MCTerminator ---------------------------
(* Terminator with small constants. *)
EXTENDS Terminator

MCChunks == [e \in Ends |-> IF e = "client" THEN 2 ELSE 1]
MCRaw == [e \in Ends |-> IF e = "client" THEN 3 ELSE 0]

=============================================================================
