------------------------------- MODULE MCLink -------------------------------
(* Link with small constants. *)
EXTENDS Link

MCOneWay == [e \in Ends |-> IF e = "client" THEN 2 ELSE 0]
MCOnePacket == [e \in Ends |-> IF e = "client" THEN 1 ELSE 0]

=============================================================================
