----------------------------- MODULE MCTransport -----------------------------
(* Transport with small constants. *)
EXTENDS Transport

MCOneWay == [e \in Ends |-> IF e = "client" THEN 3 ELSE 0]

=============================================================================
