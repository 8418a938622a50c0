-------------------------------- MODULE MCTls --------------------------------
(* Tls with small constants. *)
EXTENDS Tls

MCItems == [e \in Ends |-> 2]

=============================================================================
