------------------------------- MODULE MCTimer -------------------------------
(* Timer with small constants. *)
EXTENDS Timer

=============================================================================
