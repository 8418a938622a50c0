------------------------------- MODULE MCPipe -------------------------------
(* Pipe with small constants. *)
EXTENDS Pipe

=============================================================================
