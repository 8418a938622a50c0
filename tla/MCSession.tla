----------------------------- MODULE MCSession -----------------------------
(* Session with small constants. *)
EXTENDS Session

CONSTANTS a1, a2

\* The first client is given one address and may learn of the other, the
\* second one is given both.
MCStatic == <<{a1}, {a1, a2}>>

=============================================================================
