--------------------------- MODULE OrderedChannels ---------------------------
(***************************************************************************)
(* What a pair of Transports promises to the applications at its two ends: *)
(* every flow (one direction of one channel) hands over the chunks written *)
(* to it in the order they were written, each once, until its reading end  *)
(* is shut, after which nothing more is handed over.                       *)
(***************************************************************************)
EXTENDS Integers, Sequences

CONSTANTS Flows, Data

VARIABLES
    written,    \* chunks the writing application has written
    delivered,  \* chunks the reading application has been given
    shut        \* flows whose reading end is closed

ocVars == <<written, delivered, shut>>

OCInit ==
    /\ written = [f \in Flows |-> <<>>]
    /\ delivered = [f \in Flows |-> <<>>]
    /\ shut = {}

Write(f, d) ==
    /\ written' = [written EXCEPT ![f] = Append(@, d)]
    /\ UNCHANGED <<delivered, shut>>

\* The next n chunks, in order.
Deliver(f, n) ==
    /\ f \notin shut
    /\ Len(delivered[f]) + n <= Len(written[f])
    /\ delivered' = [delivered EXCEPT ![f] = SubSeq(written[f], 1, Len(@) + n)]
    /\ UNCHANGED <<written, shut>>

Shut(f) ==
    /\ shut' = shut \cup {f}
    /\ UNCHANGED <<written, delivered>>

OCNext ==
    \E f \in Flows :
        \/ \E d \in Data : Write(f, d)
        \/ \E n \in 1 .. Len(written[f]) : Deliver(f, n)
        \/ Shut(f)

OCSpec == OCInit /\ [][OCNext]_ocVars

=============================================================================
