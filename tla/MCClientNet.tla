----------------------------- MODULE MCClientNet -----------------------------
(* TLC instances of ClientNet. *)
EXTENDS ClientNet

Framed(n) == [size |-> n, want |-> n]
Raw(n, w) == [size |-> n, want |-> w]

\* data with a header of its own, and data without one: as main.cpp gives it,
\* announcing more than there is; announcing less; announcing nothing
MCData     == {Framed(2), Raw(1, 2), Raw(2, 1), Raw(1, 0)}
NetFails   == {"net", "status"}
=============================================================================
