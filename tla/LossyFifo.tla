------------------------------ MODULE LossyFifo ------------------------------
(***************************************************************************)
(* What the server promises about the audio messages it cut out of the     *)
(* connections: a message is dropped when it is offered, or it is          *)
(* delivered once, and never overtakes one of its own connection.          *)
(***************************************************************************)
EXTENDS Integers, Sequences

CONSTANTS
    Conn        \* the connections

Message == [conn : Conn, no : Nat \ {0}]

VARIABLES
    offered,    \* offered[c]: messages of c so far
    chan,       \* messages accepted and not yet delivered
    got         \* messages delivered, in order

vars == <<offered, chan, got>>

Init ==
    /\ offered = [c \in Conn |-> 0]
    /\ chan = <<>>
    /\ got = <<>>

Offer(c) ==
    /\ offered' = [offered EXCEPT ![c] = @ + 1]
    /\ chan' \in {chan, Append(chan, [conn |-> c, no |-> offered[c] + 1])}
    /\ UNCHANGED got

Deliver ==
    /\ chan # <<>>
    /\ got' = Append(got, Head(chan))
    /\ chan' = Tail(chan)
    /\ UNCHANGED offered

Next == (\E c \in Conn : Offer(c)) \/ Deliver
Spec == Init /\ [][Next]_vars
-----------------------------------------------------------------------------
\* No message of a sequence follows a later one, or itself, of its connection.
InOrder(s) ==
    \A i, j \in 1 .. Len(s) :
        i < j /\ s[i].conn = s[j].conn => s[i].no < s[j].no

\* What was delivered and what still will be come in the order of each
\* connection, each message at most once.
OrderKept == InOrder(got \o chan)
=============================================================================
