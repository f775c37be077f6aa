---------------------------- MODULE MCClientRecv ----------------------------
(* TLC instances of ClientRecv: a confirm number of two cells. *)
EXTENDS ClientRecv, SequencesExt

ConfirmCell(k) == [confirm |-> k, len |-> 0]
LenCell(n)     == [confirm |-> 0, len |-> n]
Junk           == LenCell(0)
Msg(n, body)   == <<ConfirmCell(1), ConfirmCell(2), LenCell(n)>>
                      \o [k \in 1 .. n |-> body]

Plain(n) == Msg(n, Junk)
\* data with the beginning of a confirm number, announcements that make
\* iRcvMsgBytes wrap to 0, or are refused as too large
Tricky   == Msg(2, ConfirmCell(1))
Wraps    == SubSeq(Plain(Word - H), 1, 4)
Refused  == SubSeq(Plain(TooLarge), 1, 5)
\* a message whose data looks like a message
Nested   == SubSeq(Plain(3), 1, 3) \o Plain(0)

Once(items)    == <<FlattenSeq(items)>>

MCSessions ==
    {Once(<<Plain(1), Plain(0), Plain(2)>>), Once(<<Plain(3), Tricky>>),
     Once(<<<<Junk, Junk>>, Plain(1)>>), Once(<<Plain(0), Plain(7)>>),
     Once(<<Wraps, Plain(0)>>), Once(<<Refused, <<Junk>>, Refused>>),
     Once(<<Nested, Plain(0)>>), <<SubSeq(Nested, 1, 5), Plain(1)>>,
     Once(<<Plain(TooLarge - H), Plain(TooLarge - H + 2)>>),
     <<Plain(2), Plain(1)>>, <<Plain(0) \o <<Junk>>, Plain(2)>>}
=============================================================================
