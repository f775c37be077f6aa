----------------------------- MODULE MCReadFunc -----------------------------
(***************************************************************************)
(* TLC instances of ReadFunc: headers of two cells, a buffer of six, 1 MB  *)
(* taken as two cells.  As in the code MaxNetMsg = MaxRecvBuf, so that a   *)
(* message of MaxNetMsg - 1 cells makes the buffer grow.                   *)
(***************************************************************************)
EXTENDS ReadFunc, SequencesExt

LenCell(n) == [head |-> TRUE,  len |-> n, type |-> "DT_WAV"]
TypeCell(t) == [head |-> FALSE, len |-> 0, type |-> t]
Junk    == TypeCell("DT_LOG")

Msg(n, t, body) == <<LenCell(n), TypeCell(t)>> \o [k \in 1 .. n |-> body]

Wav(n)    == Msg(n, "DT_WAV", Junk)
Log(n)    == Msg(n, "DT_LOG", Junk)
\* audio that contains the confirm number of an (empty) header
Tricky    == Msg(2, "DT_WAV", LenCell(0))
TooLong   == <<LenCell(MaxNetMsg), TypeCell("DT_WAV")>>
CutOff(n) == SubSeq(Wav(n), 1, n + 1)

\* audio messages: empty, short, as long as the buffer, longer than it
Sizes    == {Wav(0), Wav(1), Wav(4), Wav(5)}
Others   == {Log(1), Tricky, TooLong, <<Junk>>, <<Junk, Junk>>}
Items    == Sizes \cup Others

MCStreams == {FlattenSeq(<<a, b>>) : a \in Items, b \in {Wav(1), CutOff(2)}}
                 \cup {FlattenSeq(<<Wav(1), a, Wav(0)>>) : a \in Sizes}
                 \cup {<<Junk>> \o Wav(0)}
MCWavs    == {FlattenSeq(<<a, Wav(1)>>) : a \in Sizes}
=============================================================================
