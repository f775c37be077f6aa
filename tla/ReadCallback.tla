---------------------------- MODULE ReadCallback ----------------------------
(***************************************************************************)
(* What epollRun and the read callback of a connection promise each other. *)
(* The loop calls back only for a socket that is readable or whose peer is *)
(* gone.  The callback takes what the socket holds, and returns when       *)
(* g_isExit is set or when recv has given it nothing; what errno is then   *)
(* decides whether the loop keeps the connection or closes it.  What the   *)
(* callback makes of the bytes is its own affair.                          *)
(***************************************************************************)
EXTENDS Integers

VARIABLES
    unread,     \* how much the socket holds
    peer,       \* "none", "open", or "fin"/"rst" once the peer is gone
    errno,      \* of the thread of the loop: "EAGAIN" or another code
    at,         \* "loop", "callback", "closed", "crashed"
    isExit      \* g_isExit

vars == <<unread, peer, errno, at, isExit>>

Init ==
    /\ unread = 0 /\ peer \in {"none", "open"}
    /\ errno \in {"EAGAIN", "other"}
    /\ at = "loop" /\ isExit = FALSE

-----------------------------------------------------------------------------
(* The peer and the signal handler, at any time *)

Connects == peer = "none" /\ peer' = "open" /\ UNCHANGED <<unread, errno, at, isExit>>

Arrive ==
    /\ peer = "open" /\ unread' > unread
    /\ UNCHANGED <<peer, errno, at, isExit>>

PeerLeaves ==
    /\ peer = "open" /\ peer' \in {"fin", "rst"}
    /\ UNCHANGED <<unread, errno, at, isExit>>

Exit == ~isExit /\ isExit' = TRUE /\ UNCHANGED <<unread, peer, errno, at>>

-----------------------------------------------------------------------------
(* The loop *)

\* It calls accept, or the callback of another connection.
Elsewhere ==
    /\ at # "callback"
    /\ errno' \in {"EAGAIN", "other"}
    /\ UNCHANGED <<unread, peer, at, isExit>>

\* The callback may die on entry, of a read behind its buffer.
Call ==
    /\ at = "loop" /\ (unread > 0 \/ peer \in {"fin", "rst"})
    /\ at' \in {"callback", "crashed"}
    /\ errno' \in {errno, "EAGAIN", "other"}
    /\ UNCHANGED <<unread, peer, isExit>>

-----------------------------------------------------------------------------
(* The callback *)

InCallback == at = "callback" /\ ~isExit

Return(code) == at' = IF code < 0 THEN "closed" ELSE "loop"

RecvData ==
    /\ InCallback
    /\ unread' \in 0 .. unread - 1
    /\ errno' \in {errno, "other"}
    /\ UNCHANGED <<peer, at, isExit>>

\* The end of the stream, or no room for what is there.  recv does not set
\* errno then.
RecvZero ==
    /\ InCallback /\ (unread = 0 => peer = "fin")
    /\ Return(IF errno = "EAGAIN" THEN 0 ELSE -1)
    /\ UNCHANGED <<unread, peer, errno, isExit>>

\* EAGAIN, or ECONNRESET
RecvFails ==
    /\ InCallback /\ unread = 0 /\ peer \in {"open", "rst"}
    /\ errno' = IF peer = "open" THEN "EAGAIN" ELSE "other"
    /\ Return(IF peer = "open" THEN 0 ELSE -1)
    /\ UNCHANGED <<unread, peer, isExit>>

Stops ==
    /\ at = "callback" /\ isExit
    /\ Return(0)
    /\ UNCHANGED <<unread, peer, errno, isExit>>

\* It reads or writes behind its buffer.
Crash ==
    /\ at = "callback" /\ at' = "crashed"
    /\ UNCHANGED <<unread, peer, errno, isExit>>

-----------------------------------------------------------------------------
World    == Connects \/ Arrive \/ PeerLeaves \/ Exit
Loop     == Elsewhere \/ Call
Callback == RecvData \/ RecvZero \/ RecvFails \/ Stops \/ Crash

Next == World \/ Loop \/ Callback
Spec == Init /\ [][Next]_vars
=============================================================================
