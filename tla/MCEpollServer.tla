---------------------------- MODULE MCEpollServer ----------------------------
(***************************************************************************)
(* TLC instances of EpollServer: two connections from one address and one  *)
(* from another.                                                           *)
(***************************************************************************)
EXTENDS EpollServer

CONSTANTS c1, c2, c3, a1, a2

MCIpOf    == [c \in Conn |-> IF c = c3 THEN a2 ELSE a1]
NoFaults  == {}
AllFaults == {"add", "room"}
=============================================================================
