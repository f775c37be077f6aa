------------------------------ MODULE MCStartup ------------------------------
(***************************************************************************)
(* TLC instance of Startup: two process numbers, which are used again and  *)
(* again, and two directories.  The theorems take any number of each.      *)
(***************************************************************************)
EXTENDS Startup, TLC

CONSTANTS p1, p2, d1, d2

AnyCall == {"fork", "open", "fcntl", "ftruncate", "write", "load", "sigaction",
            "socket", "epoll"}
=============================================================================
