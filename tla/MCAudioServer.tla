---------------------------- MODULE MCAudioServer ----------------------------
(***************************************************************************)
(* TLC instances of AudioServer: two connections, two workers.             *)
(***************************************************************************)
EXTENDS AudioServer

CONSTANTS a, b

NoFailure  == {}
SomeFail   == {WorkerThread(0), ScanThread}
=============================================================================
