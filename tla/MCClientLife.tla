---------------------------- MODULE MCClientLife ----------------------------
(* Two calls of init_audio_client; a library that is complete, one that    *)
(* lacks DeDataQueue.                                                      *)
EXTENDS ClientLife

MCLibraries == {6, 9}
=============================================================================
