--------------------------- MODULE MCCheckpointLog ---------------------------
(***************************************************************************)
(* Small instances of CheckpointLog.  The chain may start at any of the     *)
(* first numbers, so that Paris falls before, inside and after windows.     *)
(***************************************************************************)
EXTENDS CheckpointLog

MCHeader == [number : 0 .. 7, diff : {128, 300, 900}]
=============================================================================
