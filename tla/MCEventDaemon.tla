----------------------------- MODULE MCEventDaemon -----------------------------
(***************************************************************************)
(* Two daemon processes and their dispatchers for TLC.                     *)
(***************************************************************************)
EXTENDS EventDaemon
MCLadder == <<1, 2>>
================================================================================
