---------------------------- MODULE MCLaunchGate ----------------------------
(* Small instances of LaunchGate.                                            *)
EXTENDS LaunchGate
=============================================================================
