----------------------------- MODULE MCLauncher -----------------------------
(* Exit codes that are 0, the number of a signal and neither; a signal that *)
(* ends a program, one that also dumps core, one without a name and SIGKILL.*)
EXTENDS Launcher
=============================================================================
