--------------------------- MODULE MCLaunchCountdown ---------------------------
(* Instances of LaunchCountdown for TLC.                                   *)
EXTENDS LaunchCountdown, TLC

CONSTANTS c1, c2, c3

MCSymmetry == Permutations(Threads)
=============================================================================
