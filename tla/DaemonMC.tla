------------------------------ MODULE DaemonMC ------------------------------
(* Instances of Daemon for TLC. *)
EXTENDS Daemon, TLC

CONSTANTS h1, h2, l1, l2, run, refresh, proxy, tun, closed

LoopSymmetry == Permutations({l1, l2})
=============================================================================
