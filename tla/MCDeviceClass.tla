---------------------------- MODULE MCDeviceClass ----------------------------
(* Instances of DeviceClass for TLC. *)
EXTENDS DeviceClass, TLC

CONSTANTS t1, t2, s1, s2

\* Threads, and subscribers, are interchangeable in every invariant.
Symmetry == Permutations(Threads) \cup Permutations(Subs)
=============================================================================
