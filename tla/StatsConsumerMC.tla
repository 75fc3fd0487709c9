---------------------------- MODULE StatsConsumerMC ---------------------------
(* Instances of StatsConsumer for TLC.                                     *)
EXTENDS StatsConsumer, TLC

CONSTANTS d1, d2, m1, m2, m3

Symmetry == Permutations(Consumers)
===============================================================================
