-------------------------- MODULE MCRaidLifecycle --------------------------
(***************************************************************************)
(* Instances of RaidLifecycle for TLC.                                     *)
(***************************************************************************)
EXTENDS RaidLifecycle, TLC

\* Commands and guilds are interchangeable; for the runs that check no liveness
\* property.
Symmetry == Permutations(Commands) \cup Permutations(Guilds)
=============================================================================
