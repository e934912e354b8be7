---------------------------- MODULE MCAudioPath ----------------------------
(* AudioPath for TLC: one user, the relay and two speakers in the channel. *)
EXTENDS AudioPath, TLC

CONSTANTS o1, o2
TwoOuts == <<o1, o2>>

\* Buffers are interchangeable.
Symmetry == Permutations(Bufs)
=============================================================================
