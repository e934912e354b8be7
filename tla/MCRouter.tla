------------------------------ MODULE MCRouter ------------------------------
(***************************************************************************)
(* Instances of Router for TLC.                                            *)
(***************************************************************************)
EXTENDS Router, TLC

CONSTANTS a, u, v, w

\* Recomputations that overtake each other, without a drain watcher; and a
\* slow world in which the router settles, with a watcher and a bystander that
\* bears no role.
MCEnvironments ==
    {[overlap |-> TRUE,  humans |-> {u, v},    further |-> 1, watched |-> {}],
     [overlap |-> FALSE, humans |-> {u, v, w}, further |-> 3, watched |-> {a}]}

\* For one question each: a recomputation that applies what it probed before
\* another one; a watcher that acts on a router's pause; a recomputation
\* that meets a Close.
Overtaking == {[overlap |-> TRUE, humans |-> {u}, further |-> 2, watched |-> {}]}
Settling == {[overlap |-> FALSE, humans |-> {u, v}, further |-> 1, watched |-> {a}]}
Closing == {[overlap |-> FALSE, humans |-> {u}, further |-> 0, watched |-> {}]}

\* The role-bearing humans are interchangeable, and so are the recomputations
\* after the first one.
Symmetry == Permutations(Bearers) \cup Permutations(Runs \ {Boot})
=============================================================================
