----------------------------- MODULE MCSeeding -----------------------------
(***************************************************************************)
(* Instances of Seeding for TLC.                                           *)
(***************************************************************************)
EXTENDS Seeding, TLC

\* Bots and owner come and go one at a time; look-ups fail and everything
\* overlaps; the gateway identifies again and again.
MCEnvironments ==
    {[overlap |-> FALSE, events |-> 3, toggles |-> 1, readies |-> 1, faults |-> 0],
     [overlap |-> TRUE,  events |-> 2, toggles |-> 1, readies |-> 0, faults |-> 1],
     [overlap |-> FALSE, events |-> 0, toggles |-> 0, readies |-> 3, faults |-> 0]}

Overlapping == {[overlap |-> TRUE, events |-> 1, toggles |-> 0, readies |-> 1, faults |-> 0]}
=============================================================================
