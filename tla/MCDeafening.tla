---------------------------- MODULE MCDeafening ----------------------------
(* Deafening for TLC: the raid's owner bot and one speaker. *)
EXTENDS Deafening

Fine == [lag |-> 0, faulty |-> Workers, revoke |-> FALSE, preempt |-> FALSE,
         timeOut |-> FALSE]
Lagging == [Fine EXCEPT !.lag = 1, !.faulty = {}]
Hurried == [Fine EXCEPT !.preempt = TRUE, !.timeOut = TRUE, !.faulty = {}]
Refusing == [Fine EXCEPT !.revoke = TRUE, !.faulty = Roles \ Workers]
Preempted == [Fine EXCEPT !.preempt = TRUE]

AllKinds == {Fine, Lagging, Hurried, Refusing}
OnlyLagging == {Lagging}
OnlyPreempted == {Preempted}
=============================================================================
