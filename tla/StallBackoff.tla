---------------------------- MODULE StallBackoff ----------------------------
(* stallBackoff (manager/voice_raid_reconnect.go) for one guild and bot: when *)
(* a report of a stalled encryptor may rejoin the bot.  Time is relative: how *)
(* long ago the last report was, how long until the next rejoin is due, both  *)
(* cut off at BackoffMax, beyond which the code starts over.                  *)
EXTENDS Naturals

CONSTANTS BackoffMin, BackoffMax

ASSUME BackoffAssumption ==
    BackoffMin \in Nat \ {0} /\ BackoffMax \in Nat /\ BackoffMin <= BackoffMax

Least(a, b) == IF a < b THEN a ELSE b

\* No entry, or one whose last report is BackoffMax old: both start over.
Quiet == [ago |-> BackoffMax, left |-> 0, delay |-> BackoffMin]

Backoffs == [ago : 0..BackoffMax, left : 0..BackoffMax, delay : BackoffMin..BackoffMax]

Due(b) == b.left = 0

\* slip: the next rejoin is not put off
ReportedAtOnce(b) == [b EXCEPT !.ago = 0]

\* due: the first report, and each after the delay, rejoins; the delay doubles.
Reported(b) ==
    IF Due(b) THEN [ago |-> 0, left |-> b.delay, delay |-> Least(2 * b.delay, BackoffMax)]
    ELSE [b EXCEPT !.ago = 0]

\* A unit of time.
Later(b) ==
    IF b.ago + 1 >= BackoffMax THEN Quiet
    ELSE [b EXCEPT !.ago = @ + 1, !.left = IF @ = 0 THEN 0 ELSE @ - 1]
=============================================================================
