----------------------------- MODULE ReadyGuard -----------------------------
(***************************************************************************)
(* readyGuard (internal/bot/ready_guard.go): whether one more READY of the *)
(* owner bot's gateway may seed the guilds.  Time is counted in ticks, and *)
(* a READY is remembered by its age while that is within the window.       *)
(***************************************************************************)
EXTENDS Naturals, FiniteSetsExt

CONSTANTS Window,   \* readyStormWindow, in ticks
          Limit     \* readyStormLimit

ASSUME ReadyGuardConstants == Window \in Nat \ {0} /\ Limit \in Nat

Ages == 0..(Window - 1)
NoneSeen == [a \in Ages |-> 0]

Seen(ages) == MapThenSumSet(LAMBDA a : ages[a], Ages)

\* A READY that comes now.
Recorded(ages) == [ages EXCEPT ![0] = @ + 1]

\* One tick later, what leaves the window is forgotten.
Older(ages) == [a \in Ages |-> IF a = 0 THEN 0 ELSE ages[a - 1]]

\* Slip: the READY that comes is not counted itself.
AdmitsAfter(ages) == Seen(ages) <= Limit

\* admit's verdict on a READY that comes after those of ages.
Admits(ages) == Seen(Recorded(ages)) <= Limit
=============================================================================
