----------------------------- MODULE RouteRules -----------------------------
(***************************************************************************)
(* What a routing of one session's audio has to satisfy, said without any  *)
(* algorithm (internal/manager/router/router.go, the rule computeRoutes'   *)
(* comment states).  A source is a captured voice channel, a destination a *)
(* mixer; fedBy[d] are the sources of destination d, callers[s] counts the *)
(* role-bearing users in the channel of s, and fed holds the destinations  *)
(* whose mixer an ally relay feeds.                                        *)
(***************************************************************************)
EXTENDS Naturals

CONSTANTS Sources, Dests

RouteModes == {"off", "copy", "mix"}

Live(callers) == {s \in Sources : callers[s] > 0}

\* The three reasons for which a destination must mix, M being the sources that
\* mix already: one of them, a second live source, a relay.
NeedsMix(d, fedBy, callers, fed, M) ==
    \/ fedBy[d] \cap M # {}
    \/ \E s, t \in fedBy[d] \cap Live(callers) : s # t
    \/ d \in fed

\* M and X are mixing sources and destinations enough: every source with two
\* callers mixes, and with a destination that must mix all its live sources do.
IsClosed(M, X, fedBy, callers, fed) ==
    /\ \A s \in Sources : callers[s] >= 2 => s \in M
    /\ \A d \in Dests : NeedsMix(d, fedBy, callers, fed, M) =>
            d \in X /\ fedBy[d] \cap Live(callers) \subseteq M

\* The least such M and X, which every other one contains.
LeastMix(fedBy, callers, fed) ==
    {s \in Sources : \A M \in SUBSET Sources :
        (\E X \in SUBSET Dests : IsClosed(M, X, fedBy, callers, fed)) => s \in M}

MixingDests(fedBy, callers, fed) ==
    {d \in Dests : NeedsMix(d, fedBy, callers, fed, LeastMix(fedBy, callers, fed))}

\* The routes the rule asks for.
RouteOf(s, fedBy, callers, fed) ==
    IF callers[s] = 0 THEN "off"
    ELSE IF s \in LeastMix(fedBy, callers, fed) THEN "mix" ELSE "copy"
=============================================================================
