------------------------------- MODULE Cascade -------------------------------
(***************************************************************************)
(* computeRoutes (internal/manager/router/router.go): the cascade that     *)
(* turns caller counts into a mode per source and a mix flag per           *)
(* destination, pass after pass until nothing changes.                     *)
(*                                                                         *)
(* Recompute hands the destinations over in the order of a Go map, so a    *)
(* step is the turn of any destination the pass has not visited yet.  The  *)
(* topology and the counts are inputs: chosen at first, never changed.     *)
(***************************************************************************)
EXTENDS RouteRules

CONSTANT Counts   \* the caller counts an input may hold

ASSUME CountsAreNaturals == Counts \subseteq Nat

VARIABLES fedBy,        \* routeDest.sourceIDs
          callers,      \* callerCounts
          fed,          \* the destinations relayFed holds
          sourceModes,
          destMix,      \* the destinations set in destMix
          todo,         \* destinations this pass has not visited
          changed

inputs == <<fedBy, callers, fed>>
vars == <<fedBy, callers, fed, sourceModes, destMix, todo, changed>>

TypeOK ==
    /\ fedBy \in [Dests -> SUBSET Sources]
    /\ callers \in [Sources -> Nat]
    /\ fed \subseteq Dests
    /\ sourceModes \in [Sources -> RouteModes]
    /\ destMix \subseteq Dests
    /\ todo \subseteq Dests
    /\ changed \in BOOLEAN

\* Mutant: a channel with two callers is passed on raw.
BaselineCopiesTwo(c) == IF c = 0 THEN "off" ELSE IF c <= 2 THEN "copy" ELSE "mix"

\* The mode a source's own channel asks for.
Baseline(c) == IF c = 0 THEN "off" ELSE IF c = 1 THEN "copy" ELSE "mix"

Init ==
    /\ fedBy \in [Dests -> SUBSET Sources]
    /\ callers \in [Sources -> Counts]
    /\ fed \in SUBSET Dests
    /\ sourceModes = [s \in Sources |-> Baseline(callers[s])]
    /\ destMix = {}
    /\ todo = Dests
    /\ changed = FALSE

\* Mutant: two raw writers on one destination are let through.
PromotesUnlessCrowded(d) ==
    \/ \E s \in fedBy[d] : sourceModes[s] = "mix"
    \/ d \in fed

Promotes(d) ==
    \/ \E s \in fedBy[d] : sourceModes[s] = "mix"
    \/ \E s, t \in fedBy[d] : s # t /\ sourceModes[s] # "off" /\ sourceModes[t] # "off"
    \/ d \in fed

\* Mutant: a silent source is forced into mix mode too.
ForcesMixOnAll(d, s) == s \in fedBy[d]

\* Mutant: a turn that promotes anything counts as a change.
ChangesAlways(d) == TRUE

\* What a promoted destination does to the sources that feed it.
ForcesMix(d, s) == s \in fedBy[d] /\ sourceModes[s] = "copy"

Changes(d) == d \notin destMix \/ \E s \in fedBy[d] : ForcesMix(d, s)

\* The turn of destination d within a pass.
Visit(d) ==
    /\ d \in todo
    /\ todo' = todo \ {d}
    /\ \/ /\ ~Promotes(d)
          /\ UNCHANGED <<sourceModes, destMix, changed>>
       \/ /\ Promotes(d)
          /\ destMix' = destMix \cup {d}
          /\ sourceModes' = [s \in Sources |->
                                IF ForcesMix(d, s) THEN "mix" ELSE sourceModes[s]]
          /\ changed' = (changed \/ Changes(d))
    /\ UNCHANGED inputs

\* A pass that changed something is followed by another.
Again ==
    /\ todo = {} /\ changed
    /\ todo' = Dests
    /\ changed' = FALSE
    /\ UNCHANGED <<inputs, sourceModes, destMix>>

Next == Again \/ \E d \in Dests : Visit(d)

Spec == Init /\ [][Next]_vars
FairSpec == Spec /\ WF_vars(Next)

-----------------------------------------------------------------------------
Returned == todo = {} /\ ~changed
Mixing == {s \in Sources : sourceModes[s] = "mix"}

\* Whatever the order the destinations come in, the result is the same, and it
\* is the least routing the rule allows: nothing is decoded that need not be
\* ("Every RouteCopy source feeding a promoted destination is then forced into
\* RouteMix", iterated to fixpoint).
LeastRoutes ==
    Returned =>
        /\ IsClosed(Mixing, destMix, fedBy, callers, fed)
        /\ \A M \in SUBSET Sources, X \in SUBSET Dests :
              IsClosed(M, X, fedBy, callers, fed) => Mixing \subseteq M /\ destMix \subseteq X

\* The result puts no raw writer beside another writer: a source in copy mode
\* is the only live source of each destination it feeds, and none of them mixes
\* ("otherwise a raw-Opus writer and the mixer sink would race").
RawWriterIsAlone ==
    Returned => \A d \in Dests, s \in Sources :
        s \in fedBy[d] /\ sourceModes[s] = "copy" =>
            /\ d \notin destMix
            /\ \A t \in fedBy[d] \ {s} : sourceModes[t] = "off"

\* At every point off means exactly that nobody is there to be captured: "the
\* cascade only ever promotes Copy->Mix - it never revives an Off source"
\* (notifyCapture, which drives the bots' deafening from it).
OffIsExact == \A s \in Sources : sourceModes[s] = "off" <=> callers[s] = 0

\* The loop ends on every input.
CascadeEnds == <>Returned
=============================================================================
