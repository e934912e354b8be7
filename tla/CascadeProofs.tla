---------------------------- MODULE CascadeProofs ----------------------------
(***************************************************************************)
(* The cascade is right for every set of sources and destinations, every   *)
(* topology, every caller count and every order of the destinations.       *)
(***************************************************************************)
EXTENDS Cascade, TLAPS

\* The modes only ever move from copy to mix.
ModesOK ==
    \A s \in Sources :
        /\ sourceModes[s] = "off" <=> callers[s] = 0
        /\ callers[s] >= 2 => sourceModes[s] = "mix"

\* A destination the rule leaves as it is.
Stable(d) ==
    Promotes(d) => d \in destMix /\ \A s \in fedBy[d] : sourceModes[s] # "copy"

\* As long as a pass has changed nothing, what it visited is stable.
PassOK == ~changed => \A d \in Dests \ todo : Stable(d)

\* Nothing is promoted that any routing the rule allows does not promote.
Necessary ==
    \A M \in SUBSET Sources, X \in SUBSET Dests :
        IsClosed(M, X, fedBy, callers, fed) => Mixing \subseteq M /\ destMix \subseteq X

CascadeInv == TypeOK /\ ModesOK /\ PassOK /\ Necessary

\* A source is live exactly when its mode is not off.
LEMMA LiveIsNotOff ==
  ASSUME TypeOK, ModesOK, NEW s \in Sources
  PROVE  s \in Live(callers) <=> sourceModes[s] # "off"
<1>1. callers[s] \in Nat
  BY DEF TypeOK
<1>. QED
  BY <1>1 DEF ModesOK, Live

\* On the modes the cascade holds, the code's test is the rule's.
LEMMA PromotesIsNeedsMix ==
  ASSUME TypeOK, ModesOK, NEW d \in Dests
  PROVE  Promotes(d) <=> NeedsMix(d, fedBy, callers, fed, Mixing)
<1>1. fedBy[d] \subseteq Sources
  BY DEF TypeOK
<1>. QED
  BY <1>1, LiveIsNotOff DEF Promotes, NeedsMix, Mixing

\* A destination that must mix for M must mix for every larger M.
LEMMA NeedsMixMonotone ==
  ASSUME NEW d \in Dests, NEW M, NEW N, M \subseteq N,
         NeedsMix(d, fedBy, callers, fed, M)
  PROVE  NeedsMix(d, fedBy, callers, fed, N)
BY DEF NeedsMix

\* Before the first pass the invariant holds: only the baseline is set.
LEMMA CascadeInit == Init => CascadeInv
<1>. SUFFICES ASSUME Init PROVE CascadeInv
  OBVIOUS
<1>1. callers \in [Sources -> Nat]
  BY CountsAreNaturals DEF Init
<1>2. TypeOK
  BY <1>1 DEF Init, TypeOK, RouteModes, Baseline
<1>3. ModesOK
  <2>. SUFFICES ASSUME NEW s \in Sources
                PROVE  /\ sourceModes[s] = "off" <=> callers[s] = 0
                       /\ callers[s] >= 2 => sourceModes[s] = "mix"
    BY DEF ModesOK
  <2>1. callers[s] \in Nat /\ sourceModes[s] = Baseline(callers[s])
    BY <1>1 DEF Init
  <2>. QED
    BY <2>1 DEF Baseline
<1>4. PassOK
  BY DEF Init, PassOK
<1>5. \A s \in Sources : sourceModes[s] = "mix" => callers[s] >= 2
  BY <1>1 DEF Init, Baseline
<1>6. Necessary
  BY <1>5 DEF Init, Necessary, IsClosed, Mixing
<1>. QED
  BY <1>2, <1>3, <1>4, <1>6 DEF CascadeInv

\* The turn of one destination keeps the invariant.
LEMMA CascadeVisit ==
  ASSUME CascadeInv, NEW d \in Dests, Visit(d)
  PROVE  CascadeInv'
<1>. TypeOK /\ ModesOK /\ PassOK /\ Necessary
  BY DEF CascadeInv
<1>. UNCHANGED <<fedBy, callers, fed>>
  BY DEF Visit, inputs
<1>1. CASE ~Promotes(d)
  <2>. UNCHANGED <<sourceModes, destMix, changed>> /\ todo' = todo \ {d}
    BY <1>1 DEF Visit
  <2>1. TypeOK' /\ ModesOK'
    BY DEF TypeOK, ModesOK
  <2>2. PassOK'
    BY <1>1 DEF PassOK, Stable, Promotes
  <2>3. Necessary'
    BY DEF Necessary, Mixing
  <2>. QED
    BY <2>1, <2>2, <2>3 DEF CascadeInv
<1>2. CASE Promotes(d)
  <2>. DEFINE forced == {s \in Sources : ForcesMix(d, s)}
  <2>1. /\ todo' = todo \ {d}
        /\ destMix' = destMix \cup {d}
        /\ changed' = (changed \/ Changes(d))
        /\ \A s \in Sources : sourceModes'[s] =
              IF ForcesMix(d, s) THEN "mix" ELSE sourceModes[s]
        /\ sourceModes' \in [Sources -> RouteModes]
    BY <1>2 DEF Visit, TypeOK, RouteModes
  <2>2. TypeOK'
    BY <2>1 DEF TypeOK, Changes
  <2>3. ModesOK'
    BY <2>1 DEF ModesOK, ForcesMix
  <2>4. PassOK'
    <3>. SUFFICES ASSUME ~changed' PROVE \A e \in Dests \ todo' : Stable(e)'
      BY DEF PassOK
    <3>1. ~changed /\ d \in destMix /\ \A s \in fedBy[d] : sourceModes[s] # "copy"
      BY <2>1 DEF Changes, ForcesMix
    <3>2. sourceModes' = sourceModes /\ destMix' = destMix
      BY <2>1, <3>1 DEF ForcesMix, TypeOK
    <3>3. \A e \in Dests \ todo' : Stable(e)
      BY <2>1, <3>1 DEF PassOK, Stable
    <3>. QED
      BY <3>2, <3>3 DEF Stable, Promotes
  <2>5. Necessary'
    <3>. SUFFICES ASSUME NEW M \in SUBSET Sources, NEW X \in SUBSET Dests,
                         IsClosed(M, X, fedBy, callers, fed)
                  PROVE  Mixing' \subseteq M /\ destMix' \subseteq X
      BY DEF Necessary
    <3>1. Mixing \subseteq M /\ destMix \subseteq X
      BY DEF Necessary
    <3>2. NeedsMix(d, fedBy, callers, fed, M)
      BY <1>2, <3>1, PromotesIsNeedsMix, NeedsMixMonotone
    <3>3. d \in X /\ fedBy[d] \cap Live(callers) \subseteq M
      BY <3>2 DEF IsClosed
    <3>4. \A s \in Sources : ForcesMix(d, s) => s \in fedBy[d] \cap Live(callers)
      BY DEF ForcesMix, TypeOK, ModesOK, Live
    <3>. QED
      BY <2>1, <3>1, <3>3, <3>4 DEF Mixing
  <2>. QED
    BY <2>2, <2>3, <2>4, <2>5 DEF CascadeInv
<1>. QED
  BY <1>1, <1>2

\* Every step of the loop keeps the invariant.
LEMMA CascadeStep == CascadeInv /\ [Next]_vars => CascadeInv'
<1>. SUFFICES ASSUME CascadeInv, [Next]_vars PROVE CascadeInv'
  OBVIOUS
<1>1. CASE Again
  BY <1>1 DEF Again, inputs, CascadeInv, TypeOK, ModesOK, PassOK, Necessary, Mixing
<1>2. CASE UNCHANGED vars
  BY <1>2 DEF vars, CascadeInv, TypeOK, ModesOK, PassOK, Stable, Promotes, Necessary, Mixing
<1>. QED
  BY <1>1, <1>2, CascadeVisit DEF Next

\* When the loop is over, every destination is stable: the result is closed.
LEMMA ReturnedIsClosed ==
  ASSUME CascadeInv, Returned
  PROVE  IsClosed(Mixing, destMix, fedBy, callers, fed)
<1>. TypeOK /\ ModesOK /\ PassOK
  BY DEF CascadeInv
<1>1. \A d \in Dests : Stable(d)
  BY DEF Returned, PassOK
<1>2. \A s \in Sources : callers[s] >= 2 => s \in Mixing
  BY DEF ModesOK, Mixing
<1>3. ASSUME NEW d \in Dests, NeedsMix(d, fedBy, callers, fed, Mixing)
      PROVE  d \in destMix /\ fedBy[d] \cap Live(callers) \subseteq Mixing
  <2>1. d \in destMix /\ \A s \in fedBy[d] : sourceModes[s] # "copy"
    BY <1>1, <1>3, PromotesIsNeedsMix DEF Stable
  <2>2. \A s \in fedBy[d] \cap Live(callers) : s \in Sources /\ sourceModes[s] = "mix"
    BY <2>1, LiveIsNotOff DEF TypeOK, RouteModes
  <2>. QED
    BY <2>1, <2>2 DEF Mixing
<1>. QED
  BY <1>2, <1>3 DEF IsClosed

\* The inductive invariant of the cascade holds throughout.
THEOREM CascadeInvariant == Spec => []CascadeInv
BY CascadeInit, CascadeStep, PTL DEF Spec

\* For every topology, every caller count and every order of the destinations,
\* computeRoutes returns the one least routing its rule allows.
THEOREM CascadeIsLeast == Spec => []LeastRoutes
<1>1. CascadeInv => LeastRoutes
  BY ReturnedIsClosed DEF CascadeInv, Necessary, LeastRoutes
<1>. QED
  BY <1>1, CascadeInvariant, PTL

\* No routing computeRoutes returns lets a raw writer share a destination with
\* another live source or with the destination's mixer.
THEOREM CopyWritesAlone == Spec => []RawWriterIsAlone
<1>1. ASSUME CascadeInv, Returned, NEW d \in Dests, NEW s \in Sources,
             s \in fedBy[d], sourceModes[s] = "copy"
      PROVE  d \notin destMix /\ \A t \in fedBy[d] \ {s} : sourceModes[t] = "off"
  <2>. TypeOK /\ ModesOK /\ PassOK /\ Necessary
    BY <1>1 DEF CascadeInv
  <2>1. ~Promotes(d)
    BY <1>1 DEF Returned, PassOK, Stable
  <2>2. \A t \in fedBy[d] \ {s} : sourceModes[t] = "off"
    BY <1>1, <2>1 DEF Promotes
  <2>3. IsClosed(Mixing, destMix, fedBy, callers, fed)
    BY <1>1, ReturnedIsClosed
  <2>4. ~NeedsMix(d, fedBy, callers, fed, Mixing)
    BY <2>1, PromotesIsNeedsMix
  <2>5. IsClosed(Mixing, destMix \ {d}, fedBy, callers, fed)
    BY <2>3, <2>4 DEF IsClosed
  <2>6. Mixing \in SUBSET Sources /\ destMix \ {d} \in SUBSET Dests
    BY DEF TypeOK, Mixing
  <2>7. destMix \subseteq destMix \ {d}
    BY <2>5, <2>6 DEF Necessary
  <2>. QED
    BY <2>2, <2>7
<1>2. CascadeInv => RawWriterIsAlone
  BY <1>1 DEF RawWriterIsAlone
<1>. QED
  BY <1>2, CascadeInvariant, PTL

\* Off is an exact reading of an empty channel at every point of the cascade.
THEOREM OffMeansEmpty == Spec => []OffIsExact
<1>1. CascadeInv => OffIsExact
  BY DEF CascadeInv, ModesOK, OffIsExact
<1>. QED
  BY <1>1, CascadeInvariant, PTL

\* What the rule asks for, said as one function of the inputs: the form in which
\* Router uses the cascade.
RoutesAsRuled ==
    Returned =>
        /\ \A s \in Sources : sourceModes[s] = RouteOf(s, fedBy, callers, fed)
        /\ destMix = MixingDests(fedBy, callers, fed)

\* Router's one-step use of RouteOf and MixingDests is exactly what the loop of
\* computeRoutes returns.
THEOREM CascadeComputesRoutes == Spec => []RoutesAsRuled
<1>1. ASSUME CascadeInv, Returned
      PROVE  /\ \A s \in Sources : sourceModes[s] = RouteOf(s, fedBy, callers, fed)
             /\ destMix = MixingDests(fedBy, callers, fed)
  <2>. TypeOK /\ ModesOK /\ PassOK /\ Necessary
    BY <1>1 DEF CascadeInv
  <2>1. IsClosed(Mixing, destMix, fedBy, callers, fed)
    BY <1>1, ReturnedIsClosed
  <2>2. Mixing \in SUBSET Sources /\ destMix \in SUBSET Dests
    BY DEF TypeOK, Mixing
  <2>3. LeastMix(fedBy, callers, fed) = Mixing
    <3>1. LeastMix(fedBy, callers, fed) \subseteq Mixing
      BY <2>1, <2>2 DEF LeastMix
    <3>2. Mixing \subseteq LeastMix(fedBy, callers, fed)
      BY <2>2 DEF LeastMix, Necessary
    <3>. QED
      BY <3>1, <3>2
  <2>4. ASSUME NEW s \in Sources
        PROVE  sourceModes[s] = RouteOf(s, fedBy, callers, fed)
    <3>1. sourceModes[s] \in RouteModes
      BY DEF TypeOK
    <3>. QED
      BY <2>3, <3>1 DEF RouteOf, RouteModes, ModesOK, Mixing
  <2>5. MixingDests(fedBy, callers, fed) = {d \in Dests : NeedsMix(d, fedBy, callers, fed, Mixing)}
    BY <2>3 DEF MixingDests
  <2>6. MixingDests(fedBy, callers, fed) \subseteq destMix
    BY <2>1, <2>5 DEF IsClosed
  <2>7. IsClosed(Mixing, MixingDests(fedBy, callers, fed), fedBy, callers, fed)
    BY <2>1, <2>5 DEF IsClosed
  <2>8. destMix \subseteq MixingDests(fedBy, callers, fed)
    BY <2>2, <2>5, <2>7 DEF Necessary
  <2>. QED
    BY <2>4, <2>6, <2>8
<1>2. CascadeInv => RoutesAsRuled
  BY <1>1 DEF RoutesAsRuled
<1>. QED
  BY <1>2, CascadeInvariant, PTL
=============================================================================
