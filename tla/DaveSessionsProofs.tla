------------------------- MODULE DaveSessionsProofs -------------------------
(***************************************************************************)
(* That the mirror of a DAVE session stays on the conservative side of its *)
(* backend and that the reference count of a sender's series is the number *)
(* of sessions holding it, for any sessions, users and bounds.             *)
(***************************************************************************)
EXTENDS DaveSessions, FiniteSetTheorems, TLAPS

GatewaySteps == {"idle", "add", "remember", "keep", "forget", "retire", "remove"}

\* The shape of the state the two properties are about.
Shape ==
    /\ life \in [Sessions -> {"open", "closed"}]
    /\ backend \in [Sessions -> SUBSET Users]
    /\ known \in [Sessions -> SUBSET Users]
    /\ gw \in [Sessions -> [at : GatewaySteps, user : Senders]]
    /\ holders \in [Users -> Int]
    /\ retiring \subseteq Users

\* What a gateway goroutine in the middle of a call may rely on.
MidCall ==
    \A s \in Sessions :
        /\ ~At(s, "idle") => gw[s].user \in Users
        /\ At(s, "keep") => gw[s].user \in known[s]
        /\ At(s, "retire") \/ At(s, "remove") => gw[s].user \notin known[s]
        /\ At(s, "remember") /\ life[s] = "open" => gw[s].user \in backend[s]

MirrorInv == Shape /\ MidCall /\ KnownIsConservative

Holders(u) == {s \in Sessions : Holds(s, u)}

-----------------------------------------------------------------------------
\* The goroutine goes on with the user it has, or rests; the others stay.
LEMMA GoToEffect ==
    ASSUME NEW s \in Sessions, NEW step \in GatewaySteps,
           gw \in [Sessions -> [at : GatewaySteps, user : Senders]], GoTo(s, step)
    PROVE  /\ gw' \in [Sessions -> [at : GatewaySteps, user : Senders]]
           /\ gw'[s].at = step
           /\ step # "idle" => gw'[s].user = gw[s].user
           /\ \A t \in Sessions \ {s} : gw'[t] = gw[t]
  BY DEF GoTo, Idle, GatewaySteps, Senders

\* The steps that leave the mirror, the backend and the gateway goroutines alone.
Elsewhere ==
    \/ \E s \in Sessions :
          \/ Decrypt(s) \/ Tick(s)
          \/ \E u \in Senders : Receive(s, u)
          \/ \E to \in {"waiting", "ready", "failing"} : Turn(s, to)
    \/ Observe

\* Receiving, sending and exporting touch neither mirror nor counts.
LEMMA ElsewhereEffect ==
    ASSUME Elsewhere
    PROVE  UNCHANGED <<life, backend, known, gw, holders, retiring>>
  BY DEF Elsewhere, Decrypt, Delegate, PassOrDrop, Lookup, Count, OnlyRx, Tick,
         Receive, Turn, Observe, sessionVars, holdVars

-----------------------------------------------------------------------------
\* The mirror's invariant holds at first.
LEMMA MirrorInit == Init => MirrorInv
  BY DEF Init, MirrorInv, Shape, MidCall, KnownIsConservative, At, Idle,
         GatewaySteps, Senders

\* Every step of a session's gateway, of its closing and of the rest keeps it.
LEMMA MirrorStep == MirrorInv /\ [Next]_vars => MirrorInv'
<1> SUFFICES ASSUME MirrorInv, [Next]_vars PROVE MirrorInv'
  OBVIOUS
<1> USE DEF MirrorInv, Shape, MidCall, KnownIsConservative, At
<1>1. CASE UNCHANGED vars
  BY <1>1 DEF vars, sessionVars, holdVars
<1>2. CASE Elsewhere
  BY <1>2, ElsewhereEffect
<1>3. CASE EvictRetired
  BY <1>3 DEF EvictRetired, sessionVars
<1>4. ASSUME NEW s \in Sessions, SessionCloses(s) PROVE MirrorInv'
  BY <1>4 DEF SessionCloses, holdVars
<1>5. ASSUME NEW s \in Sessions, NEW u \in Users, NEW call \in {"AddUser", "RemoveUser"},
             GatewayCalls(s, u, call)
      PROVE  MirrorInv'
  BY <1>5 DEF GatewayCalls, Then, holdVars, GatewaySteps, Senders
<1>6. ASSUME NEW s \in Sessions, BackendAdds(s) PROVE MirrorInv'
  <2>1. GoTo(s, "remember") /\ At(s, "add")
    BY <1>6 DEF BackendAdds, Then
  <2> QED
    BY <1>6, <2>1, GoToEffect DEF BackendAdds, GatewaySteps, holdVars
<1>7. ASSUME NEW s \in Sessions, Remember(s) PROVE MirrorInv'
  <2>1. PICK step \in {"keep", "idle"} : GoTo(s, step) /\ At(s, "remember")
    BY <1>7 DEF Remember, Then
  <2> QED
    BY <1>7, <2>1, GoToEffect DEF Remember, GatewaySteps, holdVars
<1>8. ASSUME NEW s \in Sessions, Keep(s) PROVE MirrorInv'
  <2>1. GoTo(s, "idle") /\ At(s, "keep")
    BY <1>8 DEF Keep, Then
  <2> QED
    BY <1>8, <2>1, GoToEffect DEF Keep, GatewaySteps
<1>9. ASSUME NEW s \in Sessions, Forget(s) PROVE MirrorInv'
  <2>1. PICK step \in {"retire", "remove"} : GoTo(s, step) /\ At(s, "forget")
    BY <1>9 DEF Forget, Then
  <2> QED
    BY <1>9, <2>1, GoToEffect DEF Forget, GatewaySteps, holdVars
<1>10. ASSUME NEW s \in Sessions, Retire(s) PROVE MirrorInv'
  <2>1. GoTo(s, "remove") /\ At(s, "retire")
    BY <1>10 DEF Retire, Then
  <2> QED
    BY <1>10, <2>1, GoToEffect DEF Retire, Released, GatewaySteps
<1>11. ASSUME NEW s \in Sessions, BackendRemoves(s) PROVE MirrorInv'
  <2>1. GoTo(s, "idle") /\ At(s, "remove")
    BY <1>11 DEF BackendRemoves, Then
  <2> QED
    BY <1>11, <2>1, GoToEffect DEF BackendRemoves, GatewaySteps, holdVars
<1> QED
  BY <1>1, <1>2, <1>3, <1>4, <1>5, <1>6, <1>7, <1>8, <1>9, <1>10, <1>11
  DEF Next, Gateway, Elsewhere

\* The mirror names only users the backend has a decryptor for, at every point of
\* AddUser and RemoveUser, in any number of sessions.
THEOREM MirrorIsConservative == Spec => []KnownIsConservative
<1>1. MirrorInv => KnownIsConservative
  BY DEF MirrorInv
<1> QED
  BY <1>1, MirrorInit, MirrorStep, PTL DEF Spec

-----------------------------------------------------------------------------
\* The count's invariant: HoldersCount with the mirror's.
CountInv == MirrorInv /\ HoldersCount

\* What becomes of the holders of one user decides what the counts may do.
LEMMA SameHolders ==
    ASSUME MirrorInv, HoldersCount, holders' = holders, retiring' = retiring,
           \A t \in Sessions, u \in Users : Holds(t, u)' <=> Holds(t, u)
    PROVE  HoldersCount'
<1> SUFFICES ASSUME NEW u \in Users
             PROVE  Holders(u)' = Holders(u)
  BY DEF HoldersCount, Holders
<1> QED
  BY DEF Holders

\* A set of sessions is finite, so it grows and shrinks by one.
LEMMA OneHolder ==
    ASSUME NEW S \in SUBSET Sessions, NEW s \in Sessions
    PROVE  /\ Cardinality(S) \in Nat
           /\ s \notin S => Cardinality(S \cup {s}) = Cardinality(S) + 1
           /\ s \in S => Cardinality(S \ {s}) = Cardinality(S) - 1
<1>1. IsFiniteSet(S)
  BY DaveConstants, FS_Subset DEF DaveConstants
<1> QED
  BY <1>1, FS_CardinalityType, FS_AddElement, FS_RemoveElement

\* Keep is the step by which a session becomes a holder.
LEMMA KeepCounts ==
    ASSUME MirrorInv, HoldersCount, NEW s \in Sessions, Keep(s)
    PROVE  HoldersCount'
<1> USE DEF MirrorInv, Shape, MidCall, At
<1>0. PICK w \in Users : w = gw[s].user
  BY DEF Keep
<1>1. GoTo(s, "idle") /\ At(s, "keep") /\ w \in known[s]
  BY <1>0 DEF Keep, Then
<1>2. /\ \A t \in Sessions \ {s} : gw'[t] = gw[t]
      /\ gw'[s].at = "idle"
  BY <1>1, GoToEffect DEF GatewaySteps
<1>3. known' = known
  BY DEF Keep
<1>4. ASSUME NEW u \in Users PROVE Holders(u)' = IF u = w THEN Holders(u) \cup {s} ELSE Holders(u)
  BY <1>0, <1>1, <1>2, <1>3 DEF Holders, Holds
<1>5. s \notin Holders(w) /\ Holders(w) \subseteq Sessions
  BY <1>0, <1>1 DEF Holders, Holds
<1>6. Cardinality(Holders(w)') = Cardinality(Holders(w)) + 1
  BY <1>1, <1>4, <1>5, OneHolder
<1>7. /\ holders' = [holders EXCEPT ![w] = @ + 1]
      /\ retiring' = retiring \ {w}
  BY <1>0 DEF Keep
<1>8. ASSUME NEW u \in Users
      PROVE  /\ holders'[u] = Cardinality(Holders(u)')
             /\ u \in retiring' => holders'[u] = 0
  <2>0. holders[u] = Cardinality(Holders(u)) /\ (u \in retiring => holders[u] = 0)
    BY DEF HoldersCount, Holders
  <2>1. CASE u = w
    BY <2>0, <2>1, <1>6, <1>7, <1>1
  <2>2. CASE u # w
    BY <2>0, <2>2, <1>4, <1>7, <1>1
  <2> QED
    BY <2>1, <2>2
<1> QED
  BY <1>8 DEF HoldersCount, Holders

\* Retire is the step by which it ceases to be one.
LEMMA RetireCounts ==
    ASSUME MirrorInv, HoldersCount, NEW s \in Sessions, Retire(s)
    PROVE  HoldersCount'
<1> USE DEF MirrorInv, Shape, MidCall, At
<1>0. PICK w \in Users : w = gw[s].user
  BY DEF Retire
<1>1. GoTo(s, "remove") /\ At(s, "retire") /\ w \notin known[s]
  BY <1>0 DEF Retire, Then
<1>2. /\ \A t \in Sessions \ {s} : gw'[t] = gw[t]
      /\ gw'[s].at = "remove"
  BY <1>1, GoToEffect DEF GatewaySteps
<1>3. known' = known
  BY DEF Retire
<1>4. ASSUME NEW u \in Users PROVE Holders(u)' = IF u = w THEN Holders(u) \ {s} ELSE Holders(u)
  BY <1>0, <1>1, <1>2, <1>3 DEF Holders, Holds
<1>5. s \in Holders(w) /\ Holders(w) \subseteq Sessions
  BY <1>0, <1>1 DEF Holders, Holds
<1>6. /\ Cardinality(Holders(w)') = Cardinality(Holders(w)) - 1
      /\ Cardinality(Holders(w)') \in Nat
  <2>1. Holders(w) \ {s} \subseteq Sessions
    BY <1>5
  <2> QED
    BY <1>1, <1>4, <1>5, <2>1, OneHolder
<1>7. /\ holders' = [holders EXCEPT ![w] = @ - 1]
      /\ retiring' = IF holders[w] - 1 > 0 THEN retiring ELSE retiring \cup {w}
  BY <1>0 DEF Retire, Released
<1>8. ASSUME NEW u \in Users
      PROVE  /\ holders'[u] = Cardinality(Holders(u)')
             /\ u \in retiring' => holders'[u] = 0
  <2>0. holders[u] = Cardinality(Holders(u)) /\ (u \in retiring => holders[u] = 0)
    BY DEF HoldersCount, Holders
  <2>1. CASE u = w
    BY <2>0, <2>1, <1>6, <1>7, <1>1
  <2>2. CASE u # w
    BY <2>0, <2>2, <1>4, <1>7, <1>1
  <2> QED
    BY <2>1, <2>2
<1> QED
  BY <1>8 DEF HoldersCount, Holders

\* No one holds anyone at first.
LEMMA CountInit == Init => CountInv
<1> SUFFICES ASSUME Init PROVE CountInv
  OBVIOUS
<1>1. \A u \in Users : Holders(u) = {}
  BY DEF Init, Holders, Holds, At, Idle
<1>2. HoldersCount
  BY <1>1, FS_EmptySet DEF HoldersCount, Holders, Init
<1> QED
  BY <1>2, MirrorInit DEF CountInv

\* Only Keep and Retire change who holds whom, each with its count.
LEMMA CountStep == CountInv /\ [Next]_vars => CountInv'
<1> SUFFICES ASSUME MirrorInv, HoldersCount, [Next]_vars PROVE HoldersCount'
  BY MirrorStep DEF CountInv
<1> DEFINE Same == \A t \in Sessions, u \in Users : Holds(t, u)' <=> Holds(t, u)
<1> DEFINE SameCounts == holders' = holders /\ retiring' = retiring
<1> USE DEF MirrorInv, Shape, MidCall, At
<1>1. CASE UNCHANGED vars
  <2>1. Same /\ SameCounts
    BY <1>1 DEF vars, sessionVars, holdVars, Holds
  <2> QED
    BY <2>1, SameHolders
<1>2. CASE Elsewhere
  <2>1. Same /\ SameCounts
    BY <1>2, ElsewhereEffect DEF Holds
  <2> QED
    BY <2>1, SameHolders
<1>3. CASE EvictRetired
  <2>1. holders' = holders /\ retiring' = {} /\ known' = known /\ gw' = gw
    BY <1>3 DEF EvictRetired, sessionVars
  <2>2. \A u \in Users : Holders(u)' = Holders(u)
    BY <2>1 DEF Holders, Holds
  <2> QED
    BY <2>1, <2>2 DEF HoldersCount, Holders
<1>4. ASSUME NEW s \in Sessions, SessionCloses(s) PROVE HoldersCount'
  <2>1. Same /\ SameCounts
    BY <1>4 DEF SessionCloses, holdVars, Holds
  <2> QED
    BY <2>1, SameHolders
<1>5. ASSUME NEW s \in Sessions, NEW u \in Users, NEW call \in {"AddUser", "RemoveUser"},
             GatewayCalls(s, u, call)
      PROVE  HoldersCount'
  <2>1. Same /\ SameCounts
    BY <1>5 DEF GatewayCalls, Then, holdVars, Holds
  <2> QED
    BY <2>1, SameHolders
<1>6. ASSUME NEW s \in Sessions, BackendAdds(s) PROVE HoldersCount'
  <2>1. GoTo(s, "remember") /\ At(s, "add")
    BY <1>6 DEF BackendAdds, Then
  <2>2. Same /\ SameCounts
    BY <1>6, <2>1, GoToEffect DEF BackendAdds, GatewaySteps, holdVars, Holds
  <2> QED
    BY <2>2, SameHolders
<1>7. ASSUME NEW s \in Sessions, Remember(s) PROVE HoldersCount'
  <2>1. At(s, "remember") /\ IF gw[s].user \in known[s] THEN GoTo(s, "idle") ELSE GoTo(s, "keep")
    BY <1>7 DEF Remember, Then, TakesHold
  <2>2. /\ known' = [known EXCEPT ![s] = @ \cup {gw[s].user}]
        /\ SameCounts
    BY <1>7 DEF Remember, holdVars
  <2>3. Same
    BY <2>1, <2>2, GoToEffect DEF GatewaySteps, Holds
  <2> QED
    BY <2>2, <2>3, SameHolders
<1>8. ASSUME NEW s \in Sessions, Forget(s) PROVE HoldersCount'
  <2>1. At(s, "forget") /\ IF gw[s].user \in known[s] THEN GoTo(s, "retire") ELSE GoTo(s, "remove")
    BY <1>8 DEF Forget, Then, DropsHold
  <2>2. /\ known' = [known EXCEPT ![s] = @ \ {gw[s].user}]
        /\ SameCounts
    BY <1>8 DEF Forget, holdVars
  <2>3. Same
    BY <2>1, <2>2, GoToEffect DEF GatewaySteps, Holds
  <2> QED
    BY <2>2, <2>3, SameHolders
<1>9. ASSUME NEW s \in Sessions, BackendRemoves(s) PROVE HoldersCount'
  <2>1. GoTo(s, "idle") /\ At(s, "remove")
    BY <1>9 DEF BackendRemoves, Then
  <2>2. Same /\ SameCounts
    BY <1>9, <2>1, GoToEffect DEF BackendRemoves, GatewaySteps, holdVars, Holds
  <2> QED
    BY <2>2, SameHolders
<1> QED
  BY <1>1, <1>2, <1>3, <1>4, <1>5, <1>6, <1>7, <1>8, <1>9, KeepCounts, RetireCounts
  DEF Next, Gateway, Elsewhere

\* The reference count of a sender's series is the number of sessions that hold
\* it, and a series of a held sender is never about to be evicted, for any number
\* of sessions whose goroutines add, remove, decrypt and close at any time.
THEOREM HoldersAreCounted == Spec => []HoldersCount
<1>1. CountInv => HoldersCount
  BY DEF CountInv
<1> QED
  BY <1>1, CountInit, CountStep, PTL DEF Spec
-----------------------------------------------------------------------------
\* The rest of the type invariant: frames in hand, the sender, the collector.
OtherTypes ==
    /\ env \in Environments
    /\ crypt \in [Sessions -> {"waiting", "ready", "failing"}]
    /\ rx \in [Sessions -> [at : {"idle", "known", "unknown", "count", "add"},
                            user : Senders, outcome : Outcomes, lost : BOOLEAN]]
    /\ fails \in [Sessions -> 0..(StallFrames - 1)]
    /\ reported \in [Sessions -> BOOLEAN]
    /\ DOMAIN counters \subseteq Keys
    /\ \A k \in DOMAIN counters : counters[k] \in Nat
    /\ DOMAIN retired = Outcomes
    /\ collector \in {"rest", "evict"}
    /\ moves \in 0..env.moves /\ frames \in 0..env.frames /\ turns \in 0..env.turns

AgreeInv == CountInv /\ OtherTypes

\* With the invariants of mirror and counts this is the whole agreement: a count
\* of sessions is a natural number.
LEMMA AgreeInvSuffices == AgreeInv => SessionsAgree
<1> SUFFICES ASSUME AgreeInv PROVE SessionsAgree
  OBVIOUS
<1> USE DEF AgreeInv, CountInv, MirrorInv, Shape
<1>1. ASSUME NEW u \in Users PROVE holders[u] \in Nat
  <2>1. Holders(u) \subseteq Sessions /\ holders[u] = Cardinality(Holders(u))
    BY DEF HoldersCount, Holders
  <2> QED
    BY <2>1, FS_Subset, FS_CardinalityType, DaveConstants DEF DaveConstants
<1>2. TypeOK
  BY <1>1 DEF TypeOK, OtherTypes, GatewaySteps
<1> QED
  BY <1>2 DEF SessionsAgree

\* The bounds of an environment are numbers.
LEMMA BoundsAreNumbers ==
    ASSUME env \in Environments
    PROVE  env.moves \in Nat /\ env.frames \in Nat /\ env.turns \in Nat
  BY DaveConstants DEF DaveConstants

\* The agreement holds at first.
LEMMA AgreeInit == Init => AgreeInv
<1> SUFFICES ASSUME Init PROVE OtherTypes
  BY CountInit DEF AgreeInv
<1>1. StallFrames \in Nat \ {0}
  BY DaveConstants DEF DaveConstants
<1> QED
  BY <1>1, BoundsAreNumbers DEF Init, OtherTypes, NoFrame, Zero, Senders, Outcomes

\* A gateway's call is one of the bounded moves, and nothing else of these changes.
LEMMA GatewayOther ==
    ASSUME OtherTypes, NEW s \in Sessions,
           \/ Gateway(s) \/ SessionCloses(s)
           \/ \E u \in Users, call \in {"AddUser", "RemoveUser"} : GatewayCalls(s, u, call)
    PROVE  OtherTypes'
<1>1. UNCHANGED <<env, sendVars, rx, countVars, frames>>
  BY DEF Gateway, SessionCloses, GatewayCalls, BackendAdds, Remember, Keep, Forget,
         Retire, BackendRemoves
<1>2. moves' = moves \/ (moves' = moves + 1 /\ moves < env.moves)
  BY DEF Gateway, SessionCloses, GatewayCalls, BackendAdds, Remember, Keep, Forget,
         Retire, BackendRemoves
<1> QED
  BY <1>1, <1>2, BoundsAreNumbers DEF OtherTypes, sendVars, countVars

FramesInHand ==
    [at : {"idle", "known", "unknown", "count", "add"},
     user : Senders, outcome : Outcomes, lost : BOOLEAN]

\* One goroutine takes another frame in hand, or the same one further on.
LEMMA InFrameTyped ==
    ASSUME rx \in [Sessions -> FramesInHand], NEW s \in Sessions,
           NEW to \in FramesInHand, InFrame(s, to)
    PROVE  rx' \in [Sessions -> FramesInHand]
  BY DEF InFrame

LEMMA FrameSteps ==
    /\ \A f \in FramesInHand, o \in Outcomes :
          [f EXCEPT !.at = "count", !.outcome = o] \in FramesInHand
    /\ \A f \in FramesInHand : [f EXCEPT !.at = "add"] \in FramesInHand
    /\ \A u \in Senders, at \in {"known", "unknown"} :
          [NoFrame EXCEPT !.at = at, !.user = u] \in FramesInHand
    /\ NoFrame \in FramesInHand
<1> USE DEF FramesInHand
<1>1. ASSUME NEW f \in FramesInHand, NEW o \in Outcomes
      PROVE  [f EXCEPT !.at = "count", !.outcome = o] \in FramesInHand
  OBVIOUS
<1>2. ASSUME NEW f \in FramesInHand PROVE [f EXCEPT !.at = "add"] \in FramesInHand
  OBVIOUS
<1>3. NoFrame \in FramesInHand
  BY DEF NoFrame, Senders, Outcomes
<1>4. ASSUME NEW u \in Senders, NEW at \in {"known", "unknown"}
      PROVE  [NoFrame EXCEPT !.at = at, !.user = u] \in FramesInHand
  BY <1>3
<1> QED
  BY <1>1, <1>2, <1>3, <1>4

\* A frame goes from hand to count; the counters only get new zeros and ones more.
LEMMA DecryptOther ==
    ASSUME OtherTypes, NEW s \in Sessions,
           Decrypt(s) \/ \E u \in Senders : Receive(s, u)
    PROVE  OtherTypes'
<1> DEFINE Typed == rx' \in [Sessions -> FramesInHand]
<1>0. rx \in [Sessions -> FramesInHand]
  BY DEF OtherTypes, FramesInHand
<1>a. ASSUME Typed, UNCHANGED <<env, sendVars, countVars, moves>>,
             frames' \in 0..env.frames
      PROVE  OtherTypes'
  BY <1>a DEF OtherTypes, FramesInHand, sendVars, countVars
<1>b. ASSUME Typed, UNCHANGED <<env, sendVars, retired, collector, moves, frames>>,
             DOMAIN counters' \subseteq Keys,
             \A k \in DOMAIN counters' : counters'[k] \in Nat
      PROVE  OtherTypes'
  BY <1>b DEF OtherTypes, FramesInHand, sendVars
<1>1. ASSUME NEW u \in Senders, Receive(s, u) PROVE OtherTypes'
  <2>1. PICK at \in {"known", "unknown"} :
            InFrame(s, [NoFrame EXCEPT !.at = at, !.user = u])
    BY <1>1 DEF Receive
  <2>2. Typed
    BY <2>1, <1>0, FrameSteps, InFrameTyped
  <2>3. frames' \in 0..env.frames
    <3>1. /\ frames \in 0..env.frames /\ env.frames \in Nat
          /\ frames < env.frames /\ frames' = frames + 1 /\ env' = env
      BY <1>1, BoundsAreNumbers DEF Receive, OtherTypes, OnlyRx
    <3> QED
      BY <3>1
  <2> QED
    BY <1>1, <2>2, <2>3, <1>a DEF Receive, OnlyRx
<1>2. CASE Delegate(s) \/ PassOrDrop(s)
  <2>1. PICK o \in Outcomes : Concluded(s, o)
    BY <1>2 DEF Delegate, PassOrDrop, Outcomes
  <2>2. Typed
    BY <2>1, <1>0, FrameSteps, InFrameTyped DEF Concluded
  <2>3. UNCHANGED <<env, sendVars, countVars, moves, frames>>
    BY <1>2 DEF Delegate, PassOrDrop, OnlyRx
  <2> QED
    BY <2>2, <2>3, <1>a DEF OtherTypes
<1>3. CASE Lookup(s)
  <2>1. KeyOf(s) \in Keys
    BY <1>0 DEF KeyOf, Keys, FramesInHand
  <2>2. /\ DOMAIN counters' \subseteq Keys
        /\ \A k \in DOMAIN counters' : counters'[k] \in Nat
    BY <1>3, <2>1 DEF Lookup, OtherTypes
  <2>3. Typed
    BY <1>3, <1>0, FrameSteps, InFrameTyped DEF Lookup
  <2> QED
    BY <1>3, <2>2, <2>3, <1>b DEF Lookup, OnlyRx
<1>4. CASE Count(s)
  <2>1. /\ DOMAIN counters' \subseteq Keys
        /\ \A k \in DOMAIN counters' : counters'[k] \in Nat
    BY <1>4 DEF Count, OtherTypes
  <2>2. Typed
    BY <1>4, <1>0, FrameSteps, InFrameTyped DEF Count
  <2> QED
    BY <1>4, <2>1, <2>2, <1>b DEF Count, OnlyRx
<1> QED
  BY <1>1, <1>2, <1>3, <1>4 DEF Decrypt

\* The number of failures in a row is kept modulo the stall's length.
LEMMA TickOther ==
    ASSUME OtherTypes, NEW s \in Sessions, Tick(s)
    PROVE  OtherTypes'
<1>1. StallFrames \in Nat \ {0}
  BY DaveConstants DEF DaveConstants
<1>2. fails[s] \in 0..(StallFrames - 1)
  BY DEF OtherTypes
<1>3. (fails[s] + 1) % StallFrames \in 0..(StallFrames - 1)
  BY <1>1, <1>2
<1>4. UNCHANGED <<env, crypt, turns, rx, countVars, moves, frames>>
  BY DEF Tick
<1>5. /\ fails' \in [Sessions -> 0..(StallFrames - 1)]
      /\ reported' \in [Sessions -> BOOLEAN]
  <2>1. CountsAsFailure(s) \in BOOLEAN /\ ((fails[s] + 1) % StallFrames = 0) \in BOOLEAN
    BY DEF CountsAsFailure
  <2> QED
    BY <1>1, <1>3, <2>1 DEF Tick, OtherTypes
<1> QED
  BY <1>4, <1>5 DEF OtherTypes, countVars

\* The collector takes counters away and marks the frames that held them.
LEMMA CollectorOther ==
    ASSUME OtherTypes, Observe \/ EvictRetired
    PROVE  OtherTypes'
<1> USE DEF OtherTypes, sendVars
<1>1. CASE Observe
  BY <1>1 DEF Observe
<1>2. CASE EvictRetired
  <2>1. rx' \in [Sessions -> FramesInHand]
    <3>1. \A f \in FramesInHand : [f EXCEPT !.lost = TRUE] \in FramesInHand
      BY DEF FramesInHand
    <3>2. rx \in [Sessions -> FramesInHand]
      BY DEF FramesInHand
    <3>3. rx' = [s \in Sessions |-> IF rx[s].at = "add" /\ rx[s].user \in retiring
                                   THEN [rx[s] EXCEPT !.lost = TRUE] ELSE rx[s]]
      BY <1>2 DEF EvictRetired
    <3> HIDE DEF OtherTypes
    <3> QED
      BY <3>1, <3>2, <3>3
  <2>2. DOMAIN retired' = Outcomes
    BY <1>2 DEF EvictRetired
  <2>3. /\ DOMAIN counters' \subseteq Keys
        /\ \A k \in DOMAIN counters' : counters'[k] \in Nat
    BY <1>2 DEF EvictRetired
  <2> QED
    BY <1>2, <2>1, <2>2, <2>3 DEF EvictRetired, FramesInHand
<1> QED
  BY <1>1, <1>2

\* Every step keeps the agreement.
LEMMA AgreeStep == AgreeInv /\ [Next]_vars => AgreeInv'
<1> SUFFICES ASSUME OtherTypes, [Next]_vars PROVE OtherTypes'
  BY CountStep DEF AgreeInv
<1>1. CASE UNCHANGED vars
  BY <1>1 DEF vars, OtherTypes, sessionVars, sendVars, holdVars, countVars
<1>2. ASSUME NEW s \in Sessions, NEW to \in {"waiting", "ready", "failing"}, Turn(s, to)
      PROVE  OtherTypes'
  BY <1>2, BoundsAreNumbers DEF Turn, OtherTypes, countVars
<1> QED
  BY <1>1, <1>2, GatewayOther, DecryptOther, TickOther, CollectorOther DEF Next

\* Mirrors, backends, counts and types agree in every reachable state, for any
\* sessions, users, stall length and environments.
THEOREM SessionsAlwaysAgree == Spec => []SessionsAgree
  BY AgreeInit, AgreeStep, AgreeInvSuffices, PTL DEF Spec

=============================================================================
