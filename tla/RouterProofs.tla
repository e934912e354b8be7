---------------------------- MODULE RouterProofs ----------------------------
(***************************************************************************)
(* That the router, whatever its recomputations, timers, watchers and      *)
(* closing do at the same time, keeps the inputs of its mixers to what it  *)
(* has installed, lets no raw writer share an output, and has converged    *)
(* when it is at rest.  For any sets of channels, users and runs.          *)
(***************************************************************************)
EXTENDS Router, FiniteSetTheorems, TLAPS

\* The run in applyModes holds the lock, and only it.
LockInv ==
    /\ mu # Nobody => pc[mu] = "install"
    /\ \A r \in Runs : pc[r] = "install" => mu = r

\* What a source has in the mixers is what activeTeardown removes and what is
\* published for it.
SlotInv ==
    \A s \in Sources :
        /\ bound[s] = published[s].users /\ held[s] = bound[s]
        /\ published[s].mode \in {"off", activeMode[s]}
        /\ ~closed => published[s] = [mode |-> activeMode[s], users |-> activeUsers[s]]

\* The sources a run has taken in turn have the mode it computed for them.
InstallInv ==
    \A r \in Runs : pc[r] = "install" =>
        /\ left[r] \subseteq Sources
        /\ wanted = ShouldRun(r)
        /\ \A s \in Sources \ left[r] : activeMode[s] = ModeFor(r, s)
        /\ env.watched = {} => Dests \ wanted \subseteq paused

\* The outputs of a source in copy mode are not mixed into.
WritersInv ==
    \A d \in Dests : \A s \in FedBy[d] : activeMode[s] = "copy" =>
        /\ env.watched = {} => d \in paused
        /\ mu = Nobody => \A t \in FedBy[d] \ {s} : activeMode[t] = "off"

SafeInv == TypeOK /\ LockInv /\ SlotInv /\ InstallInv /\ WritersInv /\ ParkedOnlyByWatcher

-----------------------------------------------------------------------------
\* Something will still recompute.
Pending == events # {} \/ armed # {} \/ \E r \in Runs : pc[r] = "begin"

\* A run has probed nothing twice.
ProbesOf(r) ==
    /\ pc[r] \in {"unborn", "begin"} => snap[r] = NoSnapshot
    /\ pc[r] = "callers" => snap[r].listening = {} /\ snap[r].fed = {}
    /\ pc[r] = "listeners" => snap[r].listening \cap left[r] = {} /\ snap[r].fed = {}
    /\ pc[r] = "relay" => snap[r].fed \cap left[r] = {}

ProbeInv == \A r \in Runs : ProbesOf(r)

\* Where runs do not overlap there is one at a time.
OneRun ==
    ~env.overlap => \A q, r \in Runs : UnderWay(q) /\ UnderWay(r) => q = r

\* What a run has probed is still so.
CallersSeen(r, S) == \A s \in S : snap[r].users[s] = EnumerateCallers(s)
ListenersSeen(r, D) == \A d \in D : d \in snap[r].listening <=> HasListeners(d)
RelaySeen(r, D) == \A d \in D : d \in snap[r].fed <=> peers

SeenInv(r) ==
    /\ pc[r] = "callers" => CallersSeen(r, Sources \ left[r])
    /\ pc[r] \in {"listeners", "relay", "pause", "install", "notify"} => CallersSeen(r, Sources)
    /\ pc[r] = "listeners" => ListenersSeen(r, Played \ left[r])
    /\ pc[r] \in {"relay", "pause", "install", "notify"} => ListenersSeen(r, Played)
    /\ pc[r] = "relay" => RelaySeen(r, Played \ left[r])
    /\ pc[r] \in {"pause", "install", "notify"} => RelaySeen(r, Played)

\* The routes of the caches as they are.
CurrentMode(s) == RouteOf(s, FedBy, CurrentCounts, CurrentFed)
Routed(s) ==
    /\ activeMode[s] = CurrentMode(s)
    /\ CurrentMode(s) = "mix" => activeUsers[s] = EnumerateCallers(s)
CurrentDests ==
    {d \in MixingDests(FedBy, CurrentCounts, CurrentFed) : d = RelayDest \/ HasListeners(d)}

\* What a run has applied so far is right, and so is what the last one applied.
AppliedInv(r) ==
    /\ pc[r] = "install" => wanted = CurrentDests /\ \A s \in Sources \ left[r] : Routed(s)
    /\ pc[r] \in {"notify", "schedule"} => wanted = CurrentDests /\ \A s \in Sources : Routed(s)
    /\ pc[r] = "schedule" => \A s \in Sources : s \in capturing <=> CurrentMode(s) # "off"

RestInv ==
    (\A r \in Runs : ~UnderWay(r)) =>
        /\ wanted = CurrentDests
        /\ \A s \in Sources : Routed(s) /\ (s \in capturing <=> CurrentMode(s) # "off")

ConvergingInv ==
    ~env.overlap /\ ~closed /\ ~Pending =>
        /\ \A r \in Runs : SeenInv(r) /\ AppliedInv(r)
        /\ RestInv

RouterInv == SafeInv /\ ProbeInv /\ OneRun /\ ConvergingInv

-----------------------------------------------------------------------------
(***************************************************************************)
(* The rule for routes keeps a raw writer alone.                           *)
(***************************************************************************)

\* The least mixing sources are enough together with the destinations they need.
LEMMA LeastIsClosed ==
  ASSUME NEW fedBy, NEW callers, NEW fed
  PROVE  /\ \A s \in Sources : callers[s] >= 2 => s \in LeastMix(fedBy, callers, fed)
         /\ \A d \in MixingDests(fedBy, callers, fed) :
               fedBy[d] \cap Live(callers) \subseteq LeastMix(fedBy, callers, fed)
<1> DEFINE L == LeastMix(fedBy, callers, fed)
<1>1. ASSUME NEW M \in SUBSET Sources, NEW X \in SUBSET Dests,
             IsClosed(M, X, fedBy, callers, fed)
      PROVE  L \subseteq M
  BY <1>1 DEF LeastMix
<1>2. ASSUME NEW s \in Sources, callers[s] >= 2 PROVE s \in L
  BY <1>2 DEF LeastMix, IsClosed
<1>3. ASSUME NEW d \in MixingDests(fedBy, callers, fed), NEW s \in fedBy[d] \cap Live(callers)
      PROVE  s \in L
  <2>1. d \in Dests /\ NeedsMix(d, fedBy, callers, fed, L)
    BY DEF MixingDests
  <2>2. ASSUME NEW M \in SUBSET Sources, NEW X \in SUBSET Dests,
               IsClosed(M, X, fedBy, callers, fed)
        PROVE  s \in M
    <3>1. NeedsMix(d, fedBy, callers, fed, M)
      BY <1>1, <2>1, <2>2 DEF NeedsMix
    <3> QED
      BY <2>1, <2>2, <3>1 DEF IsClosed
  <2>3. s \in Sources
    BY DEF Live
  <2> QED
    BY <2>2, <2>3 DEF LeastMix
<1> QED
  BY <1>2, <1>3

\* A source in copy mode feeds no destination that mixes, and no other source
\* that feeds one of its destinations is live (the rule of computeRoutes).
LEMMA CopyIsAlone ==
  ASSUME NEW fedBy, NEW callers \in [Sources -> Nat], NEW fed,
         NEW d \in Dests, fedBy[d] \subseteq Sources,
         NEW s \in fedBy[d], RouteOf(s, fedBy, callers, fed) = "copy"
  PROVE  /\ d \notin MixingDests(fedBy, callers, fed)
         /\ \A t \in fedBy[d] \ {s} : RouteOf(t, fedBy, callers, fed) = "off"
<1>1. callers[s] > 0 /\ s \notin LeastMix(fedBy, callers, fed)
  BY DEF RouteOf
<1>2. s \in Live(callers)
  BY <1>1 DEF Live
<1>3. d \notin MixingDests(fedBy, callers, fed)
  BY <1>1, <1>2, LeastIsClosed
<1>4. ~ \E u, t \in fedBy[d] \cap Live(callers) : u # t
  BY <1>3 DEF MixingDests, NeedsMix
<1>5. \A t \in fedBy[d] \ {s} : callers[t] = 0
  BY <1>2, <1>4 DEF Live
<1> QED
  BY <1>3, <1>5 DEF RouteOf

\* A route is a mode.
LEMMA RouteOfType ==
  ASSUME NEW s, NEW fedBy, NEW callers, NEW fed
  PROVE  RouteOf(s, fedBy, callers, fed) \in RouteModes
BY DEF RouteOf, RouteModes

\* A run's counts are numbers.
LEMMA CountsType ==
  ASSUME TypeOK, NEW r \in Runs
  PROVE  Counts(r) \in [Sources -> Nat]
<1>1. ASSUME NEW s \in Sources PROVE Cardinality(snap[r].users[s]) \in Nat
  <2>1. snap[r].users[s] \subseteq Humans
    BY DEF TypeOK, Snapshots
  <2> QED
    BY <2>1, RouterConstants, FS_Subset, FS_CardinalityType
<1> QED
  BY <1>1 DEF Counts

-----------------------------------------------------------------------------
(***************************************************************************)
(* Types.                                                                  *)
(***************************************************************************)

\* One thing of a run's done: either it goes on to the next step or it has less left.
LEMMA AdvanceEffect ==
  ASSUME TypeOK, NEW r \in Runs, NEW x \in left[r], NEW step \in Steps, NEW S \in SUBSET Channels,
         Advance(r, x, step, S)
  PROVE  /\ pc' \in [Runs -> Steps] /\ left' \in [Runs -> SUBSET Channels]
         /\ \A q \in Runs \ {r} : pc'[q] = pc[q] /\ left'[q] = left[q]
         /\ \/ left[r] = {x} /\ pc'[r] = step /\ left'[r] = S
            \/ left[r] # {x} /\ pc'[r] = pc[r] /\ left'[r] = left[r] \ {x}
<1>1. CASE left[r] \ {x} = {}
  BY <1>1 DEF Advance, Enter, TypeOK
<1>2. CASE left[r] \ {x} # {}
  BY <1>2 DEF Advance, Enter, TypeOK
<1> QED
  BY <1>1, <1>2

LEMMA TypeInit == Init => TypeOK
<1> SUFFICES ASSUME Init PROVE TypeOK
  OBVIOUS
<1>1. WatcherTypeOK
  BY DEF Init, WatcherInit, WatcherTypeOK
<1>2. NoSnapshot \in Snapshots
  BY DEF Snapshots, NoSnapshot
<1>3. Nothing \in [mode : RouteModes, users : SUBSET Humans] /\ "off" \in RouteModes
  BY DEF Nothing, RouteModes
<1>4. pc \in [Runs -> Steps] /\ changes \in 0..MaxChanges
  BY RouterConstants DEF Init, Steps
<1> QED
  BY <1>1, <1>2, <1>3, <1>4, RouterConstants DEF Init, TypeOK

\* The probes fill a run's snapshot.
LEMMA ProbeTypes ==
  ASSUME TypeOK, NEW r \in Runs,
         \/ \E s \in Sources : ProbeCallers(r, s)
         \/ \E d \in Played : ProbeListeners(r, d) \/ ProbeRelay(r, d)
  PROVE  TypeOK'
<1>1. pc' \in [Runs -> Steps] /\ left' \in [Runs -> SUBSET Channels]
  BY AdvanceEffect DEF ProbeCallers, ProbeListeners, ProbeRelay, Steps, Channels
<1>2. snap' \in [Runs -> Snapshots]
  <2>1. CASE \E s \in Sources : ProbeCallers(r, s)
    <3>1. PICK s \in Sources : snap' = [snap EXCEPT ![r].users[s] = EnumerateCallers(s)]
      BY <2>1 DEF ProbeCallers
    <3> DEFINE n == [snap[r] EXCEPT !.users[s] = EnumerateCallers(s)]
    <3>2. EnumerateCallers(s) \subseteq Humans
      BY DEF EnumerateCallers, TypeOK
    <3>3. n \in Snapshots
      BY ZenonT(40), <3>2 DEF TypeOK, Snapshots
    <3>4. snap' = [snap EXCEPT ![r] = n]
      BY <3>1 DEF TypeOK, Snapshots
    <3> QED
      BY <3>3, <3>4 DEF TypeOK
  <2>2. ASSUME NEW d \in Played, ProbeListeners(r, d) PROVE snap' \in [Runs -> Snapshots]
    <3> DEFINE n == [snap[r] EXCEPT !.listening = IF HasListeners(d) THEN @ \cup {d} ELSE @]
    <3>1. n \in Snapshots
      BY ZenonT(40) DEF TypeOK, Snapshots
    <3>2. snap' = [snap EXCEPT ![r] = n]
      BY <2>2 DEF ProbeListeners, TypeOK, Snapshots
    <3> QED
      BY <3>1, <3>2 DEF TypeOK
  <2>3. ASSUME NEW d \in Played, ProbeRelay(r, d) PROVE snap' \in [Runs -> Snapshots]
    <3> DEFINE n == [snap[r] EXCEPT !.fed = IF peers THEN @ \cup {d} ELSE @]
    <3>1. n \in Snapshots
      BY ZenonT(40) DEF TypeOK, Snapshots
    <3>2. snap' = [snap EXCEPT ![r] = n]
      BY <2>3 DEF ProbeRelay, TypeOK, Snapshots
    <3> QED
      BY <3>1, <3>2 DEF TypeOK
  <2> QED
    BY <2>1, <2>2, <2>3
<1>3. UNCHANGED <<envVars, events, armed, mu, closed, slotVars, wanted, capturing, mixerVars, watcherVars>>
  BY DEF ProbeCallers, ProbeListeners, ProbeRelay
<1> QED
  BY <1>1, <1>2, <1>3 DEF TypeOK, WatcherTypeOK, envVars, slotVars, mixerVars, watcherVars

\* An application's turns.
LEMMA ApplyTypes ==
  ASSUME TypeOK, NEW r \in Runs,
         \/ ApplyPause(r) \/ ApplyResume(r) \/ NotifyCapture(r)
         \/ \E s \in Sources : ApplyInstall(r, s)
  PROVE  TypeOK'
<1>1. CASE ApplyPause(r)
  <2>1. pc' \in [Runs -> Steps] /\ left' \in [Runs -> SUBSET Channels]
    BY <1>1 DEF ApplyPause, Enter, TypeOK, Steps, Channels
  <2>2. ShouldRun(r) \subseteq Dests
    BY DEF ShouldRun, MixingDests
  <2>3. WatcherTypeOK'
    BY <1>1, <2>2, RouterConstants DEF ApplyPause, SetPaused, TypeOK, WatcherTypeOK, watcherVars
  <2> QED
    BY <1>1, <2>1, <2>2, <2>3 DEF ApplyPause, TypeOK, envVars, slotVars
<1>2. CASE ApplyResume(r)
  <2>1. pc' \in [Runs -> Steps] /\ left' \in [Runs -> SUBSET Channels]
    BY <1>2 DEF ApplyResume, Enter, TypeOK, Steps
  <2>2. WatcherTypeOK'
    BY <1>2, RouterConstants DEF ApplyResume, SetPaused, TypeOK, WatcherTypeOK, watcherVars
  <2> QED
    BY <1>2, <2>1, <2>2 DEF ApplyResume, TypeOK, envVars, slotVars
<1>3. CASE NotifyCapture(r)
  <2>1. pc' \in [Runs -> Steps] /\ left' \in [Runs -> SUBSET Channels]
    BY <1>3 DEF NotifyCapture, Enter, TypeOK, Steps
  <2>2. snap' \in [Runs -> Snapshots] /\ capturing' \subseteq Sources
    BY <1>3 DEF NotifyCapture, TypeOK, Snapshots, NoSnapshot
  <2> QED
    BY <1>3, <2>1, <2>2 DEF NotifyCapture, TypeOK, WatcherTypeOK, envVars, slotVars, mixerVars, watcherVars
<1>4. ASSUME NEW s \in Sources, ApplyInstall(r, s) PROVE TypeOK'
  <2>1. left' \in [Runs -> SUBSET Channels]
    BY <1>4 DEF ApplyInstall, TypeOK
  <2>2. snap[r].users[s] \subseteq Humans /\ ModeFor(r, s) \in RouteModes
    BY RouteOfType DEF TypeOK, Snapshots, ModeFor
  <2> DEFINE mixed == IF ModeFor(r, s) = "mix" THEN snap[r].users[s] ELSE {}
  <2>3. mixed \subseteq Humans /\ TornDown(s) \subseteq Humans
    BY <2>2 DEF TypeOK, TornDown
  <2>4. \/ UNCHANGED slotVars
        \/ /\ bound' = [bound EXCEPT ![s] = TornDown(s) \cup mixed]
           /\ held' = [held EXCEPT ![s] = mixed]
           /\ published' = [published EXCEPT ![s] = [mode |-> ModeFor(r, s), users |-> mixed]]
           /\ activeUsers' = [activeUsers EXCEPT ![s] = mixed]
           /\ activeMode' = [activeMode EXCEPT ![s] = ModeFor(r, s)]
    BY <1>4 DEF ApplyInstall
  <2> HIDE DEF mixed
  <2>5. CASE UNCHANGED slotVars
    BY <1>4, <2>1, <2>5 DEF ApplyInstall, TypeOK, WatcherTypeOK, envVars, slotVars, mixerVars, watcherVars
  <2>6. CASE bound' = [bound EXCEPT ![s] = TornDown(s) \cup mixed] /\ ~UNCHANGED slotVars
    <3>1. bound' \in [Sources -> SUBSET Humans] /\ held' \in [Sources -> SUBSET Humans]
      BY <2>3, <2>4, <2>6 DEF TypeOK
    <3>2. activeMode' \in [Sources -> RouteModes] /\ activeUsers' \in [Sources -> SUBSET Humans]
      BY SMTT(30), <2>2, <2>3, <2>4, <2>6 DEF TypeOK
    <3>3. published' \in [Sources -> [mode : RouteModes, users : SUBSET Humans]]
      BY <2>2, <2>3, <2>4, <2>6 DEF TypeOK
    <3> QED
      BY <1>4, <2>1, <3>1, <3>2, <3>3
         DEF ApplyInstall, TypeOK, WatcherTypeOK, envVars, mixerVars, watcherVars
  <2> QED
    BY <2>4, <2>5, <2>6
<1> QED
  BY <1>1, <1>2, <1>3, <1>4

\* A watcher touches its mixer and its claim.
LEMMA WatcherTypes ==
  ASSUME TypeOK, NEW d \in env.watched, Watcher(d)
  PROVE  TypeOK'
<1>1. d \in Watched /\ d \in Mixers
  BY RouterConstants, WatchedAreMixers DEF TypeOK
<1>2. WatcherTypeOK'
  BY <1>1 DEF Watcher, Hears, FallsQuiet, WatchLook, WatchAct, SetPaused, ClaimsPark, TypeOK,
              WatcherTypeOK, mixerVars, watcherVars
<1> QED
  BY <1>2 DEF Watcher, TypeOK, envVars, runVars, slotVars

\* The caches, the timers, the start of a run and the router's end.
LEMMA OtherTypes ==
  ASSUME TypeOK, Environment \/ Timers \/ ScheduleRecompute \/ Close \/ \E r \in Runs : Begin(r)
  PROVE  TypeOK'
<1> USE DEF WatcherTypeOK, envVars, runVars, slotVars, mixerVars, watcherVars
<1>0. ASSUME NEW r \in Runs, Spawn(r)
      PROVE  pc' \in [Runs -> Steps] /\ UNCHANGED <<left, snap>>
  BY <1>0 DEF Spawn, TypeOK, Steps
<1>1. ASSUME NEW h \in Humans, NEW to \in Channels \cup {Nobody}, Move(h, to) PROVE TypeOK'
  BY <1>1, RouterConstants DEF Move, Changed, TypeOK
<1>2. ASSUME NEW h \in Humans, RoleChange(h) PROVE TypeOK'
  BY <1>2, RouterConstants DEF RoleChange, Changed, TypeOK
<1>3. ASSUME NEW r \in Runs, Membership(r) PROVE TypeOK'
  BY <1>3, <1>0, RouterConstants DEF Membership, Changed, TypeOK
<1>4. ASSUME NEW k \in Channels, Debounce(k) PROVE TypeOK'
  BY <1>4 DEF Debounce, TypeOK, Keys
<1>5. ASSUME NEW k \in Keys, NEW r \in Runs, TimerFires(k, r) PROVE TypeOK'
  BY <1>5, <1>0 DEF TimerFires, TypeOK
<1>6. CASE ScheduleRecompute
  BY <1>6, RouterConstants DEF ScheduleRecompute, Enter, TypeOK, Steps, Keys
<1>7. CASE Close
  <2>2. bound' \in [Sources -> SUBSET Humans] /\ held' \in [Sources -> SUBSET Humans]
    BY <1>7 DEF Close, TornDown, TypeOK
  <2>3. published' \in [Sources -> [mode : RouteModes, users : SUBSET Humans]]
    BY <1>7 DEF Close, Nothing, RouteModes, TypeOK
  <2> QED
    BY <1>7, <2>2, <2>3 DEF Close, TypeOK
<1>8. ASSUME NEW r \in Runs, Begin(r) PROVE TypeOK'
  <2>1. pc' \in [Runs -> Steps] /\ left' \in [Runs -> SUBSET Channels]
    BY <1>8 DEF Begin, Enter, TypeOK, Steps, Channels
  <2> QED
    BY <1>8, <2>1 DEF Begin, TypeOK
<1> QED
  BY <1>1, <1>2, <1>3, <1>4, <1>5, <1>6, <1>7, <1>8 DEF Environment, Timers

LEMMA TypeStep == TypeOK /\ [Next]_vars => TypeOK'
<1>1. TypeOK /\ UNCHANGED vars => TypeOK'
  BY DEF vars, TypeOK, WatcherTypeOK
<1> QED
  BY <1>1, ProbeTypes, ApplyTypes, WatcherTypes, OtherTypes DEF Next, Recompute

-----------------------------------------------------------------------------
(***************************************************************************)
(* The safety invariant.                                                   *)
(***************************************************************************)

\* The mixers a run wants follow from what it has probed.
LEMMA ShouldRunSame ==
  ASSUME NEW r \in Runs, snap'[r] = snap[r]
  PROVE  /\ Counts(r)' = Counts(r) /\ ShouldRun(r)' = ShouldRun(r)
         /\ \A s \in Sources : ModeFor(r, s)' = ModeFor(r, s)
<1>1. Counts(r)' = Counts(r)
  BY DEF Counts
<1> QED
  BY <1>1 DEF ShouldRun, ModeFor

\* A source a run routes in copy mode feeds only destinations the run stops, and alone.
LEMMA CopyOfRun ==
  ASSUME TypeOK, NEW r \in Runs, NEW d \in Dests, NEW s \in FedBy[d], ModeFor(r, s) = "copy"
  PROVE  d \notin ShouldRun(r) /\ \A t \in FedBy[d] \ {s} : ModeFor(r, t) = "off"
<1>1. FedBy[d] \subseteq Sources
  BY DEF FedBy
<1>2. Counts(r) \in [Sources -> Nat]
  BY CountsType
<1> QED
  BY <1>1, <1>2, CopyIsAlone DEF ModeFor, ShouldRun

LEMMA SafeInit == Init => SafeInv
<1> SUFFICES ASSUME Init PROVE SafeInv
  OBVIOUS
<1>1. TypeOK
  BY TypeInit
<1>2. LockInv /\ InstallInv
  BY DEF Init, LockInv, InstallInv
<1>3. SlotInv
  BY DEF Init, SlotInv, Nothing
<1>4. WritersInv
  BY DEF Init, WritersInv, FedBy
<1>5. ParkedOnlyByWatcher
  BY DEF Init, WatcherInit, ParkedOnlyByWatcher
<1> QED
  BY <1>1, <1>2, <1>3, <1>4, <1>5 DEF SafeInv

\* A step that touches neither the slots nor the mixers nor the lock, and no run in applyModes.
LEMMA QuietSafe ==
  ASSUME SafeInv, TypeOK',
         UNCHANGED <<slotVars, mixerVars, watcherVars, wanted, mu, closed, env>>,
         \A q \in Runs : pc'[q] = "install" <=> pc[q] = "install",
         \A q \in Runs : pc[q] = "install" => left'[q] = left[q] /\ snap'[q] = snap[q]
  PROVE  SafeInv'
<1> USE DEF SafeInv, slotVars, mixerVars, watcherVars
<1>1. LockInv'
  BY DEF LockInv, TypeOK
<1>2. InstallInv'
  BY ShouldRunSame DEF InstallInv
<1>3. SlotInv' /\ WritersInv' /\ ParkedOnlyByWatcher'
  BY DEF SlotInv, WritersInv, ParkedOnlyByWatcher
<1> QED
  BY <1>1, <1>2, <1>3

LEMMA EnvironmentSafe ==
  ASSUME SafeInv, TypeOK', Environment \/ Timers \/ ScheduleRecompute
  PROVE  SafeInv'
<1> DEFINE Quiet == /\ UNCHANGED <<slotVars, mixerVars, watcherVars, wanted, mu, closed, env>>
                    /\ \A q \in Runs : pc'[q] = "install" <=> pc[q] = "install"
                    /\ \A q \in Runs : pc[q] = "install" => left'[q] = left[q] /\ snap'[q] = snap[q]
<1> USE DEF SafeInv, TypeOK
<1>1. ASSUME NEW h \in Humans, RoleChange(h) PROVE Quiet
  BY <1>1 DEF RoleChange, runVars
<1>2. ASSUME NEW h \in Humans, NEW to \in Channels \cup {Nobody}, Move(h, to) PROVE Quiet
  BY <1>2 DEF Move, runVars
<1>3. ASSUME NEW r \in Runs, Membership(r) PROVE Quiet
  BY <1>3 DEF Membership, Spawn
<1>4. ASSUME NEW k \in Channels, Debounce(k) PROVE Quiet
  BY <1>4 DEF Debounce, runVars, envVars
<1>5. ASSUME NEW k \in Keys, NEW r \in Runs, TimerFires(k, r) PROVE Quiet
  BY <1>5 DEF TimerFires, Spawn, envVars
<1>6. ASSUME ScheduleRecompute PROVE Quiet
  <2>1. \A q \in Runs \ {Boot} : pc'[q] = pc[q] /\ left'[q] = left[q]
    BY <1>6 DEF ScheduleRecompute, Enter
  <2>2. pc[Boot] # "install" /\ pc'[Boot] # "install"
    BY <1>6, RouterConstants DEF ScheduleRecompute, Enter
  <2> QED
    BY <1>6, <2>1, <2>2 DEF ScheduleRecompute, envVars
<1> QED
  BY <1>1, <1>2, <1>3, <1>4, <1>5, <1>6, QuietSafe DEF Environment, Timers

\* A recomputation outside applyModes.
LEMMA ProbeSafe ==
  ASSUME SafeInv, TypeOK', NEW r \in Runs,
         \/ Begin(r) \/ NotifyCapture(r)
         \/ \E s \in Sources : ProbeCallers(r, s)
         \/ \E d \in Played : ProbeListeners(r, d) \/ ProbeRelay(r, d)
  PROVE  SafeInv'
<1> USE DEF SafeInv
<1>1. /\ UNCHANGED <<slotVars, mixerVars, watcherVars, wanted, mu, closed, env>>
      /\ \A q \in Runs \ {r} : snap'[q] = snap[q]
  BY DEF Begin, NotifyCapture, ProbeCallers, ProbeListeners, ProbeRelay, envVars, TypeOK
<1>2. /\ \A q \in Runs \ {r} : pc'[q] = pc[q] /\ left'[q] = left[q]
      /\ pc[r] # "install" /\ pc'[r] # "install"
  <2>1. CASE Begin(r) \/ NotifyCapture(r)
    BY <2>1 DEF Begin, NotifyCapture, Enter, TypeOK
  <2>2. ASSUME NEW s \in Sources, ProbeCallers(r, s)
        PROVE  /\ \A q \in Runs \ {r} : pc'[q] = pc[q] /\ left'[q] = left[q]
               /\ pc[r] # "install" /\ pc'[r] # "install"
    BY <2>2, AdvanceEffect DEF ProbeCallers, Steps, Channels
  <2>3. ASSUME NEW d \in Played, ProbeListeners(r, d) \/ ProbeRelay(r, d)
        PROVE  /\ \A q \in Runs \ {r} : pc'[q] = pc[q] /\ left'[q] = left[q]
               /\ pc[r] # "install" /\ pc'[r] # "install"
    BY <2>3, AdvanceEffect DEF ProbeListeners, ProbeRelay, Steps, Channels
  <2> QED
    BY <2>1, <2>2, <2>3
<1> QED
  BY <1>1, <1>2, QuietSafe

LEMMA ApplyPauseSafe ==
  ASSUME SafeInv, TypeOK', NEW r \in Runs, ApplyPause(r)
  PROVE  SafeInv'
<1> USE DEF SafeInv
<1>1. /\ mu = Nobody /\ mu' = r /\ r # Nobody /\ wanted' = ShouldRun(r)
      /\ pc' = [pc EXCEPT ![r] = "install"] /\ left' = [left EXCEPT ![r] = Sources]
      /\ paused' = paused \cup (Dests \ ShouldRun(r))
      /\ UNCHANGED <<env, closed, snap, slotVars, watcherVars>>
  BY RouterConstants DEF ApplyPause, Enter, SetPaused, envVars
<1>2. \A q \in Runs : pc[q] # "install"
  BY <1>1, RouterConstants DEF LockInv
<1>3. LockInv' /\ \A q \in Runs : pc'[q] = "install" => q = r
  BY <1>1, <1>2 DEF LockInv, TypeOK
<1>4. InstallInv'
  BY <1>1, <1>3, ShouldRunSame DEF InstallInv, TypeOK
<1>5. SlotInv'
  BY <1>1 DEF SlotInv, slotVars
<1>6. WritersInv' /\ ParkedOnlyByWatcher'
  BY <1>1 DEF WritersInv, ParkedOnlyByWatcher, slotVars
<1> QED
  BY <1>3, <1>4, <1>5, <1>6

\* One source's turn in applyModes.
LEMMA InstallEffect ==
  ASSUME TypeOK, SlotInv, NEW r \in Runs, NEW s \in Sources, ApplyInstall(r, s)
  PROVE  /\ activeMode' = [activeMode EXCEPT ![s] = ModeFor(r, s)]
         /\ ModeFor(r, s) = "mix" => activeUsers'[s] = snap[r].users[s]
         /\ \A t \in Sources \ {s} : /\ activeUsers'[t] = activeUsers[t] /\ held'[t] = held[t]
                                     /\ published'[t] = published[t] /\ bound'[t] = bound[t]
         /\ \/ UNCHANGED slotVars
            \/ /\ bound'[s] = activeUsers'[s] /\ held'[s] = activeUsers'[s]
               /\ published'[s] = [mode |-> ModeFor(r, s), users |-> activeUsers'[s]]
<1> DEFINE mixed == IF ModeFor(r, s) = "mix" THEN snap[r].users[s] ELSE {}
<1>1. CASE NeedsInstall(s, ModeFor(r, s), snap[r].users[s])
  <2>1. TornDown(s) = {}
    BY DEF TornDown, SlotInv
  <2> HIDE DEF mixed
  <2>2. /\ bound' = [bound EXCEPT ![s] = TornDown(s) \cup mixed]
        /\ held' = [held EXCEPT ![s] = mixed]
        /\ published' = [published EXCEPT ![s] = [mode |-> ModeFor(r, s), users |-> mixed]]
        /\ activeUsers' = [activeUsers EXCEPT ![s] = mixed]
        /\ activeMode' = [activeMode EXCEPT ![s] = ModeFor(r, s)]
    BY <1>1 DEF ApplyInstall, mixed
  <2>3. /\ activeUsers'[s] = mixed /\ bound'[s] = mixed /\ held'[s] = mixed
        /\ published'[s] = [mode |-> ModeFor(r, s), users |-> mixed]
    BY <2>1, <2>2 DEF TypeOK
  <2>4. \A t \in Sources \ {s} : /\ activeUsers'[t] = activeUsers[t] /\ held'[t] = held[t]
                                 /\ published'[t] = published[t] /\ bound'[t] = bound[t]
    BY <2>2 DEF TypeOK
  <2>5. ModeFor(r, s) = "mix" => mixed = snap[r].users[s]
    BY DEF mixed
  <2> QED
    BY <2>2, <2>3, <2>4, <2>5
<1>2. CASE ~NeedsInstall(s, ModeFor(r, s), snap[r].users[s])
  <2>1. UNCHANGED slotVars
    BY <1>2 DEF ApplyInstall
  <2>2. activeMode[s] = ModeFor(r, s) /\ (ModeFor(r, s) = "mix" => activeUsers[s] = snap[r].users[s])
    BY <1>2 DEF NeedsInstall
  <2> QED
    BY <2>1, <2>2 DEF slotVars, TypeOK
<1> QED
  BY <1>1, <1>2

LEMMA ApplyInstallSafe ==
  ASSUME SafeInv, TypeOK', NEW r \in Runs, NEW s \in Sources, ApplyInstall(r, s)
  PROVE  SafeInv'
<1> USE DEF SafeInv
<1>1. /\ pc[r] = "install" /\ s \in left[r] /\ left' = [left EXCEPT ![r] = @ \ {s}]
      /\ UNCHANGED <<env, pc, snap, mu, closed, wanted, mixerVars, watcherVars>>
  BY DEF ApplyInstall, envVars
<1>2. mu = r /\ r # Nobody
  BY <1>1, RouterConstants DEF LockInv
<1>3. activeMode' = [activeMode EXCEPT ![s] = ModeFor(r, s)]
  BY InstallEffect
<1>4. LockInv' /\ ParkedOnlyByWatcher'
  BY <1>1, <1>2 DEF LockInv, ParkedOnlyByWatcher
<1>5. SlotInv'
  <2>1. CASE UNCHANGED slotVars
    BY <1>1, <2>1 DEF SlotInv, slotVars
  <2>2. CASE ~UNCHANGED slotVars
    <3>1. /\ bound'[s] = activeUsers'[s] /\ held'[s] = activeUsers'[s]
          /\ published'[s] = [mode |-> ModeFor(r, s), users |-> activeUsers'[s]]
          /\ activeMode'[s] = ModeFor(r, s)
      BY <1>3, <2>2, InstallEffect DEF TypeOK
    <3>2. \A t \in Sources \ {s} :
             /\ activeUsers'[t] = activeUsers[t] /\ held'[t] = held[t]
             /\ published'[t] = published[t] /\ bound'[t] = bound[t] /\ activeMode'[t] = activeMode[t]
      BY <1>3, InstallEffect DEF TypeOK
    <3> QED
      BY <1>1, <3>1, <3>2 DEF SlotInv
  <2> QED
    BY <2>1, <2>2
<1>6. InstallInv'
  <2>1. \A q \in Runs : pc'[q] = "install" => q = r
    BY <1>1, <1>2 DEF LockInv
  <2>2. left'[r] = left[r] \ {s}
    BY <1>1 DEF TypeOK
  <2>3. \A t \in Sources \ left'[r] : activeMode'[t] = ModeFor(r, t)
    BY <1>1, <1>3, <2>2 DEF InstallInv, TypeOK
  <2> QED
    BY <1>1, <2>1, <2>2, <2>3, ShouldRunSame DEF InstallInv, mixerVars
<1>7. WritersInv'
  <2> SUFFICES ASSUME NEW d \in Dests, NEW t \in FedBy[d], activeMode'[t] = "copy", env.watched = {}
               PROVE  d \in paused
    BY <1>1, <1>2 DEF WritersInv, mixerVars
  <2>1. t \in Sources
    BY DEF FedBy
  <2>2. CASE t = s
    <3>1. ModeFor(r, s) = "copy"
      BY <1>3, <2>1, <2>2 DEF TypeOK
    <3>2. d \notin wanted
      BY <1>1, <2>2, <3>1, CopyOfRun DEF InstallInv
    <3> QED
      BY <1>1, <3>2 DEF InstallInv
  <2>3. CASE t # s
    BY <1>3, <2>1, <2>3 DEF WritersInv, TypeOK
  <2> QED
    BY <2>2, <2>3
<1> QED
  BY <1>4, <1>5, <1>6, <1>7

LEMMA ApplyResumeSafe ==
  ASSUME SafeInv, TypeOK', NEW r \in Runs, ApplyResume(r)
  PROVE  SafeInv'
<1> USE DEF SafeInv
<1>1. /\ pc[r] = "install" /\ left[r] = {} /\ mu' = Nobody /\ paused' = paused \ wanted
      /\ pc' = [pc EXCEPT ![r] = "notify"]
      /\ UNCHANGED <<env, snap, closed, wanted, slotVars, watcherVars>>
  BY DEF ApplyResume, SetPaused, Enter, envVars
<1>2. mu = r
  BY <1>1 DEF LockInv
<1>3. /\ wanted = ShouldRun(r)
      /\ \A s \in Sources : activeMode[s] = ModeFor(r, s)
      /\ env.watched = {} => Dests \ wanted \subseteq paused
  BY <1>1 DEF InstallInv
<1>4. \A q \in Runs : pc'[q] # "install"
  BY <1>1, <1>2 DEF LockInv, TypeOK
<1>5. LockInv' /\ InstallInv'
  BY <1>1, <1>4 DEF LockInv, InstallInv
<1>6. SlotInv' /\ ParkedOnlyByWatcher'
  BY <1>1 DEF SlotInv, ParkedOnlyByWatcher, slotVars
<1>7. WritersInv'
  <2> SUFFICES ASSUME NEW d \in Dests, NEW s \in FedBy[d], activeMode[s] = "copy"
               PROVE  /\ env.watched = {} => d \in paused /\ d \notin wanted
                      /\ \A t \in FedBy[d] \ {s} : activeMode[t] = "off"
    BY <1>1 DEF WritersInv, slotVars
  <2>1. FedBy[d] \subseteq Sources
    BY DEF FedBy
  <2>2. d \notin ShouldRun(r) /\ \A t \in FedBy[d] \ {s} : ModeFor(r, t) = "off"
    BY <1>3, <2>1, CopyOfRun
  <2> QED
    BY <1>3, <2>1, <2>2
<1> QED
  BY <1>5, <1>6, <1>7

LEMMA CloseSafe ==
  ASSUME SafeInv, TypeOK', Close
  PROVE  SafeInv'
<1> USE DEF SafeInv
<1>1. /\ mu = Nobody /\ closed'
      /\ published' = [s \in Sources |-> Nothing] /\ bound' = [s \in Sources |-> TornDown(s)]
      /\ held' = [s \in Sources |-> {}]
      /\ UNCHANGED <<env, pc, left, snap, mu, activeMode, activeUsers, wanted, mixerVars, watcherVars>>
  BY DEF Close, envVars, runVars
<1>2. LockInv' /\ ParkedOnlyByWatcher'
  BY <1>1 DEF LockInv, ParkedOnlyByWatcher, mixerVars, watcherVars
<1>3. InstallInv'
  BY <1>1, RouterConstants DEF LockInv, InstallInv
<1>4. SlotInv'
  BY <1>1 DEF SlotInv, TornDown, Nothing
<1>5. WritersInv'
  BY <1>1 DEF WritersInv, mixerVars
<1> QED
  BY <1>2, <1>3, <1>4, <1>5

LEMMA WatcherSafe ==
  ASSUME SafeInv, TypeOK', NEW d \in env.watched, Watcher(d)
  PROVE  SafeInv'
<1> USE DEF SafeInv
<1>1. UNCHANGED <<env, pc, left, snap, mu, closed, slotVars, wanted>>
  BY DEF Watcher, envVars, runVars
<1>2. env.watched # {}
  OBVIOUS
<1>3. LockInv' /\ SlotInv'
  BY <1>1 DEF LockInv, SlotInv, slotVars
<1>4. InstallInv'
  BY <1>1, <1>2, ShouldRunSame DEF InstallInv, slotVars
<1>5. WritersInv'
  BY <1>1, <1>2 DEF WritersInv, slotVars
<1>6. ParkedOnlyByWatcher'
  <2>1. CASE UNCHANGED <<paused, claim>>
    BY <1>1, <2>1 DEF ParkedOnlyByWatcher
  <2>2. CASE WatchLook(d, peers)
    BY <1>1, <2>2 DEF WatchLook, ParkedOnlyByWatcher, mixerVars
  <2>3. CASE WatchAct(d)
    BY <1>1, <2>3 DEF WatchAct, SetPaused, ClaimsPark, ParkedOnlyByWatcher
  <2> QED
    BY <2>1, <2>2, <2>3 DEF Watcher, Hears, FallsQuiet, watcherVars
<1> QED
  BY <1>3, <1>4, <1>5, <1>6

LEMMA SafeStep == SafeInv /\ [Next]_vars => SafeInv'
<1> SUFFICES ASSUME SafeInv, [Next]_vars PROVE SafeInv'
  OBVIOUS
<1>1. TypeOK'
  BY TypeStep DEF SafeInv
<1>2. CASE UNCHANGED vars
  BY <1>1, <1>2, QuietSafe DEF vars, slotVars, mixerVars, watcherVars
<1>3. CASE Environment \/ Timers \/ ScheduleRecompute
  BY <1>1, <1>3, EnvironmentSafe
<1>4. CASE Close
  BY <1>1, <1>4, CloseSafe
<1>5. ASSUME NEW r \in Runs, Recompute(r) PROVE SafeInv'
  BY <1>1, <1>5, ProbeSafe, ApplyPauseSafe, ApplyInstallSafe, ApplyResumeSafe DEF Recompute
<1>6. ASSUME NEW d \in env.watched, Watcher(d) PROVE SafeInv'
  BY <1>1, <1>6, WatcherSafe
<1> QED
  BY <1>2, <1>3, <1>4, <1>5, <1>6 DEF Next

\* The types and the facts about the lock, the slots and the mixers hold in
\* every behaviour of the router.
THEOREM RouterSafety == Spec => []SafeInv
BY SafeInit, SafeStep, PTL DEF Spec

\* A raw writer is alone on its outputs, even while a recomputation is half
\* applied (applyModes pauses first, installs, resumes last).
THEOREM WritersAreAlone == Spec => []NoTwoWriters
<1>1. SafeInv => NoTwoWriters
  <2> SUFFICES ASSUME SafeInv, env.watched = {}, NEW d \in Dests, NEW s \in FedBy[d],
                      published[s].mode = "copy"
               PROVE  d \in paused /\ (mu = Nobody => \A t \in FedBy[d] \ {s} : published[t].mode = "off")
    BY DEF NoTwoWriters
  <2>1. FedBy[d] \subseteq Sources
    BY DEF FedBy
  <2>2. \A t \in FedBy[d] : published[t].mode \in {"off", activeMode[t]}
    BY <2>1 DEF SafeInv, SlotInv
  <2> QED
    BY <2>2 DEF SafeInv, WritersInv
<1> QED
  BY <1>1, RouterSafety, PTL

\* No input outlives its install and none is missing (activeTeardown, Close).
THEOREM InputsAreOfInstalls == Spec => []InputsMatch
<1>1. SafeInv => InputsMatch
  BY DEF SafeInv, SlotInv, InputsMatch
<1> QED
  BY <1>1, RouterSafety, PTL

\* A mixer that should run stands still only by its watcher, which knows it
\* (DrainWatcher.step against setDestPaused).
THEOREM OnlyWatchersPark == Spec => []ParkedOnlyByWatcher
<1>1. SafeInv => ParkedOnlyByWatcher
  BY DEF SafeInv
<1> QED
  BY <1>1, RouterSafety, PTL

-----------------------------------------------------------------------------
(***************************************************************************)
(* The runs: what each has probed, and that there is one where they do not *)
(* overlap.                                                                *)
(***************************************************************************)

\* Around the runs nothing happens to them but that another one is started.
LEMMA AroundRuns ==
  ASSUME TypeOK, Environment \/ Timers \/ Close \/ UNCHANGED vars \/ \E d \in env.watched : Watcher(d)
  PROVE  /\ UNCHANGED <<env, left, snap>>
         /\ \A q \in Runs : pc'[q] = pc[q] \/ (pc[q] = "unborn" /\ pc'[q] = "begin")
<1> USE DEF envVars, runVars
<1>1. ASSUME NEW r \in Runs, Spawn(r)
      PROVE  /\ UNCHANGED <<left, snap>>
             /\ \A q \in Runs : pc'[q] = pc[q] \/ (pc[q] = "unborn" /\ pc'[q] = "begin")
  BY <1>1 DEF Spawn, TypeOK
<1>2. CASE Environment
  BY <1>1, <1>2 DEF Environment, RoleChange, Move, Membership
<1>3. CASE Timers
  BY <1>1, <1>3 DEF Timers, Debounce, TimerFires
<1>4. CASE Close \/ UNCHANGED vars \/ \E d \in env.watched : Watcher(d)
  BY <1>4 DEF Close, Watcher, vars
<1> QED
  BY <1>2, <1>3, <1>4

\* A recomputation changes its own place only.
LEMMA OneRunMoves ==
  ASSUME TypeOK, NEW r \in Runs, Recompute(r)
  PROVE  /\ UNCHANGED <<env, place, role, peers, events, armed, closed>>
         /\ \A q \in Runs \ {r} : pc'[q] = pc[q] /\ left'[q] = left[q] /\ snap'[q] = snap[q]
         /\ pc'[r] # "begin"
         /\ Begin(r) \/ UnderWay(r)
<1> USE DEF envVars
<1>1. UNCHANGED <<env, place, role, peers, events, armed, closed>>
  BY DEF Recompute, Begin, ProbeCallers, ProbeListeners, ProbeRelay, ApplyPause, ApplyInstall,
         ApplyResume, NotifyCapture
<1>2. \A q \in Runs \ {r} : snap'[q] = snap[q]
  BY DEF Recompute, Begin, ProbeCallers, ProbeListeners, ProbeRelay, ApplyPause, ApplyInstall,
         ApplyResume, NotifyCapture, TypeOK
<1> DEFINE Own == /\ \A q \in Runs \ {r} : pc'[q] = pc[q] /\ left'[q] = left[q]
                  /\ pc'[r] # "begin"
                  /\ Begin(r) \/ UnderWay(r)
<1>3. CASE Begin(r) \/ ApplyPause(r) \/ ApplyResume(r) \/ NotifyCapture(r)
  <2>1. Own
    BY <1>3 DEF Begin, ApplyPause, ApplyResume, NotifyCapture, Enter, UnderWay, TypeOK
  <2> QED
    BY <1>1, <1>2, <2>1
<1>4. ASSUME NEW s \in Sources, ApplyInstall(r, s) PROVE Own
  BY <1>4 DEF ApplyInstall, UnderWay, TypeOK
<1>5. ASSUME NEW s \in Sources, ProbeCallers(r, s) PROVE Own
  BY <1>5, AdvanceEffect DEF ProbeCallers, UnderWay, Steps, Channels
<1>6. ASSUME NEW d \in Played, ProbeListeners(r, d) \/ ProbeRelay(r, d) PROVE Own
  BY <1>6, AdvanceEffect DEF ProbeListeners, ProbeRelay, UnderWay, Steps, Channels
<1> QED
  BY <1>1, <1>2, <1>3, <1>4, <1>5, <1>6 DEF Recompute

\* What the probes do to a run's snapshot.
LEMMA ProbeEffect ==
  ASSUME TypeOK, NEW r \in Runs
  PROVE  /\ \A s \in Sources : ProbeCallers(r, s) =>
               /\ snap'[r].users = [snap[r].users EXCEPT ![s] = EnumerateCallers(s)]
               /\ snap'[r].listening = snap[r].listening /\ snap'[r].fed = snap[r].fed
         /\ \A d \in Played : ProbeListeners(r, d) =>
               /\ snap'[r].users = snap[r].users /\ snap'[r].fed = snap[r].fed
               /\ snap'[r].listening = snap[r].listening \cup IF HasListeners(d) THEN {d} ELSE {}
         /\ \A d \in Played : ProbeRelay(r, d) =>
               /\ snap'[r].users = snap[r].users /\ snap'[r].listening = snap[r].listening
               /\ snap'[r].fed = snap[r].fed \cup IF peers THEN {d} ELSE {}
<1>1. snap[r] \in Snapshots
  BY DEF TypeOK
<1>2. ASSUME NEW s \in Sources, ProbeCallers(r, s)
      PROVE  /\ snap'[r].users = [snap[r].users EXCEPT ![s] = EnumerateCallers(s)]
             /\ snap'[r].listening = snap[r].listening /\ snap'[r].fed = snap[r].fed
  <2>1. snap'[r] = [snap[r] EXCEPT !.users[s] = EnumerateCallers(s)]
    BY <1>2 DEF ProbeCallers, TypeOK
  <2> QED
    BY <1>1, <2>1 DEF Snapshots
<1>3. ASSUME NEW d \in Played, ProbeListeners(r, d)
      PROVE  /\ snap'[r].users = snap[r].users /\ snap'[r].fed = snap[r].fed
             /\ snap'[r].listening = snap[r].listening \cup IF HasListeners(d) THEN {d} ELSE {}
  <2>1. snap'[r] = [snap[r] EXCEPT !.listening = IF HasListeners(d) THEN @ \cup {d} ELSE @]
    BY <1>3 DEF ProbeListeners, TypeOK
  <2> QED
    BY <1>1, <2>1 DEF Snapshots
<1>4. ASSUME NEW d \in Played, ProbeRelay(r, d)
      PROVE  /\ snap'[r].users = snap[r].users /\ snap'[r].listening = snap[r].listening
             /\ snap'[r].fed = snap[r].fed \cup IF peers THEN {d} ELSE {}
  <2>1. snap'[r] = [snap[r] EXCEPT !.fed = IF peers THEN @ \cup {d} ELSE @]
    BY <1>4 DEF ProbeRelay, TypeOK
  <2> QED
    BY <1>1, <2>1 DEF Snapshots
<1> QED
  BY <1>2, <1>3, <1>4

LEMMA ProbesStep ==
  ASSUME TypeOK, ProbeInv, NEW r \in Runs, Recompute(r)
  PROVE  ProbesOf(r)'
<1>0. ProbesOf(r)
  BY DEF ProbeInv, ProbesOf
<1>1. CASE Begin(r)
  <2>1. snap'[r] = NoSnapshot /\ pc'[r] \in {"callers", "done"}
    BY <1>0, <1>1 DEF Begin, Enter, ProbesOf, TypeOK
  <2> QED
    BY <2>1 DEF ProbesOf, NoSnapshot
<1>2. ASSUME NEW s \in Sources, ProbeCallers(r, s) PROVE ProbesOf(r)'
  <2>1. pc'[r] \in {"callers", "listeners"}
    BY <1>2, AdvanceEffect DEF ProbeCallers, Steps, Channels
  <2>2. snap'[r].listening = {} /\ snap'[r].fed = {}
    BY <1>0, <1>2, ProbeEffect DEF ProbesOf, ProbeCallers
  <2> QED
    BY <2>1, <2>2 DEF ProbesOf
<1>3. ASSUME NEW d \in Played, ProbeListeners(r, d) PROVE ProbesOf(r)'
  <2>1. \/ pc'[r] = "listeners" /\ left'[r] = left[r] \ {d}
        \/ pc'[r] = "relay"
    BY <1>3, AdvanceEffect DEF ProbeListeners, Steps, Channels
  <2>2. snap'[r].fed = {} /\ snap'[r].listening \cap (left[r] \ {d}) = {}
    BY <1>0, <1>3, ProbeEffect DEF ProbesOf, ProbeListeners
  <2> QED
    BY <2>1, <2>2 DEF ProbesOf
<1>4. ASSUME NEW d \in Played, ProbeRelay(r, d) PROVE ProbesOf(r)'
  <2>1. \/ pc'[r] = "relay" /\ left'[r] = left[r] \ {d}
        \/ pc'[r] = "pause"
    BY <1>4, AdvanceEffect DEF ProbeRelay, Steps, Channels
  <2>2. snap'[r].fed \cap (left[r] \ {d}) = {}
    BY <1>0, <1>4, ProbeEffect DEF ProbesOf, ProbeRelay
  <2> QED
    BY <2>1, <2>2 DEF ProbesOf
<1>5. CASE ApplyPause(r) \/ ApplyResume(r) \/ NotifyCapture(r) \/ \E s \in Sources : ApplyInstall(r, s)
  <2>1. pc'[r] \in {"install", "notify", "schedule", "done"}
    BY <1>5 DEF ApplyPause, ApplyResume, NotifyCapture, ApplyInstall, Enter, TypeOK
  <2> QED
    BY <2>1 DEF ProbesOf
<1> QED
  BY <1>1, <1>2, <1>3, <1>4, <1>5 DEF Recompute

LEMMA RunsStep ==
  ASSUME TypeOK, ProbeInv, OneRun, [Next]_vars
  PROVE  ProbeInv' /\ OneRun'
<1>1. CASE Environment \/ Timers \/ Close \/ UNCHANGED vars \/ \E d \in env.watched : Watcher(d)
  BY <1>1, AroundRuns DEF ProbeInv, ProbesOf, OneRun, UnderWay
<1>2. CASE ScheduleRecompute
  <2>1. /\ UNCHANGED <<env, snap>> /\ pc'[Boot] = "done" /\ pc[Boot] = "schedule"
        /\ \A q \in Runs \ {Boot} : pc'[q] = pc[q] /\ left'[q] = left[q]
    BY <1>2, RouterConstants DEF ScheduleRecompute, Enter, TypeOK, envVars
  <2> QED
    BY <2>1 DEF ProbeInv, ProbesOf, OneRun, UnderWay
<1>3. ASSUME NEW r \in Runs, Recompute(r) PROVE ProbeInv' /\ OneRun'
  <2>1. ProbeInv'
    BY <1>3, OneRunMoves, ProbesStep DEF ProbeInv, ProbesOf
  <2>2. OneRun'
    <3>1. CASE UnderWay(r)
      BY <1>3, <3>1, OneRunMoves DEF OneRun, UnderWay
    <3>2. CASE Begin(r)
      BY <1>3, <3>2, OneRunMoves DEF OneRun, UnderWay, Begin
    <3> QED
      BY <1>3, <3>1, <3>2, OneRunMoves
  <2> QED
    BY <2>1, <2>2
<1> QED
  BY <1>1, <1>2, <1>3 DEF Next

-----------------------------------------------------------------------------
(***************************************************************************)
(* Convergence.                                                            *)
(***************************************************************************)

\* A run that has seen the caches as they are computes the routes they ask for.
LEMMA AllSeen ==
  ASSUME TypeOK, NEW r \in Runs, CallersSeen(r, Sources), ListenersSeen(r, Played), RelaySeen(r, Played)
  PROVE  ShouldRun(r) = CurrentDests /\ \A s \in Sources : ModeFor(r, s) = CurrentMode(s)
<1>1. Counts(r) = CurrentCounts
  BY DEF Counts, CurrentCounts, CallersSeen
<1>2. snap[r].fed = CurrentFed
  <2>1. snap[r].fed \subseteq Played
    BY DEF TypeOK, Snapshots
  <2> QED
    BY <2>1 DEF RelaySeen, CurrentFed
<1>3. \A d \in MixingDests(FedBy, CurrentCounts, CurrentFed) :
         d = RelayDest \/ (d \in snap[r].listening <=> HasListeners(d))
  BY DEF MixingDests, ListenersSeen, Played
<1> QED
  BY <1>1, <1>2, <1>3 DEF ShouldRun, CurrentDests, ModeFor, CurrentMode

\* What is routed depends on the caches and on nothing else.
LEMMA SameCaches ==
  ASSUME UNCHANGED peers, \A s \in Sources : EnumerateCallers(s)' = EnumerateCallers(s),
         \A d \in Played : HasListeners(d)' <=> HasListeners(d)
  PROVE  /\ CurrentDests' = CurrentDests
         /\ \A s \in Sources : CurrentMode(s)' = CurrentMode(s)
<1>1. CurrentCounts' = CurrentCounts /\ CurrentFed' = CurrentFed
  BY DEF CurrentCounts, CurrentFed
<1>2. \A d \in MixingDests(FedBy, CurrentCounts, CurrentFed) :
         d = RelayDest \/ (HasListeners(d)' <=> HasListeners(d))
  BY DEF MixingDests, Played
<1>3. CurrentDests' = CurrentDests
  BY <1>1, <1>2 DEF CurrentDests
<1> QED
  BY <1>1, <1>3 DEF CurrentMode

\* As long as it says nothing of the caches, a step of the environment changes nothing here.
LEMMA ConvergingQuiet ==
  ASSUME TypeOK, ConvergingInv, ~env.overlap, ~closed, ~Pending,
         UNCHANGED <<env, peers, closed, pc, left, snap, activeMode, activeUsers, wanted, capturing>>,
         \A s \in Sources : EnumerateCallers(s)' = EnumerateCallers(s),
         \A d \in Played : HasListeners(d)' <=> HasListeners(d)
  PROVE  ConvergingInv'
<1>1. (\A r \in Runs : SeenInv(r) /\ AppliedInv(r)) /\ RestInv
  BY DEF ConvergingInv
<1>2. /\ CurrentDests' = CurrentDests
      /\ \A s \in Sources : CurrentMode(s)' = CurrentMode(s)
  BY SameCaches
<1>3. \A s \in Sources : Routed(s)' <=> Routed(s)
  BY <1>2 DEF Routed
<1>4. ASSUME NEW r \in Runs PROVE SeenInv(r)' /\ AppliedInv(r)'
  <2>1. left[r] \subseteq Channels /\ SeenInv(r) /\ AppliedInv(r)
    BY <1>1 DEF TypeOK
  <2>2. SeenInv(r)'
    BY <2>1 DEF SeenInv, CallersSeen, ListenersSeen, RelaySeen
  <2>3. AppliedInv(r)'
    BY <1>2, <1>3, <2>1 DEF AppliedInv
  <2> QED
    BY <2>2, <2>3
<1>5. RestInv'
  BY <1>1, <1>2, <1>3 DEF RestInv, UnderWay
<1> QED
  BY <1>4, <1>5 DEF ConvergingInv

\* Whatever the environment, the timers and the end do: either it leaves the
\* routes right or something will still recompute.
LEMMA ConvergingAround ==
  ASSUME TypeOK, ConvergingInv,
         \/ Environment \/ Timers \/ ScheduleRecompute \/ Close \/ UNCHANGED vars
         \/ \E d \in env.watched : Watcher(d)
  PROVE  ConvergingInv'
<1> SUFFICES ASSUME ~env.overlap', ~closed', ~Pending' PROVE ConvergingInv'
  BY DEF ConvergingInv
<1> USE DEF envVars, runVars, slotVars
<1>1. ASSUME NEW h \in Humans, NEW to \in Channels \cup {Nobody}, Move(h, to) PROVE FALSE
  <2>1. {place[h], to} \ {Nobody} # {}
    BY <1>1 DEF Move
  <2> QED
    BY <1>1, <2>1 DEF Move, Pending
<1>2. ASSUME NEW h \in Humans, RoleChange(h) PROVE ConvergingInv'
  <2>1. events' = {} /\ place[h] = Nobody
    BY <1>2 DEF RoleChange, Pending
  <2>2. /\ UNCHANGED <<env, place, peers, closed, pc, left, snap, activeMode, activeUsers, wanted, capturing>>
        /\ UNCHANGED armed /\ events = {}
    BY <1>2, <2>1 DEF RoleChange
  <2>3. ~env.overlap /\ ~closed /\ ~Pending
    BY <2>1, <2>2 DEF Pending
  <2>4. ASSUME NEW s \in Sources PROVE EnumerateCallers(s)' = EnumerateCallers(s)
    <3>1. s # Nobody
      BY RouterConstants
    <3> QED
      BY <1>2, <2>1, <2>2, <3>1 DEF RoleChange, EnumerateCallers
  <2>5. \A d \in Played : HasListeners(d)' <=> HasListeners(d)
    BY <2>2 DEF HasListeners
  <2> QED
    BY <2>2, <2>3, <2>4, <2>5, ConvergingQuiet
<1>3. ASSUME NEW r \in Runs, Membership(r) PROVE FALSE
  BY <1>3 DEF Membership, Spawn, Pending, TypeOK
<1>4. ASSUME NEW k \in Channels, Debounce(k) PROVE FALSE
  BY <1>4 DEF Debounce, Pending
<1>5. ASSUME NEW k \in Keys, NEW r \in Runs, TimerFires(k, r) PROVE FALSE
  BY <1>5 DEF TimerFires, Spawn, Pending, TypeOK
<1>6. CASE ScheduleRecompute
  BY <1>6 DEF ScheduleRecompute, Pending
<1>7. CASE Close
  BY <1>7 DEF Close
<1>8. CASE UNCHANGED vars \/ \E d \in env.watched : Watcher(d)
  <2>1. /\ UNCHANGED <<env, place, role, peers, closed, pc, left, snap, activeMode, activeUsers, wanted, capturing>>
        /\ UNCHANGED <<events, armed>>
    BY <1>8 DEF vars, Watcher
  <2>2. ~env.overlap /\ ~closed /\ ~Pending
    BY <2>1 DEF Pending
  <2> QED
    BY <2>1, <2>2, ConvergingQuiet DEF EnumerateCallers, HasListeners
<1> QED
  BY <1>1, <1>2, <1>3, <1>4, <1>5, <1>6, <1>7, <1>8 DEF Environment, Timers

\* What a run has seen stays so, and it sees more.
LEMMA SeenStep ==
  ASSUME TypeOK, ProbeInv, NEW r \in Runs, Recompute(r), UnderWay(r), SeenInv(r)
  PROVE  SeenInv(r)'
<1>0. /\ \A s \in Sources : EnumerateCallers(s)' = EnumerateCallers(s)
      /\ \A d \in Played : HasListeners(d)' <=> HasListeners(d)
      /\ UNCHANGED peers
  BY OneRunMoves DEF EnumerateCallers, HasListeners
<1>1. ASSUME NEW s \in Sources, ProbeCallers(r, s) PROVE SeenInv(r)'
  <2>1. pc[r] = "callers" /\ s \in left[r] /\ CallersSeen(r, Sources \ left[r])
    BY <1>1 DEF ProbeCallers, SeenInv
  <2>2. snap'[r].users = [snap[r].users EXCEPT ![s] = EnumerateCallers(s)]
    BY <1>1, ProbeEffect
  <2>4. \A t \in Sources \ (left[r] \ {s}) : snap'[r].users[t] = EnumerateCallers(t)
    BY <2>1, <2>2 DEF CallersSeen, TypeOK, Snapshots
  <2>5. \A t \in Sources \ (left[r] \ {s}) : snap'[r].users[t] = EnumerateCallers(t)'
    BY <1>0, <2>4
  <2>3. \/ pc'[r] = "callers" /\ left'[r] = left[r] \ {s}
        \/ pc'[r] = "listeners" /\ left'[r] = Played /\ left[r] = {s}
    BY <1>1, <2>1, AdvanceEffect DEF ProbeCallers, Steps, Channels
  <2> QED
    BY <2>3, <2>5 DEF SeenInv, CallersSeen, ListenersSeen
<1>2. ASSUME NEW d \in Played, ProbeListeners(r, d) PROVE SeenInv(r)'
  <2>1. /\ pc[r] = "listeners" /\ d \in left[r] /\ CallersSeen(r, Sources)
        /\ ListenersSeen(r, Played \ left[r]) /\ d \notin snap[r].listening
    BY <1>2 DEF ProbeListeners, SeenInv, ProbeInv, ProbesOf
  <2>2. CallersSeen(r, Sources)'
    BY <1>0, <1>2, <2>1, ProbeEffect DEF CallersSeen
  <2>3. \A e \in Played \ (left[r] \ {d}) : e \in snap'[r].listening <=> HasListeners(e)'
    BY <1>0, <1>2, <2>1, ProbeEffect DEF ListenersSeen
  <2>4. \/ pc'[r] = "listeners" /\ left'[r] = left[r] \ {d}
        \/ pc'[r] = "relay" /\ left'[r] = Played /\ left[r] = {d}
    BY <1>2, <2>1, AdvanceEffect DEF ProbeListeners, Steps, Channels
  <2> QED
    BY <2>2, <2>3, <2>4 DEF SeenInv, ListenersSeen, RelaySeen
<1>3. ASSUME NEW d \in Played, ProbeRelay(r, d) PROVE SeenInv(r)'
  <2>1. /\ pc[r] = "relay" /\ d \in left[r] /\ CallersSeen(r, Sources)
        /\ ListenersSeen(r, Played) /\ RelaySeen(r, Played \ left[r]) /\ d \notin snap[r].fed
    BY <1>3 DEF ProbeRelay, SeenInv, ProbeInv, ProbesOf
  <2>2. CallersSeen(r, Sources)' /\ ListenersSeen(r, Played)'
    BY <1>0, <1>3, <2>1, ProbeEffect DEF CallersSeen, ListenersSeen
  <2>3. \A e \in Played \ (left[r] \ {d}) : e \in snap'[r].fed <=> peers'
    BY <1>0, <1>3, <2>1, ProbeEffect DEF RelaySeen
  <2>4. \/ pc'[r] = "relay" /\ left'[r] = left[r] \ {d}
        \/ pc'[r] = "pause" /\ left[r] = {d}
    BY <1>3, <2>1, AdvanceEffect DEF ProbeRelay, Steps, Channels
  <2> QED
    BY <2>2, <2>3, <2>4 DEF SeenInv, RelaySeen
<1>4. CASE ApplyPause(r) \/ ApplyResume(r) \/ \E s \in Sources : ApplyInstall(r, s)
  <2>1. /\ UNCHANGED snap
        /\ pc[r] \in {"pause", "install"} /\ pc'[r] \in {"install", "notify"}
    BY <1>4 DEF ApplyPause, ApplyResume, ApplyInstall, Enter, TypeOK
  <2>2. CallersSeen(r, Sources)' /\ ListenersSeen(r, Played)' /\ RelaySeen(r, Played)'
    BY <1>0, <2>1 DEF SeenInv, CallersSeen, ListenersSeen, RelaySeen
  <2> QED
    BY <2>1, <2>2 DEF SeenInv
<1>5. CASE NotifyCapture(r)
  BY <1>5 DEF NotifyCapture, Enter, SeenInv, TypeOK
<1>6. ~Begin(r)
  BY DEF Begin, UnderWay
<1> QED
  BY <1>1, <1>2, <1>3, <1>4, <1>5, <1>6 DEF Recompute

\* What a run applies is what the caches ask for.
LEMMA AppliedStep ==
  ASSUME SafeInv, NEW r \in Runs, Recompute(r), UnderWay(r), ~closed, SeenInv(r), AppliedInv(r)
  PROVE  /\ AppliedInv(r)'
         /\ pc'[r] = "done" =>
               (wanted = CurrentDests /\ \A s \in Sources : Routed(s) /\ (s \in capturing <=> CurrentMode(s) # "off"))'
<1> USE DEF SafeInv
<1>0. /\ CurrentDests' = CurrentDests
      /\ \A s \in Sources : CurrentMode(s)' = CurrentMode(s) /\ EnumerateCallers(s)' = EnumerateCallers(s)
  BY OneRunMoves, SameCaches DEF EnumerateCallers, HasListeners
<1>1. CASE pc'[r] \in {"callers", "listeners", "relay", "pause"}
  BY <1>1 DEF AppliedInv
<1>2. CASE ApplyPause(r)
  <2>1. /\ pc[r] = "pause" /\ pc'[r] = "install" /\ left'[r] = Sources /\ wanted' = ShouldRun(r)
    BY <1>2 DEF ApplyPause, Enter, TypeOK
  <2>2. ShouldRun(r) = CurrentDests
    BY <2>1, AllSeen DEF SeenInv
  <2> QED
    BY <1>0, <2>1, <2>2 DEF AppliedInv
<1>3. ASSUME NEW s \in Sources, ApplyInstall(r, s)
      PROVE  AppliedInv(r)' /\ pc'[r] # "done"
  <2>1. /\ pc[r] = "install" /\ s \in left[r] /\ left'[r] = left[r] \ {s} /\ pc' = pc /\ wanted' = wanted
    BY <1>3 DEF ApplyInstall, TypeOK
  <2>2. ModeFor(r, s) = CurrentMode(s) /\ snap[r].users[s] = EnumerateCallers(s)
    BY <2>1, AllSeen DEF SeenInv, CallersSeen
  <2>5. /\ activeMode' = [activeMode EXCEPT ![s] = ModeFor(r, s)]
        /\ ModeFor(r, s) = "mix" => activeUsers'[s] = snap[r].users[s]
        /\ \A t \in Sources \ {s} : activeUsers'[t] = activeUsers[t]
    BY <1>3, InstallEffect
  <2>3. Routed(s)'
    BY <1>0, <2>2, <2>5 DEF Routed, TypeOK
  <2>4. \A t \in Sources \ left[r] : Routed(t)'
    <3> SUFFICES ASSUME NEW t \in Sources \ left[r] PROVE Routed(t)'
      OBVIOUS
    <3>1. Routed(t) /\ t # s
      BY <2>1 DEF AppliedInv
    <3>2. activeMode'[t] = activeMode[t] /\ activeUsers'[t] = activeUsers[t]
      BY <2>5, <3>1 DEF TypeOK
    <3> QED
      BY <1>0, <3>1, <3>2 DEF Routed
  <2> QED
    BY <1>0, <2>1, <2>3, <2>4 DEF AppliedInv
<1>4. CASE ApplyResume(r)
  <2>1. /\ pc[r] = "install" /\ left[r] = {} /\ pc'[r] = "notify"
        /\ UNCHANGED <<wanted, activeMode, activeUsers>>
    BY <1>4 DEF ApplyResume, Enter, TypeOK, slotVars
  <2> QED
    BY <1>0, <2>1 DEF AppliedInv, Routed
<1>5. CASE NotifyCapture(r)
  <2>1. /\ pc[r] = "notify" /\ pc'[r] \in {"schedule", "done"}
        /\ capturing' = {s \in Sources : ModeFor(r, s) # "off"}
        /\ UNCHANGED <<wanted, activeMode, activeUsers>>
    BY <1>5 DEF NotifyCapture, Enter, TypeOK, slotVars
  <2>2. \A s \in Sources : ModeFor(r, s) = CurrentMode(s)
    BY <2>1, AllSeen DEF SeenInv
  <2>3. wanted = CurrentDests /\ \A s \in Sources : Routed(s)
    BY <2>1 DEF AppliedInv
  <2>4. (wanted = CurrentDests /\ \A s \in Sources : Routed(s) /\ (s \in capturing <=> CurrentMode(s) # "off"))'
    BY <1>0, <2>1, <2>2, <2>3 DEF Routed
  <2> QED
    BY <2>1, <2>4 DEF AppliedInv
<1>6. ASSUME NEW s \in Sources, ProbeCallers(r, s)
      PROVE  pc'[r] \in {"callers", "listeners", "relay", "pause"}
  BY <1>6, AdvanceEffect DEF ProbeCallers, Steps, Channels
<1>7. ASSUME NEW d \in Played, ProbeListeners(r, d) \/ ProbeRelay(r, d)
      PROVE  pc'[r] \in {"callers", "listeners", "relay", "pause"}
  BY <1>7, AdvanceEffect DEF ProbeListeners, ProbeRelay, Steps, Channels
<1>8. ~Begin(r)
  BY DEF Begin, UnderWay
<1> QED
  BY <1>1, <1>2, <1>3, <1>4, <1>5, <1>6, <1>7, <1>8 DEF Recompute

\* A run that begins has seen nothing yet and is alone.
LEMMA ConvergingRun ==
  ASSUME SafeInv, ProbeInv, OneRun, ConvergingInv, NEW r \in Runs, Recompute(r)
  PROVE  ConvergingInv'
<1> SUFFICES ASSUME ~env.overlap, ~closed, ~Pending' PROVE ConvergingInv'
  BY OneRunMoves DEF ConvergingInv, SafeInv
<1> USE DEF SafeInv
<1>1. \A q \in Runs \ {r} : ~UnderWay(q) /\ pc'[q] = pc[q] /\ pc[q] # "begin"
  <2>1. \A q \in Runs \ {r} : pc'[q] = pc[q] /\ pc[q] # "begin"
    BY OneRunMoves DEF Pending
  <2>2. CASE UnderWay(r)
    BY <2>1, <2>2 DEF OneRun
  <2>3. CASE Begin(r)
    BY <2>1, <2>3 DEF Begin
  <2> QED
    BY <2>1, <2>2, <2>3, OneRunMoves
<1>2. \A q \in Runs \ {r} : SeenInv(q)' /\ AppliedInv(q)'
  BY <1>1 DEF SeenInv, AppliedInv, UnderWay
<1>3. CASE Begin(r)
  <2>1. pc'[r] = "callers" /\ left'[r] = Sources
    BY <1>3 DEF Begin, Enter, TypeOK
  <2> QED
    BY <1>2, <2>1 DEF ConvergingInv, SeenInv, AppliedInv, RestInv, UnderWay, CallersSeen
<1>4. CASE UnderWay(r)
  <2>1. ~Pending
    <3>1. events = {} /\ armed = {}
      BY OneRunMoves DEF Pending
    <3> QED
      BY <1>1, <1>4, <3>1 DEF Pending, UnderWay
  <2>2. SeenInv(r) /\ AppliedInv(r)
    BY <2>1 DEF ConvergingInv
  <2>3. SeenInv(r)' /\ AppliedInv(r)'
    BY <1>4, <2>2, SeenStep, AppliedStep
  <2>4. RestInv'
    <3>1. ASSUME ~UnderWay(r)' PROVE pc'[r] = "done"
      <4>1. pc'[r] # "begin" /\ pc'[r] # "unborn"
        BY <1>4, AdvanceEffect, OneRunMoves
           DEF Recompute, Begin, ProbeCallers, ProbeListeners, ProbeRelay, ApplyPause, ApplyInstall,
               ApplyResume, NotifyCapture, Enter, TypeOK, UnderWay, Steps, Channels
      <4> QED
        BY <3>1, <4>1 DEF UnderWay
    <3> QED
      BY <1>4, <2>2, <3>1, AppliedStep DEF RestInv
  <2> QED
    BY <1>2, <2>3, <2>4 DEF ConvergingInv
<1> QED
  BY <1>3, <1>4, OneRunMoves

LEMMA RouterInvInit == Init => RouterInv
<1> SUFFICES ASSUME Init PROVE RouterInv
  OBVIOUS
<1>1. ProbeInv
  BY DEF Init, ProbeInv, ProbesOf
<1>2. OneRun
  BY DEF Init, OneRun, UnderWay
<1>3. Pending
  BY RouterConstants DEF Init, Pending
<1> QED
  BY <1>1, <1>2, <1>3, SafeInit DEF RouterInv, ConvergingInv

LEMMA RouterInvStep == RouterInv /\ [Next]_vars => RouterInv'
<1> SUFFICES ASSUME RouterInv, [Next]_vars PROVE RouterInv'
  OBVIOUS
<1>1. SafeInv'
  BY SafeStep DEF RouterInv
<1>2. ProbeInv' /\ OneRun'
  BY RunsStep DEF RouterInv, SafeInv
<1>3. ConvergingInv'
  BY ConvergingAround, ConvergingRun DEF RouterInv, SafeInv, Next
<1> QED
  BY <1>1, <1>2, <1>3 DEF RouterInv

\* Once nothing is under way and nothing due, the routes are those of the caches
\* as they are: no event, role change or relay change is lost, whenever it comes.
THEOREM RouterConverges == Spec => []Converged
<1>1. Spec => []RouterInv
  BY RouterInvInit, RouterInvStep, PTL DEF Spec
<1>2. RouterInv => Converged
  <2> SUFFICES ASSUME RouterInv, Settled, ~closed, ~env.overlap
               PROVE  /\ \A s \in Sources :
                           /\ published[s].mode = CurrentMode(s)
                           /\ CurrentMode(s) = "mix" => published[s].users = EnumerateCallers(s)
                           /\ s \in capturing <=> CurrentMode(s) # "off"
                      /\ wanted = CurrentDests
    BY DEF Converged, CurrentMode, CurrentDests
  <2>1. ~Pending /\ \A r \in Runs : ~UnderWay(r)
    BY DEF Settled, Pending, UnderWay
  <2>2. wanted = CurrentDests /\ \A s \in Sources : Routed(s) /\ (s \in capturing <=> CurrentMode(s) # "off")
    BY <2>1 DEF RouterInv, ConvergingInv, RestInv
  <2>3. ASSUME NEW s \in Sources
        PROVE  /\ published[s].mode = CurrentMode(s)
               /\ CurrentMode(s) = "mix" => published[s].users = EnumerateCallers(s)
    <3>1. published[s] = [mode |-> activeMode[s], users |-> activeUsers[s]]
      BY DEF RouterInv, SafeInv, SlotInv
    <3>2. Routed(s)
      BY <2>2
    <3> QED
      BY <3>1, <3>2 DEF Routed
  <2> QED
    BY <2>2, <2>3
<1> QED
  BY <1>1, <1>2, PTL
=============================================================================
