------------------------------- MODULE Router -------------------------------
(***************************************************************************)
(* The auto-router of one raid (internal/manager/router/router.go): voice  *)
(* events arm debounce timers, timers and relay membership changes start   *)
(* recomputations on goroutines of their own, and each recomputation       *)
(* probes the voice caches without the router's lock, runs the cascade and *)
(* applies the result under the lock while mixers, receivers and drain     *)
(* watchers go on.  The topology is GuildCaller's mix-minus.               *)
(*                                                                         *)
(* A source is named by the voice channel it captures, a destination by    *)
(* the channel it plays into; RelayDest is the synthetic one whose mixer   *)
(* feeds the other guilds.                                                 *)
(***************************************************************************)
EXTENDS RouteRules, FiniteSets, DrainWatcher

CONSTANTS RelayDest,    \* RelayDestID
          Humans,       \* the users of the guild that are no bots
          Bearers,      \* the ones that bear the caller role at first
          Runs,         \* recomputations, each on its own goroutine
          Boot,         \* the one the pipeline's start makes itself
          Nobody,       \* no run; no channel
          MaxChanges,   \* bound: changes of the voice caches
          Environments  \* what goes on around the router, one of which each
                        \* behaviour begins in: the humans that move about, how
                        \* many runs follow the first, the mixers with a drain
                        \* watcher, and whether a recomputation may last so long
                        \* that another one starts, or a mixer's idle time
                        \* passes, before it ends

ASSUME RouterConstants ==
    /\ RelayDest \in Dests \ Sources
    /\ Mixers = Dests
    /\ Bearers \subseteq Humans /\ IsFiniteSet(Humans)
    /\ Boot \in Runs
    /\ Nobody \notin Runs \cup Sources \cup Dests
    /\ MaxChanges \in Nat
    /\ Environments \subseteq [overlap : BOOLEAN, humans : SUBSET Humans,
                              further : Nat, watched : SUBSET Watched]

Played == Dests \ {RelayDest}
Channels == Sources \cup Played
Keys == Channels \cup {"later"}

\* Mix-minus: a source feeds every destination except its own channel.
FedBy == [d \in Dests |-> Sources \ {d}]

VARIABLES env,         \* the member of Environments this behaviour runs in
          place,       \* the voice channel of each human
          role,        \* the humans that bear the caller role
          peers,       \* Session.HasCapturingPeers: another guild may relay in
          changes,     \* how often the caches changed
          events,      \* channels whose voice event has not been handled yet
          armed,       \* debounceTimers: the keys of the timers that run
          pc,          \* where a run is
          left,        \* what a run has still to probe or to install
          snap,        \* what a run has probed
          mu,          \* the run that holds Router.mu in applyModes
          closed,      \* Router.closed
          activeMode, activeUsers,
          held,        \* users whose mixer inputs activeTeardown removes
          published,   \* the FanoutInstall on each source's handle
          bound,       \* users with an input in the mixers the source feeds
          wanted,      \* destinations the last applyModes wants to run
          capturing    \* the sources the capture observer was told are live

envVars == <<env, place, role, peers, changes>>
runVars == <<pc, left, snap>>
slotVars == <<activeMode, activeUsers, held, published, bound>>
vars == <<env, place, role, peers, changes, events, armed, pc, left, snap, mu, closed,
          activeMode, activeUsers, held, published, bound, wanted, capturing,
          paused, heard, claim, watch>>

Steps == {"unborn", "begin", "callers", "listeners", "relay", "pause",
          "install", "notify", "schedule", "done"}
Nothing == [mode |-> "off", users |-> {}]
Snapshots == [users : [Sources -> SUBSET Humans], listening : SUBSET Played,
              fed : SUBSET Played]
NoSnapshot == [users |-> [s \in Sources |-> {}], listening |-> {}, fed |-> {}]

TypeOK ==
    /\ WatcherTypeOK
    /\ env \in Environments
    /\ place \in [Humans -> Channels \cup {Nobody}]
    /\ role \subseteq Humans
    /\ peers \in BOOLEAN
    /\ changes \in 0..MaxChanges
    /\ events \subseteq Channels
    /\ armed \subseteq Keys
    /\ pc \in [Runs -> Steps]
    /\ left \in [Runs -> SUBSET Channels]
    /\ snap \in [Runs -> Snapshots]
    /\ mu \in Runs \cup {Nobody}
    /\ closed \in BOOLEAN
    /\ activeMode \in [Sources -> RouteModes]
    /\ activeUsers \in [Sources -> SUBSET Humans]
    /\ held \in [Sources -> SUBSET Humans]
    /\ published \in [Sources -> [mode : RouteModes, users : SUBSET Humans]]
    /\ bound \in [Sources -> SUBSET Humans]
    /\ wanted \subseteq Dests
    /\ capturing \subseteq Sources

\* The session has been committed: humans are wherever they are, nothing is
\* installed, the mixers run and the pipeline's start is about to recompute.
Init ==
    /\ WatcherInit
    /\ env \in Environments
    /\ place \in [Humans -> Channels \cup {Nobody}]
    /\ \A h \in Humans \ env.humans : place[h] = Nobody
    /\ role = Bearers
    /\ peers = FALSE
    /\ changes = 0
    /\ events = {}
    /\ armed = {}
    /\ pc = [r \in Runs |-> IF r = Boot THEN "begin" ELSE "unborn"]
    /\ left = [r \in Runs |-> {}]
    /\ snap = [r \in Runs |-> NoSnapshot]
    /\ mu = Nobody
    /\ closed = FALSE
    /\ activeMode = [s \in Sources |-> "off"]
    /\ activeUsers = [s \in Sources |-> {}]
    /\ held = [s \in Sources |-> {}]
    /\ published = [s \in Sources |-> Nothing]
    /\ bound = [s \in Sources |-> {}]
    /\ wanted = Dests
    /\ capturing = {}

-----------------------------------------------------------------------------
(* The voice caches and the relay session *)

\* cacheVoiceProbe
EnumerateCallers(s) == {h \in role : place[h] = s}
HasListeners(d) == \E h \in Humans : place[h] = d

Changed == changes < MaxChanges /\ changes' = changes + 1

\* A human joins, leaves or moves; the handler nudges both channels.
Move(h, to) ==
    /\ Changed
    /\ h \in env.humans /\ to # place[h]
    /\ events' = events \cup ({place[h], to} \ {Nobody})
    /\ place' = [place EXCEPT ![h] = to]
    /\ UNCHANGED <<env, role, peers, armed, runVars, mu, closed, slotVars, wanted,
                   capturing, mixerVars, watcherVars>>

\* NotifyMemberUpdate: a role is granted or taken.
RoleChange(h) ==
    /\ Changed
    /\ h \in env.humans
    /\ role' = IF h \in role THEN role \ {h} ELSE role \cup {h}
    /\ events' = events \cup ({place[h]} \ {Nobody})
    /\ UNCHANGED <<env, place, peers, armed, runVars, mu, closed, slotVars, wanted,
                   capturing, mixerVars, watcherVars>>

Spawn(r) ==
    /\ pc[r] = "unborn"
    /\ Cardinality({q \in Runs : pc[q] # "unborn"}) =< env.further
    /\ pc' = [pc EXCEPT ![r] = "begin"]
    /\ UNCHANGED <<left, snap>>

\* Another guild attaches to the session, starts to capture or leaves: the
\* observer is Recompute itself, on a new goroutine and without a debounce.
Membership(r) ==
    /\ Changed
    /\ peers' \in BOOLEAN
    /\ Spawn(r)
    /\ UNCHANGED <<env, place, role, events, armed, mu, closed, slotVars, wanted,
                   capturing, mixerVars, watcherVars>>

-----------------------------------------------------------------------------
(* Timers *)

\* Debounce: a timer in the map is reset, else a new one is made.
Debounce(k) ==
    /\ mu = Nobody
    /\ k \in events
    /\ events' = events \ {k}
    /\ armed' = armed \cup {k}
    /\ UNCHANGED <<envVars, runVars, mu, closed, slotVars, wanted, capturing,
                   mixerVars, watcherVars>>

\* The callback deletes its map entry and goes on to recompute.  Its wait for
\* the lock is part of the step: a Debounce within that wait would reset the
\* timer that has fired and only add one more recomputation.
TimerFires(k, r) ==
    /\ mu = Nobody
    /\ k \in armed
    /\ armed' = armed \ {k}
    /\ Spawn(r)
    /\ UNCHANGED <<envVars, events, mu, closed, slotVars, wanted, capturing,
                   mixerVars, watcherVars>>

-----------------------------------------------------------------------------
(* Recompute *)

Enter(r, step, S) ==
    /\ pc' = [pc EXCEPT ![r] = step]
    /\ left' = [left EXCEPT ![r] = S]

\* One thing done; the last one leads on to the next step.
Advance(r, x, step, S) ==
    LET rest == left[r] \ {x} IN
    IF rest = {} THEN Enter(r, step, S) ELSE Enter(r, pc[r], rest)

UnderWay(r) == pc[r] \notin {"unborn", "begin", "done"}

\* A closed router is left alone.
Begin(r) ==
    /\ pc[r] = "begin"
    /\ mu = Nobody
    /\ env.overlap \/ \A q \in Runs : ~UnderWay(q)
    /\ IF closed THEN Enter(r, "done", {}) ELSE Enter(r, "callers", Sources)
    /\ UNCHANGED <<envVars, events, armed, snap, mu, closed, slotVars,
                   wanted, capturing, mixerVars, watcherVars>>

\* The probes, one cache lookup at a time and without the lock.
ProbeCallers(r, s) ==
    /\ pc[r] = "callers" /\ s \in left[r]
    /\ snap' = [snap EXCEPT ![r].users[s] = EnumerateCallers(s)]
    /\ Advance(r, s, "listeners", Played)
    /\ UNCHANGED <<envVars, events, armed, mu, closed, slotVars, wanted,
                   capturing, mixerVars, watcherVars>>

ProbeListeners(r, d) ==
    /\ pc[r] = "listeners" /\ d \in left[r]
    /\ snap' = [snap EXCEPT ![r].listening = IF HasListeners(d) THEN @ \cup {d} ELSE @]
    /\ Advance(r, d, "relay", Played)
    /\ UNCHANGED <<envVars, events, armed, mu, closed, slotVars, wanted,
                   capturing, mixerVars, watcherVars>>

ProbeRelay(r, d) ==
    /\ pc[r] = "relay" /\ d \in left[r]
    /\ snap' = [snap EXCEPT ![r].fed = IF peers THEN @ \cup {d} ELSE @]
    /\ Advance(r, d, "pause", {})
    /\ UNCHANGED <<envVars, events, armed, mu, closed, slotVars, wanted,
                   capturing, mixerVars, watcherVars>>

\* computeRoutes, which Cascade shows to be RouteOf and MixingDests.
Counts(r) == [s \in Sources |-> Cardinality(snap[r].users[s])]
ModeFor(r, s) == RouteOf(s, FedBy, Counts(r), snap[r].fed)

\* setDestPaused: the mixers that should run.
ShouldRun(r) ==
    {d \in MixingDests(FedBy, Counts(r), snap[r].fed) :
        d = RelayDest \/ d \in snap[r].listening}

\* Mutant: the mixers are paused and resumed in one go, before the installs.
ApplyPauseAndResume(r) ==
    /\ pc[r] = "pause"
    /\ mu = Nobody
    /\ mu' = r
    /\ wanted' = ShouldRun(r)
    /\ SetPaused(Dests \ ShouldRun(r), ShouldRun(r))
    /\ Enter(r, "install", Sources)
    /\ UNCHANGED <<envVars, events, armed, snap, closed, slotVars,
                   capturing, watcherVars>>

\* applyModes takes the lock and pauses first.
ApplyPause(r) ==
    /\ pc[r] = "pause"
    /\ mu = Nobody
    /\ mu' = r
    /\ wanted' = ShouldRun(r)
    /\ SetPaused(Dests \ ShouldRun(r), {})
    /\ Enter(r, "install", Sources)
    /\ UNCHANGED <<envVars, events, armed, snap, closed, slotVars,
                   capturing, watcherVars>>

\* Mutant: users that come and go within mix mode are not noticed.
NeedsInstallOnMode(s, mode, users) == activeMode[s] # mode

NeedsInstall(s, mode, users) ==
    activeMode[s] # mode \/ (mode = "mix" /\ activeUsers[s] # users)

\* Mutant: the previous install's inputs stay in the mixers.
TornDownNot(s) == bound[s]

\* The inputs of s in the mixers once its activeTeardown has run.
TornDown(s) == bound[s] \ held[s]

\* One source's turn: teardown, BuildInstall, Handle.Install.
ApplyInstall(r, s) ==
    LET mode == ModeFor(r, s)
        users == snap[r].users[s]
        mixed == IF mode = "mix" THEN users ELSE {}
    IN
    /\ pc[r] = "install" /\ s \in left[r]
    /\ left' = [left EXCEPT ![r] = @ \ {s}]
    /\ \/ /\ ~NeedsInstall(s, mode, users)
          /\ UNCHANGED slotVars
       \/ /\ NeedsInstall(s, mode, users)
          /\ bound' = [bound EXCEPT ![s] = TornDown(s) \cup mixed]
          /\ held' = [held EXCEPT ![s] = mixed]
          /\ published' = [published EXCEPT ![s] = [mode |-> mode, users |-> mixed]]
          /\ activeUsers' = [activeUsers EXCEPT ![s] = mixed]
          /\ activeMode' = [activeMode EXCEPT ![s] = mode]
    /\ UNCHANGED <<envVars, events, armed, pc, snap, mu, closed, wanted,
                   capturing, mixerVars, watcherVars>>

ApplyResume(r) ==
    /\ pc[r] = "install" /\ left[r] = {}
    /\ SetPaused({}, wanted)
    /\ mu' = Nobody
    /\ Enter(r, "notify", {})
    /\ UNCHANGED <<envVars, events, armed, snap, closed, slotVars, wanted,
                   capturing, watcherVars>>

\* notifyCapture; the pipeline's start then asks for one more look later.
NotifyCapture(r) ==
    /\ pc[r] = "notify"
    /\ mu = Nobody
    /\ capturing' = IF closed THEN capturing
                    ELSE {s \in Sources : ModeFor(r, s) # "off"}
    /\ Enter(r, IF r = Boot THEN "schedule" ELSE "done", {})
    /\ snap' = [snap EXCEPT ![r] = NoSnapshot]
    /\ UNCHANGED <<envVars, events, armed, mu, closed, slotVars,
                   wanted, mixerVars, watcherVars>>

ScheduleRecompute ==
    /\ pc[Boot] = "schedule"
    /\ mu = Nobody
    /\ armed' = IF closed THEN armed ELSE armed \cup {"later"}
    /\ Enter(Boot, "done", {})
    /\ UNCHANGED <<envVars, events, snap, mu, closed, slotVars, wanted,
                   capturing, mixerVars, watcherVars>>

Close ==
    /\ ~closed
    /\ mu = Nobody
    /\ closed' = TRUE
    /\ armed' = {}
    /\ published' = [s \in Sources |-> Nothing]
    /\ bound' = [s \in Sources |-> TornDown(s)]
    /\ held' = [s \in Sources |-> {}]
    /\ UNCHANGED <<envVars, events, runVars, mu, activeMode, activeUsers,
                   wanted, capturing, mixerVars, watcherVars>>

-----------------------------------------------------------------------------
(* The specification *)

\* What can put frames into a mixer: a bound user, or the relay.
HasInput(d) == (peers /\ d # RelayDest) \/ \E s \in FedBy[d] : bound[s] # {}

TimePasses == env.overlap \/ \A r \in Runs : ~UnderWay(r) /\ pc[r] # "begin"

Watcher(d) ==
    /\ \/ HasInput(d) /\ Hears(d)
       \/ TimePasses /\ FallsQuiet(d)
       \/ WatchLook(d, peers)
       \/ WatchAct(d)
    /\ UNCHANGED <<envVars, events, armed, runVars, mu, closed, slotVars, wanted,
                   capturing>>

Environment ==
    \/ \E h \in Humans : RoleChange(h) \/ \E to \in Channels \cup {Nobody} : Move(h, to)
    \/ \E r \in Runs : Membership(r)

Timers ==
    \/ \E k \in Channels : Debounce(k)
    \/ \E k \in Keys, r \in Runs : TimerFires(k, r)

Recompute(r) ==
    \/ Begin(r)
    \/ \E s \in Sources : ProbeCallers(r, s) \/ ApplyInstall(r, s)
    \/ \E d \in Played : ProbeListeners(r, d) \/ ProbeRelay(r, d)
    \/ ApplyPause(r) \/ ApplyResume(r) \/ NotifyCapture(r)

Next ==
    \/ Environment \/ Timers \/ ScheduleRecompute \/ Close
    \/ \E r \in Runs : Recompute(r)
    \/ \E d \in env.watched : Watcher(d)

Spec == Init /\ [][Next]_vars

-----------------------------------------------------------------------------
(* Properties *)

\* A copy-mode source writes raw Opus itself, so it is never published while a
\* mixer can emit into the same outputs, not even while a recomputation is half
\* applied; and between two applications it is the only such writer.  Where a
\* drain watcher runs it can lift the router's pause (RouterPauseHolds).
NoTwoWriters ==
    env.watched = {} =>
        \A d \in Dests : \A s \in FedBy[d] : published[s].mode = "copy" =>
            /\ d \in paused
            /\ mu = Nobody =>
                  \A t \in FedBy[d] \ {s} : published[t].mode = "off"

\* The mixers hold an input for exactly the users whose frames are decoded into
\* them: no input outlives its install and none is missing, through any
\* sequence of recomputations and a Close between them.
InputsMatch ==
    \A s \in Sources : bound[s] = published[s].users

\* Nothing is under way and nothing is due.
Settled ==
    /\ events = {} /\ armed = {}
    /\ \A r \in Runs : pc[r] \in {"unborn", "done"}

CurrentCounts == [s \in Sources |-> Cardinality(EnumerateCallers(s))]
CurrentFed == IF peers THEN Played ELSE {}

\* No voice event, role change or relay change is lost, whenever it comes: once
\* the router is at rest the routes, the decoded users, the mixers it wants and
\* the capture state it reported are those of the caches as they are now.
Converged ==
    Settled /\ ~closed /\ ~env.overlap =>
        /\ \A s \in Sources :
              LET mode == RouteOf(s, FedBy, CurrentCounts, CurrentFed) IN
              /\ published[s].mode = mode
              /\ mode = "mix" => published[s].users = EnumerateCallers(s)
              /\ s \in capturing <=> mode # "off"
        /\ wanted = {d \in MixingDests(FedBy, CurrentCounts, CurrentFed) :
                        d = RelayDest \/ HasListeners(d)}

\* A mixer the router wants to run stands still only by the doing of its
\* watcher, which then knows it and lifts the pause when audio returns.
ParkedOnlyByWatcher ==
    mu = Nobody => \A d \in paused \cap wanted : d \in claim

\* A mixer the router decided to pause stays paused: "a router pause stays put
\* no matter how busy the inputs are" (DrainWatcher.step).
RouterPauseHolds ==
    mu = Nobody /\ pc[Boot] = "done" => Dests \ wanted \subseteq paused

\* Relay-fed destinations with a listener run while another guild captures
\* (WatchRelayMembership: they "unpause as soon as a peer guild joins").
RelayIsHeard ==
    Settled /\ ~closed /\ peers =>
        \A d \in Played : HasListeners(d) => d \notin paused

\* A closed router writes nothing: every handle has the empty install.
ClosedIsSilent == closed => \A s \in Sources : published[s] = Nothing
=============================================================================
