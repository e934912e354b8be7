---------------------------- MODULE DrainWatcher ----------------------------
(***************************************************************************)
(* The pause switch of the destination mixers and the goroutine per mixer  *)
(* that parks it when no audio arrives (internal/opus/drain.go and         *)
(* Mixer.SetPaused in internal/opus/mixer.go).  The switch is an atomic    *)
(* flag the router sets too, without a lock between the two: a look of the *)
(* watcher and what it does about it are two steps.                        *)
(***************************************************************************)
CONSTANTS Mixers,    \* the destination mixers
          Watched    \* the mixers a watcher runs for

ASSUME WatchedAreMixers == Watched \subseteq Mixers

VARIABLES paused,    \* Mixer.paused
          heard,     \* mixers whose last activity is younger than the idle time
          claim,     \* watchers with pausedByWatcher set
          watch      \* what a watcher has decided and not yet done

mixerVars == <<paused, heard>>
watcherVars == <<claim, watch>>

WatcherTypeOK ==
    /\ paused \subseteq Mixers
    /\ heard \subseteq Mixers
    /\ claim \subseteq Watched
    /\ watch \in [Watched -> {"rest", "park", "lift"}]

WatcherInit ==
    /\ paused = {}
    /\ heard = Mixers
    /\ claim = {}
    /\ watch = [d \in Watched |-> "rest"]

\* Mixer.SetPaused on several mixers: one that resumes counts as active.
SetPaused(P, R) ==
    /\ paused' = (paused \ R) \cup P
    /\ heard' = heard \cup (R \cap paused)

\* A frame arrived, which a paused mixer records as well; or none did for long.
Hears(d) ==
    /\ d \notin heard
    /\ heard' = heard \cup {d}
    /\ UNCHANGED <<paused, watcherVars>>

FallsQuiet(d) ==
    /\ d \in heard
    /\ heard' = heard \ {d}
    /\ UNCHANGED <<paused, watcherVars>>

\* Mutant: the watcher forgets to claim the pause it makes.
ParksUnclaimed(d) == claim

\* pausedByWatcher after the watcher parked its mixer.
ClaimsPark(d) == claim \cup {d}

\* DrainWatcher.step up to its decision; keepAlive skips it.
WatchLook(d, keepAlive) ==
    /\ watch[d] = "rest"
    /\ ~keepAlive
    /\ \/ /\ d \notin paused
          /\ claim' = claim \ {d}
          /\ watch' = [watch EXCEPT ![d] = IF d \in heard THEN "rest" ELSE "park"]
       \/ /\ d \in paused /\ d \in claim /\ d \in heard
          /\ watch' = [watch EXCEPT ![d] = "lift"]
          /\ UNCHANGED claim
    /\ UNCHANGED mixerVars

\* The rest of DrainWatcher.step.
WatchAct(d) ==
    /\ \/ /\ watch[d] = "park"
          /\ SetPaused({d}, {})
          /\ claim' = ClaimsPark(d)
       \/ /\ watch[d] = "lift"
          /\ SetPaused({}, {d})
          /\ claim' = claim \ {d}
    /\ watch' = [watch EXCEPT ![d] = "rest"]
=============================================================================
