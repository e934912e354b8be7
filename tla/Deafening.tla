----------------------------- MODULE Deafening -----------------------------
(***************************************************************************)
(* The server-deaf flag of the bots of one raid (speaker_deafen.go).       *)
(*                                                                         *)
(* Every bot that joins voice has its flag reconciled with the raid mode;  *)
(* from then on a deafController drives it: the router reports which bots  *)
(* are live capture sources (Observe), a bot that is one must hear at      *)
(* once, a bot that is not is deafened after a delay, and a refused change *)
(* is retried on a timer.  The changes are REST calls of goroutines of     *)
(* their own, so reports, answers, timers and the teardown interleave.     *)
(* Discord (the member flag, its voice-state events and the owner's cache  *)
(* of them) is external.                                                   *)
(***************************************************************************)
EXTENDS Naturals, Sequences, FiniteSets

CONSTANTS
    Bots,            \* the bots of the raid
    Owner,           \* the owner bot, one of them
    DeafRetryLimit,  \* deafRetryLimit
    MaxObserves,     \* bound: how many reports the router makes
    MaxFaults,       \* bound: how many changes are refused for a passing reason
    MaxLate,         \* bound: fired timer callbacks still waiting for the lock
    Environments     \* the circumstances the raid may run under: records of
                     \*   lag: voice-state events that may be on their way to
                     \*        the cache (0: it follows the flag at once)
                     \*   faulty: the callers whose change may be refused
                     \*   revoke: the permission may be taken away
                     \*   preempt: a goroutine may be suspended between setting
                     \*        inFlight and counting itself into applying
                     \*   timeOut: a context of the teardown may run out

\* The callers of ensureSpeakerDeaf on behalf of one bot: the join, the
\* apply goroutines of the controller, its Close, and the speaker's cleanup.
Workers == {"apply1", "apply2"}
Roles == Workers \cup {"join", "close", "undo"}

ASSUME DeafAssumption ==
    /\ Owner \in Bots
    /\ DeafRetryLimit \in Nat \ {0}
    /\ {MaxObserves, MaxFaults, MaxLate} \subseteq Nat
    /\ Environments \subseteq [lag : Nat, faulty : SUBSET Roles, revoke : BOOLEAN,
                               preempt : BOOLEAN, timeOut : BOOLEAN]

VARIABLES
    flag,      \* Discord: the member's server-deaf flag
    voice,     \* Discord: the bot is in a voice channel
    allowed,   \* Discord: the owner bot may deafen
    cache,     \* the owner client's cached GuildDeaf: {} on a miss
    events,    \* voice-state events on their way to that cache
    env,       \* the circumstances
    capture,   \* whether the bot captures in this raid's mode
    mem,       \* deafController.members
    closed, disabled,
    call,      \* the calls of ensureSpeakerDeaf
    stage,     \* how far the bot is in the raid
    undo,      \* SpeakerResult.Undeafen is set
    closing,   \* how far SpeakerCleanup has come
    restore,   \* the bots Close still has to undeafen
    observes, faults

discord == <<flag, voice, allowed, cache, events>>
control == <<mem, closed, disabled>>
raid == <<env, capture, stage, undo, closing, restore>>
bounds == <<observes, faults>>
vars == <<discord, control, call, raid, bounds>>

Idle == [pc |-> "idle", want |-> FALSE]
Called(w) == [pc |-> "check", want |-> w]

\* deafMember.  in: the bot is registered; timer: the pending delayed change,
\* running or fired with its callback waiting for the lock; late: callbacks
\* of timers the member no longer holds.
NewMember(reg, d) ==
    [in |-> reg, deaf |-> d, want |-> d, inFlight |-> FALSE, timer |-> "none",
     late |-> 0, failures |-> 0, rejected |-> FALSE]

Init ==
    /\ flag \in [Bots -> BOOLEAN]      \* an earlier session may have left it set
    /\ voice = [b \in Bots |-> FALSE]
    /\ allowed = TRUE
    /\ cache = [b \in Bots |-> {}]
    /\ events = [b \in Bots |-> <<>>]
    \* A host's owner always captures, a guest's does when its speakers do.
    /\ \E speakers, owner \in BOOLEAN :
         /\ speakers => owner
         /\ capture = [b \in Bots |-> IF b = Owner THEN owner ELSE speakers]
    /\ mem = [b \in Bots |-> NewMember(FALSE, FALSE)]
    /\ closed = FALSE
    /\ disabled = FALSE
    /\ call = [b \in Bots |-> [r \in Roles |-> Idle]]
    /\ stage = [b \in Bots |-> "out"]
    /\ undo = [b \in Bots |-> FALSE]
    /\ closing = "open"
    /\ restore = {}
    /\ env \in Environments
    /\ observes = 0
    /\ faults = 0

---------------------------------------------------------------------------
(* Discord and the owner client's cache *)

\* The VOICE_STATE_UPDATE a join, a leave or a changed flag produces.
Publish(b, v) ==
    IF env.lag = 0
      THEN cache' = [cache EXCEPT ![b] = v] /\ UNCHANGED events
      ELSE events' = [events EXCEPT ![b] = Append(@, v)] /\ UNCHANGED cache

Room(b) == env.lag = 0 \/ Len(events[b]) < env.lag

CacheRefreshed(b) ==
    /\ events[b] # <<>>
    /\ cache' = [cache EXCEPT ![b] = Head(events[b])]
    /\ events' = [events EXCEPT ![b] = Tail(@)]
    /\ UNCHANGED <<flag, voice, allowed, control, call, raid, bounds>>

Revoke ==
    /\ env.revoke /\ allowed
    /\ allowed' = FALSE
    /\ UNCHANGED <<flag, voice, cache, events, control, call, raid, bounds>>

---------------------------------------------------------------------------
(* ensureSpeakerDeaf *)

Goto(b, r, pc) == call' = [call EXCEPT ![b][r].pc = pc]

\* The cached voice state is looked at, and a hit ends the call.
CheckCache(b, r) ==
    /\ call[b][r].pc = "check"
    /\ Goto(b, r, IF cache[b] = {call[b][r].want} THEN "ok" ELSE "sent")
    /\ UNCHANGED <<discord, control, raid, bounds>>

\* The PATCH reaches Discord, which sets the flag.
PatchLands(b, r) ==
    /\ call[b][r].pc = "sent"
    /\ allowed /\ voice[b] /\ Room(b)
    /\ flag' = [flag EXCEPT ![b] = call[b][r].want]
    /\ Publish(b, {call[b][r].want})
    /\ Goto(b, r, "ok")
    /\ UNCHANGED <<voice, allowed, control, raid, bounds>>

\* Discord refuses: the member is not in voice, or something passing.
PatchRejected(b, r) ==
    /\ call[b][r].pc = "sent"
    /\ allowed
    /\ \/ ~voice[b] /\ UNCHANGED bounds
       \/ /\ voice[b]
          /\ r \in env.faulty /\ faults < MaxFaults
          /\ faults' = faults + 1
          /\ UNCHANGED observes
    /\ Goto(b, r, "rejected")
    /\ UNCHANGED <<discord, control, raid>>

PatchForbidden(b, r) ==
    /\ call[b][r].pc = "sent"
    /\ ~allowed
    /\ Goto(b, r, "forbidden")
    /\ UNCHANGED <<discord, control, raid, bounds>>

Answered(b, r) == call[b][r].pc \in {"ok", "rejected", "forbidden"}

---------------------------------------------------------------------------
(* deafController *)

StopTimer(m) ==
    [m EXCEPT !.timer = "none",
              !.late = IF m.timer = "fired" THEN @ + 1 ELSE @]

\* reconcileLocked: the member as it leaves it, and whether the caller must
\* run apply(botID, false).  DriveUnlimited and ReconcileInFlightToo are
\* mutants: no retry budget, and no look at inFlight.
Start(m) == [mem |-> [StopTimer(m) EXCEPT !.inFlight = TRUE], go |-> TRUE]
Wait(m) == [mem |-> [m EXCEPT !.timer = IF @ = "none" THEN "armed" ELSE @], go |-> FALSE]
Rest(m) == [mem |-> StopTimer(m), go |-> FALSE]

DriveUnlimited(m, immediate) ==
    CASE m.want = m.deaf -> Rest([m EXCEPT !.failures = 0])
      [] m.want # m.deaf /\ ~m.want /\ immediate -> Start(m)
      [] OTHER -> Wait(m)

Drive(m, immediate) ==
    CASE m.want = m.deaf -> Rest([m EXCEPT !.failures = 0])
      [] m.want # m.deaf /\ m.failures >= DeafRetryLimit -> Rest(m)
      [] m.want # m.deaf /\ m.failures < DeafRetryLimit /\ ~m.want /\ immediate -> Start(m)
      [] OTHER -> Wait(m)

ReconcileInFlightToo(m, immediate) ==
    IF closed \/ disabled THEN [mem |-> m, go |-> FALSE] ELSE Drive(m, immediate)

Reconcile(m, immediate) ==
    IF closed \/ disabled \/ m.inFlight THEN [mem |-> m, go |-> FALSE]
                                        ELSE Drive(m, immediate)

\* Two goroutines are enough: no two change the flag at a time, and those that
\* only have to note a lost permission all do the same.
FreeWorker(b) == IF call[b].apply1.pc = "idle" THEN "apply1" ELSE "apply2"

\* apply: inFlight is set, the goroutine is not yet counted in applying.
Launched(w) == [pc |-> IF env.preempt THEN "launch" ELSE "check", want |-> w]

LaunchApply(b, w) ==
    /\ call[b][w].pc = "launch"
    /\ Goto(b, w, "check")
    /\ UNCHANGED <<discord, control, raid, bounds>>

\* Observe's update of one member, before reconcileLocked; the mutant forgets
\* that the wish has already been refused.
AskedUnpaced(m, want) == [m EXCEPT !.failures = 0, !.rejected = FALSE, !.want = want]

Asked(m, want) ==
    [m EXCEPT !.failures = 0, !.rejected = m.rejected /\ want = m.want, !.want = want]

Observe ==
    /\ observes < MaxObserves
    /\ closing = "open" /\ \A b \in Bots : mem[b].in
    /\ observes' = observes + 1
    /\ \E capturing \in SUBSET Bots :
         LET asked(b) == Asked(mem[b], b \notin capturing)
             rec(b) == Reconcile(asked(b), ~asked(b).rejected)
         IN IF closed \/ disabled
              THEN UNCHANGED <<mem, call>>
              ELSE /\ mem' = [b \in Bots |-> rec(b).mem]
                   /\ call' = [b \in Bots |->
                        IF rec(b).go
                          THEN [call[b] EXCEPT ![FreeWorker(b)] = Launched(FALSE)]
                          ELSE call[b]]
    /\ UNCHANGED <<discord, closed, disabled, raid, faults>>

TimerFires(b) ==
    /\ mem[b].timer = "armed" /\ mem[b].late < MaxLate
    /\ mem' = [mem EXCEPT ![b].timer = "fired"]
    /\ UNCHANGED <<discord, closed, disabled, call, raid, bounds>>

\* applyAfterDelay, run by the callback of the timer the member holds (own) or
\* by one that fired just before it was stopped.  The latter may take the
\* place of a later timer, which then runs on without the member.
ApplyAfterDelay(b) ==
    /\ \E own \in BOOLEAN :
         LET m == IF own THEN mem[b] ELSE [mem[b] EXCEPT !.late = @ - 1]
             taken == [m EXCEPT !.timer = "none", !.late = IF own THEN @ ELSE @ + 1]
         IN /\ IF own THEN mem[b].timer = "fired" ELSE mem[b].late > 0
            /\ IF closed \/ disabled \/ m.inFlight \/ m.timer = "none"
                 THEN mem' = [mem EXCEPT ![b] = m] /\ UNCHANGED call
                 ELSE IF m.want = m.deaf
                   THEN mem' = [mem EXCEPT ![b] = taken] /\ UNCHANGED call
                   ELSE /\ mem' = [mem EXCEPT ![b] = [taken EXCEPT !.inFlight = TRUE]]
                        /\ call' = [call EXCEPT ![b][FreeWorker(b)] = Launched(m.want)]
    /\ UNCHANGED <<discord, closed, disabled, raid, bounds>>

\* The rest of the apply goroutine: record the answer, then look at what the
\* router wants by now (the mutant does not look).
ApplyNoReread(b, w) ==
    /\ Answered(b, w)
    /\ LET ok == call[b][w].pc = "ok"
           m == [mem[b] EXCEPT !.inFlight = FALSE, !.rejected = ~ok]
       IN /\ mem' = [mem EXCEPT ![b] =
               IF ok THEN [m EXCEPT !.deaf = call[b][w].want, !.failures = 0]
                     ELSE [m EXCEPT !.failures = @ + 1]]
          /\ call' = [call EXCEPT ![b][w] = Idle]
    /\ UNCHANGED <<discord, closed, disabled, raid, bounds>>

ApplyAnswered(b, w) ==
    /\ Answered(b, w)
    /\ LET ok == call[b][w].pc = "ok"
           m == [mem[b] EXCEPT !.inFlight = FALSE, !.rejected = ~ok,
                               !.deaf = IF ok THEN call[b][w].want ELSE @,
                               !.failures = IF ok THEN 0 ELSE @ + 1]
           rec == Reconcile(m, ok)
       IN /\ mem' = [mem EXCEPT ![b] = rec.mem]
          /\ call' = [call EXCEPT ![b][w] =
               CASE rec.go -> Called(FALSE)
                 [] call[b][w].pc = "forbidden" -> [@ EXCEPT !.pc = "note"]
                 [] OTHER -> Idle]
    /\ UNCHANGED <<discord, closed, disabled, raid, bounds>>

\* noteError on a refusal for lack of permission latches the controller off.
Disable ==
    /\ disabled' = TRUE
    /\ mem' = IF disabled THEN mem ELSE [b \in Bots |-> StopTimer(mem[b])]

\* The mutant returns without applying.Done.
NoteErrorHolds(b, w) ==
    /\ call[b][w].pc = "note"
    /\ Disable
    /\ UNCHANGED <<discord, closed, call, raid, bounds>>

NoteError(b, w) ==
    /\ call[b][w].pc = "note"
    /\ Disable
    /\ call' = [call EXCEPT ![b][w] = Idle]
    /\ UNCHANGED <<discord, closed, raid, bounds>>

---------------------------------------------------------------------------
(* The join: reconcileSpeakerDeaf, then Register *)

Join(b) ==
    /\ stage[b] = "out" /\ closing = "open"
    /\ b = Owner => \A o \in Bots \ {Owner} : stage[o] = "in"
    /\ Room(b)
    /\ stage' = [stage EXCEPT ![b] = "joining"]
    /\ voice' = [voice EXCEPT ![b] = TRUE]
    /\ Publish(b, {flag[b]})
    /\ call' = [call EXCEPT ![b].join = Called(~capture[b])]
    /\ UNCHANGED <<flag, allowed, control, env, capture, undo, closing, restore, bounds>>

JoinRefused(b) ==
    /\ call[b].join.pc = "forbidden"
    /\ Disable
    /\ Goto(b, "join", "rejected")
    /\ UNCHANGED <<discord, closed, raid, bounds>>

\* A bot that captures is enrolled as hearing, one that does not as deafened
\* if the call succeeded; only then has a speaker something to undo.
JoinDone(b) ==
    /\ call[b].join.pc \in {"ok", "rejected"}
    /\ LET deafened == ~capture[b] /\ call[b].join.pc = "ok"
       IN /\ mem' = [mem EXCEPT ![b] = NewMember(TRUE, deafened)]
          /\ undo' = [undo EXCEPT ![b] = deafened /\ b # Owner]
    /\ stage' = [stage EXCEPT ![b] = "in"]
    /\ call' = [call EXCEPT ![b].join = Idle]
    /\ UNCHANGED <<discord, closed, disabled, env, capture, closing, restore, bounds>>

---------------------------------------------------------------------------
(* The teardown: Close, then every speaker's cleanup and leave *)

\* The speakers have joined; the owner may have failed to, or not be there yet.
Close ==
    /\ closing = "open"
    /\ \A b \in Bots \ {Owner} : stage[b] = "in"
    /\ stage[Owner] # "joining"
    /\ closing' = "waiting"
    /\ closed' = TRUE
    /\ mem' = [b \in Bots |-> StopTimer(mem[b])]
    /\ UNCHANGED <<discord, disabled, call, env, capture, stage, undo, restore, bounds>>

\* The goroutines counted in applying.
Applying == {p \in Bots \X Workers : call[p[1]][p[2]].pc \notin {"idle", "launch"}}

Snapshot ==
    /\ closing' = "restoring"
    /\ restore' = {b \in Bots : mem[b].deaf}
    /\ UNCHANGED <<discord, control, call, env, capture, stage, undo, bounds>>

\* The mutant does not wait for the goroutines in flight.
CloseWaitless == closing = "waiting" /\ Snapshot

CloseWaited == closing = "waiting" /\ Applying = {} /\ Snapshot

CloseTimedOut == env.timeOut /\ closing = "waiting" /\ Applying # {} /\ Snapshot

CloseRestores(b) ==
    /\ closing = "restoring" /\ b \in restore
    /\ \A o \in Bots : call[o].close = Idle
    /\ restore' = restore \ {b}
    /\ call' = [call EXCEPT ![b].close = Called(FALSE)]
    /\ UNCHANGED <<discord, control, env, capture, stage, undo, closing, bounds>>

CloseAnswered(b) ==
    /\ Answered(b, "close")
    /\ call' = [call EXCEPT ![b].close = Idle]
    /\ UNCHANGED <<discord, control, raid, bounds>>

CloseReturns ==
    /\ closing = "restoring" /\ restore = {}
    /\ \A b \in Bots : call[b].close = Idle
    /\ closing' = "cleanup"
    /\ UNCHANGED <<discord, control, call, env, capture, stage, undo, restore, bounds>>

UndeafenSpeaker(b) ==
    /\ closing = "cleanup" /\ stage[b] = "in" /\ undo[b] /\ call[b].undo = Idle
    /\ undo' = [undo EXCEPT ![b] = FALSE]
    /\ call' = [call EXCEPT ![b].undo = Called(FALSE)]
    /\ UNCHANGED <<discord, control, env, capture, stage, closing, restore, bounds>>

LeaveVoice(b) ==
    /\ closing = "cleanup" /\ stage[b] = "in" /\ ~undo[b]
    /\ call[b].undo = Idle \/ Answered(b, "undo")
    /\ Room(b)
    /\ stage' = [stage EXCEPT ![b] = "left"]
    /\ voice' = [voice EXCEPT ![b] = FALSE]
    /\ Publish(b, {})
    /\ call' = [call EXCEPT ![b].undo = Idle]
    /\ UNCHANGED <<flag, allowed, control, env, capture, undo, closing, restore, bounds>>

\* The undeafen has used up the cleanup's context: the leave that follows is
\* dropped before it reaches Discord.
LeavesTooLate(b) ==
    /\ env.timeOut
    /\ closing = "cleanup" /\ stage[b] = "in" /\ ~undo[b] /\ Answered(b, "undo")
    /\ stage' = [stage EXCEPT ![b] = "left"]
    /\ call' = [call EXCEPT ![b].undo = Idle]
    /\ UNCHANGED <<discord, control, env, capture, undo, closing, restore, bounds>>

---------------------------------------------------------------------------
BotStep(b) ==
    \/ \E r \in Roles : \/ CheckCache(b, r) \/ PatchLands(b, r)
                        \/ PatchRejected(b, r) \/ PatchForbidden(b, r)
    \/ \E w \in Workers : LaunchApply(b, w) \/ ApplyAnswered(b, w) \/ NoteError(b, w)
    \/ CacheRefreshed(b)
    \/ TimerFires(b) \/ ApplyAfterDelay(b)
    \/ JoinRefused(b) \/ JoinDone(b)
    \/ CloseRestores(b) \/ CloseAnswered(b)
    \/ UndeafenSpeaker(b) \/ LeaveVoice(b) \/ LeavesTooLate(b)

Next ==
    \/ \E b \in Bots : BotStep(b) \/ Join(b)
    \/ Observe \/ Revoke \/ Close
    \/ CloseWaited \/ CloseTimedOut \/ CloseReturns

Spec == Init /\ [][Next]_vars

\* A started goroutine, call or timer runs on, Discord answers and publishes,
\* and a teardown that has begun is carried through.
FairSpec ==
    /\ Spec
    /\ WF_vars(CloseWaited \/ CloseReturns)
    /\ \A b \in Bots : WF_vars(BotStep(b))

---------------------------------------------------------------------------
Calls == [pc : {"idle", "launch", "check", "sent", "ok", "rejected", "forbidden", "note"},
          want : BOOLEAN]

Members ==
    [in : BOOLEAN, deaf : BOOLEAN, want : BOOLEAN, inFlight : BOOLEAN,
     timer : {"none", "armed", "fired"}, late : 0 .. MaxLate,
     failures : 0 .. DeafRetryLimit, rejected : BOOLEAN]

\* The variables have their types; a member never exceeds its retry budget
\* (deafRetryLimit), which every report of the router restores.
TypeOK ==
    /\ flag \in [Bots -> BOOLEAN] /\ voice \in [Bots -> BOOLEAN]
    /\ allowed \in BOOLEAN
    /\ cache \in [Bots -> SUBSET BOOLEAN]
    /\ \A b \in Bots : events[b] \in Seq(SUBSET BOOLEAN)
    /\ capture \in [Bots -> BOOLEAN]
    /\ mem \in [Bots -> Members]
    /\ closed \in BOOLEAN /\ disabled \in BOOLEAN
    /\ call \in [Bots -> [Roles -> Calls]]
    /\ stage \in [Bots -> {"out", "joining", "in", "left"}]
    /\ undo \in [Bots -> BOOLEAN]
    /\ closing \in {"open", "waiting", "restoring", "cleanup"}
    /\ restore \subseteq Bots /\ env \in Environments
    /\ observes \in 0 .. MaxObserves /\ faults \in 0 .. MaxFaults

\* However reports, timers, late timer callbacks and answers interleave, a bot
\* has at most one apply goroutine changing its flag: inFlight covers the time
\* from the decision to the answer (speaker_deafen.go:190-193).
OneChangeAtATime ==
    \A b \in Bots :
      Cardinality({w \in Workers : call[b][w].pc \in {"launch", "check", "sent", "ok",
                                                      "rejected", "forbidden"}}) <= 1

\* Nothing more will happen to b's flag on the controller's own account.
Settled(b) ==
    /\ stage[b] = "in" /\ closing = "open" /\ ~disabled
    /\ \A r \in Roles : call[b][r] = Idle
    /\ mem[b].timer = "none" /\ events[b] = <<>>

\* A bot at rest has the flag the router last asked for, unless the change was
\* refused deafRetryLimit times: a wish that arrives while a change is in
\* flight, or while a refused one waits for its retry, is never forgotten
\* (speaker_deafen.go:183-188).
WishGranted(b) ==
    Settled(b) /\ mem[b].failures < DeafRetryLimit => flag[b] = mem[b].want

\* WishGranted holds of every bot if the cache is current whenever it is
\* consulted and no join-time change is refused.
NoWishForgotten ==
    env.lag = 0 /\ "join" \notin env.faulty /\ ~env.revoke => \A b \in Bots : WishGranted(b)

\* A cache hit is trustworthy (speaker_deafen.go:66-70): WishGranted holds of
\* every bot although voice-state events take their time to reach the cache.
CacheIsTrustworthy == \A b \in Bots : WishGranted(b)

\* A bot that has been through the teardown is not deafened.
FlagUndone(b) == mem[b].in /\ stage[b] = "left" => ~flag[b]

\* The teardown leaves no bot of the raid deafened if Discord accepts the
\* changes of Close, the cache is current, Close may wait as long as it takes
\* and counts every goroutine there is: it undoes what is set and what was
\* being set when it began (speaker_deafen.go:165-169, 425-428).
NoFlagStranded ==
    /\ env.lag = 0 /\ env.faulty \subseteq Workers
    /\ ~env.revoke /\ ~env.timeOut /\ ~env.preempt
    => \A b \in Bots : FlagUndone(b)

\* What holds of the deafening in every state: the types, one change of a bot's
\* flag at a time, no wish of the router forgotten, no flag left set by Close.
DeafeningInv == TypeOK /\ OneChangeAtATime /\ NoWishForgotten /\ NoFlagStranded

\* Close never strands the flag on a member (speaker_deafen.go:425-426).
CloseUndoesAll == \A b \in Bots : FlagUndone(b)

\* A change Discord refused is not asked for again at once: as long as the
\* wish stays the same, its next attempt is the timer's (speaker_deafen.go:259-265).
RetriesArePaced ==
    [][\A b \in Bots :
         /\ mem[b].rejected /\ mem'[b].want = mem[b].want
         /\ \A w \in Workers : call[b][w] = Idle
         /\ \E w \in Workers : call'[b][w] # Idle
         => mem[b].timer = "fired" \/ mem[b].late > 0]_vars

\* Every bot comes to rest at what the router asked for, or the change was
\* refused for good, or the cache misled it.
ComesToRest ==
    \A b \in Bots : <>[](\/ closing # "open" \/ disabled \/ stage[b] # "in"
                         \/ mem[b].failures = DeafRetryLimit
                         \/ mem[b].deaf = mem[b].want)

\* A teardown that begins comes to its end for every bot, and takes it out of
\* voice unless an undeafen uses up the time of the leave behind it.
TeardownEnds ==
    (closing = "waiting") ~>
        (\A b \in Bots : stage[b] \in {"out", "left"} /\ (voice[b] => env.timeOut))
=============================================================================
