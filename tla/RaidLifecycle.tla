--------------------------- MODULE RaidLifecycle ---------------------------
(***************************************************************************)
(* The life of a voice raid: how /start, /start with a relay code, /stop,  *)
(* the idle watcher and the loss of a guild drive the session record, the  *)
(* start guard, the bots' voice connections and the relay registry         *)
(* (internal/manager/voice_raid.go, voice_raid_setup.go, start_guard.go).  *)
(*                                                                         *)
(* A command is one invocation running on its own goroutine.  A command    *)
(* that starts a raid also names the raid: its context, its session, its   *)
(* audio pipeline and, on a host, its relay session.  Each step is what    *)
(* the code does between two points where another goroutine can run: one   *)
(* critical section, or one call to Discord.                               *)
(***************************************************************************)
EXTENDS AllyRegistry

CONSTANTS Speakers,   \* the pool's speaker bots
          Owner,      \* the owner bot
          Silent,     \* in voice, but with no raid's pipeline on the connection
          Offers,     \* the kinds of command that arrive in this instance
          Faults,     \* the failures the environment produces in this instance
          Races       \* the overlaps of commands the operators produce

AllOffers == {"host", "guest", "stop", "idle", "forget"}
AllFaults == {"config", "join", "apply", "build"}
AllRaces == {"startDuringTeardown", "stopDuringStart"}

ASSUME LifecycleConstants ==
    /\ Owner \notin Speakers
    /\ Silent \notin Commands \cup {None}
    /\ Offers \subseteq AllOffers
    /\ Faults \subseteq AllFaults
    /\ Races \subseteq AllRaces

Bots == Speakers \cup {Owner}

VARIABLES req,        \* what each command asks for
          pc,         \* where its goroutine is
          target,     \* guest: the relay session joined; stop: the raid it ends
          pending,    \* speakers whose join has not returned
          joined,     \* speakers that joined for this raid (Setup.Joined)
          ownerUp,    \* guests whose owner bot relays (ownerCleanup # nil)
          down,       \* where a guest's teardown goroutine is
          inFlight,   \* startGuard.inFlight
          status,     \* Service.statuses has an entry for the guild
          session,    \* Status.Session
          cancelled,  \* commands whose context is cancelled
          cleaned,    \* raids whose SpeakerCleanup has been entered (sync.Once)
          leaving,    \* speakers that cleanup has not yet made leave
          voice,      \* whose pipeline each bot's voice connection carries
          appliers,   \* reconnectRegistry: whose applier is stored per bot
          watching,   \* raids whose idle watcher runs
          relay       \* the relay input channels a raid owns

localVars == <<req, target, pending, joined, ownerUp>>
serviceVars == <<inFlight, status, session>>
voiceVars == <<voice, appliers>>
onceVars == <<cleaned, leaving>>
vars == <<req, pc, target, pending, joined, ownerUp, down, inFlight, status,
          session, cancelled, cleaned, leaving, voice, appliers, watching,
          relay, sessions, byGuild, hostOf, done, outs>>

Kinds == AllOffers \cup {"none"}
StartSteps == {"begin", "enlist", "snapshot", "resnapshot", "speakers", "owner",
               "create", "build", "check", "commit", "start", "undo", "undoWait",
               "undoOwner", "undoRegistry", "abort", "release"}
StopSteps == {"look", "cancelStart", "fallback", "cancel", "detach", "cleanup",
              "cleanupWait", "leaveOwner", "removeHost", "clear", "drop"}
Steps == StartSteps \cup StopSteps \cup {"idle", "done"}
DownSteps == {"off", "wait", "clear", "speakers", "speakersWait", "owner",
              "detach", "close", "unlist", "forget", "done"}

NoRequest == [kind |-> "none", guild |-> None, arg |-> None]
Requests == [kind : Kinds, guild : OrNone(Guilds), arg : OrNone(Guilds \cup Commands)]

TypeOK ==
    /\ RegistryTypeOK
    /\ req \in [Commands -> Requests]
    /\ pc \in [Commands -> Steps]
    /\ target \in [Commands -> OrNone(Commands)]
    /\ pending \in [Commands -> SUBSET Speakers]
    /\ joined \in [Commands -> SUBSET Speakers]
    /\ ownerUp \subseteq Commands
    /\ down \in [Commands -> DownSteps]
    /\ inFlight \in [Guilds -> OrNone(Commands)]
    /\ status \in [Guilds -> BOOLEAN]
    /\ session \in [Guilds -> OrNone(Commands)]
    /\ cancelled \subseteq Commands
    /\ cleaned \subseteq Commands
    /\ leaving \in [Commands -> SUBSET Speakers]
    /\ voice \in [Guilds -> [Bots -> Commands \cup {None, Silent}]]
    /\ appliers \in [Guilds -> [Bots -> OrNone(Commands)]]
    /\ watching \subseteq Commands
    /\ relay \in [Commands -> {"none", "open", "closing", "closed"}]

Init ==
    /\ RegistryInit
    /\ req = [c \in Commands |-> NoRequest]
    /\ pc = [c \in Commands |-> "idle"]
    /\ target = [c \in Commands |-> None]
    /\ pending = [c \in Commands |-> {}]
    /\ joined = [c \in Commands |-> {}]
    /\ ownerUp = {}
    /\ down = [c \in Commands |-> "off"]
    /\ inFlight = [g \in Guilds |-> None]
    /\ status = [g \in Guilds |-> FALSE]
    /\ session = [g \in Guilds |-> None]
    /\ cancelled = {}
    /\ cleaned = {}
    /\ leaving = [c \in Commands |-> {}]
    /\ voice = [g \in Guilds |-> [b \in Bots |-> None]]
    /\ appliers = [g \in Guilds |-> [b \in Bots |-> None]]
    /\ watching = {}
    /\ relay = [c \in Commands |-> "none"]

-----------------------------------------------------------------------------
(* Helpers *)

guildOf(c) == req[c].guild
IsHost(c) == req[c].kind = "host"
IsGuest(c) == req[c].kind = "guest"
IsStart(c) == IsHost(c) \/ IsGuest(c)

Goto(c, step) == pc' = [pc EXCEPT ![c] = step]
SetVoice(g, b, v) == voice' = [voice EXCEPT ![g][b] = v]
StoreApplier(g, b, c) == appliers' = [appliers EXCEPT ![g][b] = c]
Cancel(S) == cancelled' = cancelled \cup S

\* No goroutine of the guild's earlier commands is still at work.
Busy(c) == pc[c] \notin {"idle", "done"} \/ down[c] \notin {"off", "done"}
Quiet(g) == \A c \in Commands : guildOf(c) = g => ~Busy(c)
NoStartRuns(g) ==
    \A c \in Commands : guildOf(c) = g /\ IsStart(c) => pc[c] \in {"idle", "done"}

\* GuildVoice.Leave under a command's own context: once that context is
\* cancelled the leave is dropped before it reaches Discord, and the bot stays
\* in its channel (external: disgo's rate limiter, as GuildVoice.Join notes).
VoiceAfterLeave(c, v) == IF c \in cancelled /\ v # None THEN Silent ELSE None

\* The leave error paths of a start take: a guest first gives its registry
\* entry back.
Bail(c) == IF IsGuest(c) THEN "undoRegistry" ELSE "abort"

\* BuildSpeakerCleanup: once per raid; a later caller waits for the first.
SpeakerCleanup(x) ==
    \/ /\ x \in cleaned
       /\ UNCHANGED onceVars
    \/ /\ x \notin cleaned
       /\ cleaned' = cleaned \cup {x}
       /\ leaving' = [leaving EXCEPT ![x] = joined[x]]

SpeakersLeft(x) == leaving[x] = {}

-----------------------------------------------------------------------------
(* Commands and events arriving *)

Issue(c, kind, g, arg) ==
    /\ kind \in Offers
    /\ pc[c] = "idle"
    /\ req' = [req EXCEPT ![c] = [kind |-> kind, guild |-> g, arg |-> arg]]
    /\ Goto(c, IF kind \in {"host", "guest"} THEN "begin" ELSE "look")
    /\ UNCHANGED <<target, pending, joined, ownerUp, down, inFlight, session,
                   cancelled, onceVars, voiceVars, relay, registryVars>>

\* handleStartVoiceRaid: refused on sight of a session; the goroutine it
\* spawns seeds the guild first (EnsureGuildReady).
MayStart(g) ==
    /\ session[g] = None
    /\ "startDuringTeardown" \in Races \/ Quiet(g)

IssueStart(c, g) ==
    /\ MayStart(g)
    /\ Issue(c, "host", g, None)
    /\ status' = [status EXCEPT ![g] = TRUE]
    /\ UNCHANGED watching

IssueJoin(c, g, code) ==
    /\ MayStart(g)
    /\ Issue(c, "guest", g, code)
    /\ status' = [status EXCEPT ![g] = TRUE]
    /\ UNCHANGED watching

MayStop(g) == "stopDuringStart" \in Races \/ NoStartRuns(g)

\* handleStopVoiceRaid: deliberately no pre-check for an active session.
IssueStop(c, g) ==
    /\ MayStop(g)
    /\ Issue(c, "stop", g, None)
    /\ UNCHANGED <<status, watching>>

\* onGuildLeave: the owner bot was removed from the guild.
IssueForget(c, g) ==
    /\ MayStop(g)
    /\ Issue(c, "forget", g, None)
    /\ UNCHANGED <<status, watching>>

\* sessionPresenceWatcher.Run found no caller for long enough.  It fires once,
\* and may do so after its raid has already ended.
IssueIdleStop(c, x) ==
    /\ x \in watching
    /\ MayStop(guildOf(x))
    /\ Issue(c, "idle", guildOf(x), x)
    /\ watching' = watching \ {x}
    /\ UNCHANGED status

-----------------------------------------------------------------------------
(* StartVoiceRaid and JoinSession *)

\* Mutant: no reservation is looked at.
BeginAlways(g) == TRUE

\* startGuard.tryBegin
CanBegin(g) == inFlight[g] = None

\* The handler's permission check, then startGuard.tryBegin and the checks that
\* refuse a start before it touches anything.
StartBegin(c) ==
    LET g == guildOf(c) IN
    /\ pc[c] = "begin"
    /\ \/ /\ ~CanBegin(g) \/ "config" \in Faults
          /\ Goto(c, "done")
          /\ Cancel({c})
          /\ UNCHANGED inFlight
       \/ /\ CanBegin(g)
          /\ inFlight' = [inFlight EXCEPT ![g] = c]
          /\ \/ Goto(c, IF IsGuest(c) THEN "enlist" ELSE "snapshot")
             \/ "config" \in Faults /\ Goto(c, "abort")
          /\ UNCHANGED cancelled
    /\ UNCHANGED <<localVars, down, status, session, onceVars, voiceVars,
                   watching, relay, registryVars>>

\* A guest takes its place in the registry before its bots join, and gives it
\* back when it may not capture.
Enlist(c) ==
    LET g == guildOf(c)
        code == req[c].arg
    IN
    /\ pc[c] = "enlist"
    /\ \/ /\ ~CanJoin(code, g)
          /\ Goto(c, "abort")
          /\ UNCHANGED <<target, registryVars>>
       \/ /\ CanJoin(code, g)
          /\ Join(code, g)
          /\ target' = [target EXCEPT ![c] = sessions[code]]
          /\ Goto(c, "snapshot")
       \/ /\ CanJoin(code, g)
          /\ "config" \in Faults
          /\ Join(code, g)
          /\ Goto(c, "undoRegistry")
          /\ UNCHANGED target
    /\ UNCHANGED <<req, pending, joined, ownerUp, down, serviceVars, cancelled,
                   onceVars, voiceVars, watching, relay>>

\* boundSpeakers and withLiveChannel: the speakers that are enabled and bound to
\* a channel that exists, all of them unless the configuration is incomplete.
Candidates == IF "config" \in Faults THEN SUBSET Speakers ELSE {Speakers}

\* speakersAfterSeeding: a guild that lost its status is seeded once and looked
\* at again.
Snapshot(c) ==
    LET g == guildOf(c) IN
    /\ pc[c] \in {"snapshot", "resnapshot"}
    /\ \/ /\ ~status[g]
          /\ status' = [status EXCEPT ![g] = pc[c] = "snapshot"]
          /\ Goto(c, IF pc[c] = "snapshot" THEN "resnapshot" ELSE Bail(c))
          /\ UNCHANGED pending
       \/ /\ status[g]
          /\ session[g] # None \/ "config" \in Faults
          /\ Goto(c, Bail(c))
          /\ UNCHANGED <<status, pending>>
       \/ /\ status[g]
          /\ session[g] = None
          /\ \E S \in Candidates : pending' = [pending EXCEPT ![c] = S]
          /\ Goto(c, "speakers")
          /\ UNCHANGED status
    /\ UNCHANGED <<req, target, joined, ownerUp, down, inFlight, session,
                   cancelled, onceVars, voiceVars, watching, relay, registryVars>>

\* How joining a bot can end.  A cancelled context fails the call it catches:
\* the handshake, which leaves again on a context of its own, or the pipeline's
\* installation on the open connection.
Attached(c) == c \notin cancelled
JoinFails(c) == "join" \in Faults \/ c \in cancelled
ApplyFails(c) == "apply" \in Faults \/ c \in cancelled

\* One goroutine of joinSpeakers; they run in parallel.
AttachSpeaker(c, b) ==
    LET g == guildOf(c) IN
    /\ pc[c] = "speakers"
    /\ b \in pending[c]
    /\ pending' = [pending EXCEPT ![c] = @ \ {b}]
    /\ \/ /\ Attached(c)
          /\ SetVoice(g, b, c)
          /\ StoreApplier(g, b, c)
          /\ joined' = [joined EXCEPT ![c] = @ \cup {b}]
       \/ /\ JoinFails(c)
          /\ SetVoice(g, b, None)
          /\ UNCHANGED <<appliers, joined>>
       \/ /\ ApplyFails(c)
          /\ SetVoice(g, b, VoiceAfterLeave(c, c))
          /\ UNCHANGED <<appliers, joined>>
    /\ UNCHANGED <<req, pc, target, ownerUp, down, serviceVars, cancelled,
                   onceVars, watching, relay, registryVars>>

\* wg.Wait returned: no speaker at all ends the start.
SpeakersJoined(c) ==
    /\ pc[c] = "speakers"
    /\ pending[c] = {}
    /\ Goto(c, IF joined[c] = {} THEN Bail(c) ELSE "owner")
    /\ UNCHANGED <<localVars, down, serviceVars, cancelled, onceVars, voiceVars,
                   watching, relay, registryVars>>

\* The owner bot.  A host cannot do without it, a guest can; neither leaves
\* the channel again when installing the pipeline fails.
AttachOwner(c) ==
    LET g == guildOf(c)
        failed == IF IsHost(c) THEN "undo" ELSE "build"
    IN
    /\ pc[c] = "owner"
    /\ \/ /\ Attached(c)
          /\ SetVoice(g, Owner, c)
          /\ StoreApplier(g, Owner, c)
          /\ ownerUp' = IF IsGuest(c) THEN ownerUp \cup {c} ELSE ownerUp
          /\ Goto(c, IF IsHost(c) THEN "create" ELSE "build")
       \/ /\ JoinFails(c)
          /\ SetVoice(g, Owner, None)
          /\ Goto(c, failed)
          /\ UNCHANGED <<appliers, ownerUp>>
       \/ /\ ApplyFails(c)
          /\ SetVoice(g, Owner, Silent)
          /\ Goto(c, failed)
          /\ UNCHANGED <<appliers, ownerUp>>
       \/ /\ "config" \in Faults
          /\ Goto(c, failed)
          /\ UNCHANGED <<voiceVars, ownerUp>>
    /\ UNCHANGED <<req, target, pending, joined, down, serviceVars, cancelled,
                   onceVars, watching, relay, registryVars>>

HostCreate(c) ==
    /\ pc[c] = "create"
    /\ Create(c, guildOf(c))
    /\ Goto(c, "build")
    /\ UNCHANGED <<localVars, down, serviceVars, cancelled, onceVars, voiceVars,
                   watching, relay>>

\* Pipeline.Build; only a host looks at its context afterwards.
Build(c) ==
    /\ pc[c] = "build"
    /\ \/ Goto(c, IF IsHost(c) THEN "check" ELSE "commit")
       \/ "build" \in Faults /\ Goto(c, "undo")
    /\ UNCHANGED <<localVars, down, serviceVars, cancelled, onceVars, voiceVars,
                   watching, relay, registryVars>>

\* Mutant: the context is not looked at.
CtxCheckNot(c) ==
    /\ pc[c] = "check"
    /\ Goto(c, "commit")
    /\ UNCHANGED <<localVars, down, serviceVars, cancelled, onceVars, voiceVars,
                   watching, relay, registryVars>>

CtxCheck(c) ==
    /\ pc[c] = "check"
    /\ Goto(c, IF c \in cancelled THEN "undo" ELSE "commit")
    /\ UNCHANGED <<localVars, down, serviceVars, cancelled, onceVars, voiceVars,
                   watching, relay, registryVars>>

\* commitSession re-checks, under the lock, that the guild still has a status
\* and no session.
Commit(c) ==
    LET g == guildOf(c) IN
    /\ pc[c] = "commit"
    /\ \/ /\ status[g] /\ session[g] = None
          /\ session' = [session EXCEPT ![g] = c]
          /\ Goto(c, "start")
       \/ /\ ~status[g] \/ session[g] # None
          /\ Goto(c, "undo")
          /\ UNCHANGED session
    /\ UNCHANGED <<localVars, down, inFlight, status, cancelled, onceVars,
                   voiceVars, watching, relay, registryVars>>

\* Mutant: the inputs are registered although they were closed.
RegisterAfterClose(c) ==
    /\ relay' = [relay EXCEPT ![c] = "open"]
    /\ AddGuild(c, guildOf(c), c)

\* hostRelayInputs.register does nothing once the inputs are closed.
RegisterHostInputs(c) ==
    /\ relay[c] = "none"
    /\ relay' = [relay EXCEPT ![c] = "open"]
    /\ AddGuild(c, guildOf(c), c)

\* The idle watcher and the pipeline's start.  A host attaches its own relay
\* inputs only in the modes that let guests speak; a guest always attaches and
\* then spawns the goroutine that tears it down.
StartPipeline(c) ==
    /\ pc[c] = "start"
    /\ watching' = watching \cup {c}
    /\ \/ /\ IsHost(c)
          /\ RegisterHostInputs(c) \/ UNCHANGED <<relay, registryVars>>
          /\ UNCHANGED down
       \/ /\ IsGuest(c)
          /\ AddGuild(target[c], guildOf(c), c)
          /\ relay' = [relay EXCEPT ![c] = "open"]
          /\ down' = [down EXCEPT ![c] = "wait"]
    /\ Goto(c, "release")
    /\ UNCHANGED <<localVars, serviceVars, cancelled, onceVars, voiceVars>>

\* The deferred startGuard.end; the handler cancels the context of a start
\* that returned an error.
Release(c) ==
    /\ pc[c] \in {"release", "abort"}
    /\ inFlight' = [inFlight EXCEPT ![guildOf(c)] = None]
    /\ Cancel(IF pc[c] = "abort" THEN {c} ELSE {})
    /\ Goto(c, "done")
    /\ UNCHANGED <<localVars, down, status, session, onceVars, voiceVars,
                   watching, relay, registryVars>>

-----------------------------------------------------------------------------
(* The error paths of a start *)

Undo(c) ==
    /\ pc[c] = "undo"
    /\ SpeakerCleanup(c)
    /\ Goto(c, "undoWait")
    /\ UNCHANGED <<localVars, down, serviceVars, cancelled, voiceVars, watching,
                   relay, registryVars>>

\* A host that failed before it created its relay session is finished here.
UndoWaited(c) ==
    /\ pc[c] = "undoWait"
    /\ SpeakersLeft(c)
    /\ Goto(c, IF IsHost(c) /\ hostOf[c] = None THEN "abort" ELSE "undoOwner")
    /\ UNCHANGED <<localVars, down, serviceVars, cancelled, onceVars, voiceVars,
                   watching, relay, registryVars>>

\* Mutant: the owner bot is forgotten.
UndoOwnerNot(c) ==
    /\ pc[c] = "undoOwner"
    /\ Goto(c, "undoRegistry")
    /\ UNCHANGED <<localVars, down, serviceVars, cancelled, onceVars, voiceVars,
                   watching, relay, registryVars>>

\* A host's errCleanup leaves on the context of the start it undoes, a guest's
\* on a fresh one.
UndoOwner(c) ==
    LET g == guildOf(c) IN
    /\ pc[c] = "undoOwner"
    /\ \/ IsHost(c) /\ SetVoice(g, Owner, VoiceAfterLeave(c, voice[g][Owner]))
       \/ IsGuest(c) /\ c \in ownerUp /\ SetVoice(g, Owner, None)
       \/ IsGuest(c) /\ c \notin ownerUp /\ UNCHANGED voice
    /\ Goto(c, "undoRegistry")
    /\ UNCHANGED <<localVars, down, serviceVars, cancelled, onceVars, appliers,
                   watching, relay, registryVars>>

UndoRegistry(c) ==
    /\ pc[c] = "undoRegistry"
    /\ IF IsHost(c) THEN RemoveHost(guildOf(c)) ELSE RemoveGuest(guildOf(c))
    /\ Goto(c, "abort")
    /\ UNCHANGED <<localVars, down, serviceVars, cancelled, onceVars, voiceVars,
                   watching, relay>>

\* Mutant: a leave that never reports back (no wg.Done).
SpeakerLeaveLost(x, b) ==
    /\ b \in leaving[x]
    /\ SetVoice(guildOf(x), b, None)
    /\ UNCHANGED <<localVars, pc, down, serviceVars, cancelled, onceVars,
                   appliers, watching, relay, registryVars>>

\* One of the parallel leaves of a raid's speaker cleanup.  The connection
\* belongs to the bot and the guild, so the leave ends whatever it carries.
SpeakerLeave(x, b) ==
    /\ b \in leaving[x]
    /\ leaving' = [leaving EXCEPT ![x] = @ \ {b}]
    /\ SetVoice(guildOf(x), b, None)
    /\ UNCHANGED <<localVars, pc, down, serviceVars, cancelled, cleaned,
                   appliers, watching, relay, registryVars>>

-----------------------------------------------------------------------------
(* stopSession, for /stop, the idle watcher and ForgetGuild *)

\* The idle watcher stops one particular session, the others whatever is up.
Aimed(c) == req[c].kind = "idle"

\* Mutant: the session an idle stop wants is not compared.
TakesAnySession(c) == session[guildOf(c)] # None

TakesSession(c) ==
    /\ session[guildOf(c)] # None
    /\ Aimed(c) => session[guildOf(c)] = req[c].arg

\* The session is read and cleared in one critical section.
StopLook(c) ==
    LET g == guildOf(c) IN
    /\ pc[c] = "look"
    /\ \/ /\ ~TakesSession(c)
          /\ Goto(c, IF Aimed(c) THEN "fallback" ELSE "cancelStart")
          /\ UNCHANGED <<target, session>>
       \/ /\ TakesSession(c)
          /\ target' = [target EXCEPT ![c] = session[g]]
          /\ session' = [session EXCEPT ![g] = None]
          /\ Goto(c, "cancel")
    /\ UNCHANGED <<req, pending, joined, ownerUp, down, inFlight, status,
                   cancelled, onceVars, voiceVars, watching, relay, registryVars>>

\* ForgetGuild goes on to drop the guild once its stop has returned.
StopReturns(c) == Goto(c, IF req[c].kind = "forget" THEN "drop" ELSE "done")

\* Mutant: a start is cancelled that is not there.
AbortedUnchecked(g) == {inFlight[g]}

\* startGuard.cancel: the start it aborts, if there is one.
Aborted(g) == {inFlight[g]} \ {None}

\* Outside m.mu: the start may have moved on since the session was looked for.
CancelStart(c) ==
    /\ pc[c] = "cancelStart"
    /\ target' = [target EXCEPT ![c] = inFlight[guildOf(c)]]
    /\ Cancel(Aborted(guildOf(c)))
    /\ StopReturns(c)
    /\ UNCHANGED <<req, pending, joined, ownerUp, down, serviceVars, onceVars,
                   voiceVars, watching, relay, registryVars>>

\* stopIdleSession: the watched session is gone, its context may not be.
IdleFallback(c) ==
    /\ pc[c] = "fallback"
    /\ Cancel({req[c].arg})
    /\ Goto(c, "done")
    /\ UNCHANGED <<localVars, down, serviceVars, onceVars, voiceVars, watching,
                   relay, registryVars>>

StopCancel(c) ==
    /\ pc[c] = "cancel"
    /\ Cancel({target[c]})
    /\ Goto(c, "detach")
    /\ UNCHANGED <<localVars, down, serviceVars, onceVars, voiceVars, watching,
                   relay, registryVars>>

\* Session.Cleanup of a host: hostRelayInputs.close detaches the guild from the
\* broadcast before it closes the inputs.  A guest's inputs are left to its
\* teardown goroutine.
StopDetach(c) ==
    LET x == target[c] IN
    /\ pc[c] = "detach"
    /\ \/ /\ IsHost(x) /\ relay[x] = "open"
          /\ relay' = [relay EXCEPT ![x] = "closing"]
          /\ RemoveGuild(x, guildOf(c))
       \/ /\ IsHost(x) /\ relay[x] # "open"
          /\ relay' = [relay EXCEPT ![x] = "closed"]
          /\ UNCHANGED registryVars
       \/ /\ IsGuest(x)
          /\ UNCHANGED <<relay, registryVars>>
    /\ Goto(c, "cleanup")
    /\ UNCHANGED <<localVars, down, serviceVars, cancelled, onceVars, voiceVars,
                   watching>>

StopCleanup(c) ==
    LET x == target[c] IN
    /\ pc[c] = "cleanup"
    /\ relay' = [relay EXCEPT ![x] = IF @ = "closing" THEN "closed" ELSE @]
    /\ SpeakerCleanup(x)
    /\ Goto(c, "cleanupWait")
    /\ UNCHANGED <<localVars, down, serviceVars, cancelled, voiceVars, watching,
                   registryVars>>

StopWaited(c) ==
    /\ pc[c] = "cleanupWait"
    /\ SpeakersLeft(target[c])
    /\ Goto(c, IF IsHost(target[c]) THEN "leaveOwner" ELSE "clear")
    /\ UNCHANGED <<localVars, down, serviceVars, cancelled, onceVars, voiceVars,
                   watching, relay, registryVars>>

StopLeaveOwner(c) ==
    /\ pc[c] = "leaveOwner"
    /\ SetVoice(guildOf(c), Owner, None)
    /\ Goto(c, "removeHost")
    /\ UNCHANGED <<localVars, down, serviceVars, cancelled, onceVars, appliers,
                   watching, relay, registryVars>>

StopRemoveHost(c) ==
    /\ pc[c] = "removeHost"
    /\ RemoveHost(guildOf(c))
    /\ Goto(c, "clear")
    /\ UNCHANGED <<localVars, down, serviceVars, cancelled, onceVars, voiceVars,
                   watching, relay>>

\* clearReconnectState forgets the appliers of every bot in the guild.
ClearAppliers(g) == appliers' = [appliers EXCEPT ![g] = [b \in Bots |-> None]]

StopClear(c) ==
    /\ pc[c] = "clear"
    /\ ClearAppliers(guildOf(c))
    /\ StopReturns(c)
    /\ UNCHANGED <<localVars, down, serviceVars, cancelled, onceVars, voice,
                   watching, relay, registryVars>>

\* ForgetGuild deletes the status, and with it any session it holds by now.
ForgetDrop(c) ==
    LET g == guildOf(c) IN
    /\ pc[c] = "drop"
    /\ status' = [status EXCEPT ![g] = FALSE]
    /\ session' = [session EXCEPT ![g] = None]
    /\ Goto(c, "done")
    /\ UNCHANGED <<localVars, down, inFlight, cancelled, onceVars, voiceVars,
                   watching, relay, registryVars>>

-----------------------------------------------------------------------------
(* A guest's teardown goroutine *)

DownTo(c, step) == down' = [down EXCEPT ![c] = step]

\* Mutant: only the guest's own context is waited for.
WakesOnCancel(c) == c \in cancelled

Wakes(c) == c \in cancelled \/ target[c] \in done

\* It waits for its own context or for the end of the relay session.
TeardownWake(c) ==
    /\ down[c] = "wait"
    /\ Wakes(c)
    /\ Cancel({c})
    /\ DownTo(c, "clear")
    /\ UNCHANGED <<localVars, pc, serviceVars, onceVars, voiceVars, watching,
                   relay, registryVars>>

\* Mutant: the bots leave while the guild still has the session.
TeardownClearNot(c) ==
    /\ down[c] = "clear"
    /\ DownTo(c, "speakers")
    /\ UNCHANGED <<localVars, pc, serviceVars, cancelled, onceVars, voiceVars,
                   watching, relay, registryVars>>

\* The guild's session is cleared whichever raid it belongs to.
TeardownClear(c) ==
    /\ down[c] = "clear"
    /\ session' = [session EXCEPT ![guildOf(c)] = None]
    /\ DownTo(c, "speakers")
    /\ UNCHANGED <<localVars, pc, inFlight, status, cancelled, onceVars,
                   voiceVars, watching, relay, registryVars>>

TeardownSpeakers(c) ==
    /\ down[c] = "speakers"
    /\ SpeakerCleanup(c)
    /\ DownTo(c, "speakersWait")
    /\ UNCHANGED <<localVars, pc, serviceVars, cancelled, voiceVars, watching,
                   relay, registryVars>>

TeardownWaited(c) ==
    /\ down[c] = "speakersWait"
    /\ SpeakersLeft(c)
    /\ DownTo(c, "owner")
    /\ UNCHANGED <<localVars, pc, serviceVars, cancelled, onceVars, voiceVars,
                   watching, relay, registryVars>>

TeardownOwner(c) ==
    /\ down[c] = "owner"
    /\ IF c \in ownerUp THEN SetVoice(guildOf(c), Owner, None) ELSE UNCHANGED voice
    /\ DownTo(c, "detach")
    /\ UNCHANGED <<localVars, pc, serviceVars, cancelled, onceVars, appliers,
                   watching, relay, registryVars>>

\* Mutant: the channels are closed while the session still holds them.
TeardownCloseFirst(c) ==
    /\ down[c] = "detach"
    /\ relay' = [relay EXCEPT ![c] = "closed"]
    /\ DownTo(c, "close")
    /\ UNCHANGED <<localVars, pc, serviceVars, cancelled, onceVars, voiceVars,
                   watching, registryVars>>

TeardownDetach(c) ==
    /\ down[c] = "detach"
    /\ RemoveGuild(target[c], guildOf(c))
    /\ DownTo(c, "close")
    /\ UNCHANGED <<localVars, pc, serviceVars, cancelled, onceVars, voiceVars,
                   watching, relay>>

TeardownClose(c) ==
    /\ down[c] = "close"
    /\ relay' = [relay EXCEPT ![c] = "closed"]
    /\ DownTo(c, "unlist")
    /\ UNCHANGED <<localVars, pc, serviceVars, cancelled, onceVars, voiceVars,
                   watching, registryVars>>

\* Mutant: a guest that ends takes its host's relay session with it.
TeardownUnlistAll(c) ==
    /\ down[c] = "unlist"
    /\ RemoveHost(guildOf(c))
    /\ DownTo(c, "forget")
    /\ UNCHANGED <<localVars, pc, serviceVars, cancelled, onceVars, voiceVars,
                   watching, relay>>

TeardownUnlist(c) ==
    /\ down[c] = "unlist"
    /\ RemoveGuest(guildOf(c))
    /\ DownTo(c, "forget")
    /\ UNCHANGED <<localVars, pc, serviceVars, cancelled, onceVars, voiceVars,
                   watching, relay>>

TeardownForget(c) ==
    /\ down[c] = "forget"
    /\ ClearAppliers(guildOf(c))
    /\ DownTo(c, "done")
    /\ UNCHANGED <<localVars, pc, serviceVars, cancelled, onceVars, voice,
                   watching, relay, registryVars>>

-----------------------------------------------------------------------------
(* The specification *)

Arrive(c) ==
    \/ \E g \in Guilds :
          \/ IssueStart(c, g)
          \/ \E code \in Guilds : IssueJoin(c, g, code)
          \/ IssueStop(c, g)
          \/ IssueForget(c, g)
    \/ \E x \in Commands : IssueIdleStop(c, x)

StartStep(c) ==
    \/ StartBegin(c) \/ Enlist(c) \/ Snapshot(c)
    \/ \E b \in Speakers : AttachSpeaker(c, b)
    \/ SpeakersJoined(c) \/ AttachOwner(c) \/ HostCreate(c) \/ Build(c)
    \/ CtxCheck(c) \/ Commit(c) \/ StartPipeline(c) \/ Release(c)
    \/ Undo(c) \/ UndoWaited(c) \/ UndoOwner(c) \/ UndoRegistry(c)

StopStep(c) ==
    \/ StopLook(c) \/ CancelStart(c) \/ IdleFallback(c) \/ StopCancel(c)
    \/ StopDetach(c) \/ StopCleanup(c) \/ StopWaited(c) \/ StopLeaveOwner(c)
    \/ StopRemoveHost(c) \/ StopClear(c) \/ ForgetDrop(c)

TeardownStep(c) ==
    \/ TeardownWake(c) \/ TeardownClear(c) \/ TeardownSpeakers(c)
    \/ TeardownWaited(c) \/ TeardownOwner(c) \/ TeardownDetach(c)
    \/ TeardownClose(c) \/ TeardownUnlist(c) \/ TeardownForget(c)

SpeakerStep(c) == \E b \in Speakers : SpeakerLeave(c, b)

Next == \E c \in Commands :
    Arrive(c) \/ StartStep(c) \/ StopStep(c) \/ TeardownStep(c) \/ SpeakerStep(c)

Spec == Init /\ [][Next]_vars

\* Every goroutine goes on: each of its waits is bounded, on Discord by a
\* timeout, on a mutex or a sync.Once by steps that are themselves fair.  No
\* operator is obliged to issue a command, and no watcher to fire.
Fairness == \A c \in Commands :
    /\ WF_vars(StartStep(c))
    /\ WF_vars(StopStep(c))
    /\ WF_vars(TeardownStep(c))
    /\ WF_vars(SpeakerStep(c))

FairSpec == Spec /\ Fairness

-----------------------------------------------------------------------------
(* Properties that hold however commands overlap *)

\* The steps of a start between its look at the guild and its commit.
Joining == {"speakers", "owner", "create", "build", "check", "commit"}

\* Two starts never work on one guild's bots at a time, and the re-check in
\* commitSession never finds a session it would have to lose to: the guard
\* rejects the second start before it touches anything (startGuard's comment).
StartsNeverCollide ==
    \A c \in Commands : pc[c] \in Joining =>
        /\ session[guildOf(c)] = None
        /\ \A d \in Commands \ {c} :
              pc[d] \in Joining => guildOf(d) # guildOf(c)

\* No broadcast can send on a closed channel: whatever the order of a stop, a
\* late start of the pipeline and a guest's teardown, channels are closed only
\* once the session no longer holds them (the contract on ally.Session.broadcast).
NoSendOnClosed ==
    \A s \in Commands, g \in Guilds :
        outs[s][g] # None => relay[outs[s][g]] # "closed"

\* Nothing is left to do but to wait for the next command.
Waiting(c) == down[c] = "wait" /\ ~Wakes(c)
Settled == \A c \in Commands : Busy(c) => Waiting(c) /\ pc[c] = "done"

\* A raid that was taken down keeps no relay input open, even when the stop got
\* in before the pipeline's start (hostRelayInputs: "registering after close is
\* a no-op rather than a leak").
NoLeakedInputs == Settled => \A x \in cleaned : relay[x] # "open"

\* Every /start and /stop that was accepted returns, and with it the guild's
\* reservation: no wait on a cleanup or on the guard is for ever.
CommandsReturn ==
    \A c \in Commands : pc[c] \notin {"idle", "done"} ~> pc[c] = "done"

\* A guest whose host ended the relay session, or whose own context ended, is
\* torn down to the last step by its goroutine (JoinSession: "the session ends
\* automatically when the host ends or ctx is cancelled").
GuestsFollowHost ==
    \A c \in Commands :
        down[c] = "wait" /\ (c \in cancelled \/ target[c] \in done)
            ~> down[c] = "done"

\* Where a start still notices that it was cancelled: a host's as far as its look
\* at its context, a guest's until it returns.
Abortable(c) ==
    \/ IsHost(c) /\ pc[c] \in StartSteps \ {"commit", "start", "release"}
    \/ IsGuest(c) /\ pc[c] \in StartSteps

\* Nothing of a raid is left: no session, no goroutine, no bot that carries its
\* pipeline, no open input, and no guild broadcasts to it.
Gone(c) ==
    /\ ~Busy(c)
    /\ \A g \in Guilds :
          /\ session[g] # c
          /\ \A b \in Bots : voice[g][b] # c
          /\ \A s \in Commands : outs[s][g] # c
    /\ relay[c] # "open"
    /\ hostOf[c] # None => c \in done

\* A start that a stop catches in time comes down again for good, whatever it had
\* joined and whatever else starts and stops meanwhile (stopSession: "Cancelling
\* that start aborts it before it commits and its own cleanup releases whatever it
\* had already joined"; StartVoiceRaid on the guest path: "the goroutine it starts
\* right after its own commit tears the session down on ctx.Done").
\* A bot that left on the cancelled context may stay in its channel, silent: that is
\* NoBotLeftBehind's.
StoppedStartsAreUndone ==
    \A c \in Commands : c \in cancelled /\ Abortable(c) ~> []Gone(c)

-----------------------------------------------------------------------------
(* Properties that need commands not to overlap a teardown or a start *)

\* A guild with a raid, host side: guests can join it through the guild's code
\* (StartVoiceRaid: "guests can always join via the relay code").
RaidJoinable ==
    \A g \in Guilds : session[g] # None /\ IsHost(session[g]) =>
        /\ sessions[g] = session[g]
        /\ byGuild[g] = session[g]
        /\ session[g] \notin done

\* A committed raid keeps the bots it joined: nothing takes them out of voice or
\* puts another raid's pipeline on their connections.
BotsServeTheirRaid ==
    \A g \in Guilds : session[g] # None =>
        LET x == session[g] IN
        /\ \A b \in joined[x] : voice[g][b] = x
        /\ IsHost(x) \/ x \in ownerUp => voice[g][Owner] = x

\* Once a stop and all it triggered is over, a guild without a raid has no bot
\* in voice.
NoBotLeftBehind ==
    Settled => \A g \in Guilds : session[g] = None =>
                    \A b \in Bots : voice[g][b] = None

\* Once everything is over, every guest still up belongs to a host's raid that
\* is up too (README: "When Guild A runs `/stop`, all guest sessions are torn
\* down automatically").
NoOrphanGuest ==
    Settled => \A c \in Commands : Waiting(c) =>
                    session[hostOf[target[c]]] = target[c]

\* The same, said of a /stop that found the host's raid up and returned.
StopEndsGuests ==
    Settled => \A c, s \in Commands :
        Waiting(c) /\ req[s].kind = "stop" /\ pc[s] = "done" /\ target[s] \in cleaned
        => target[s] # target[c]

\* A /stop that found no session and cancelled the start it met has kept that
\* raid from coming up (voice_raid.go:237: "Cancelling that start aborts it before
\* it commits").
StopHonoured ==
    \A c \in Commands :
        pc[c] = "done" /\ ~IsStart(c) /\ target[c] # None /\ IsHost(target[c])
            /\ pc[target[c]] = "done"
        => session[guildOf(c)] # target[c]

\* A committed raid ends only by a stop that takes its session or by its own
\* teardown, never by one that belongs to an earlier raid.
OnlyItsOwnEnd ==
    [][\A g \in Guilds :
          session[g] # None /\ session'[g] # session[g] =>
              \/ \E c \in Commands :
                    /\ pc[c] = "look" /\ target'[c] = session[g]
                    /\ Aimed(c) => req[c].arg = session[g]
              \/ down[session[g]] = "clear"]_vars
=============================================================================
