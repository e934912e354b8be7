# A TLA+ model of go-discord-caller

go-discord-caller relays voice between Discord channels and guilds: an operator
starts a *raid* in a guild, a set of bots joins its voice channels, callers are
captured and passed on, and other guilds can join the raid through a relay
code. These modules model the parts of the program where goroutines meet: the
life of a raid across `/start`, `/stop`, the idle watcher and the loss of a
guild; the relay registry; the auto-router with its cascade, its unlocked
probes and its debounce timers; the watchers that park idle mixers; the way of
an audio packet through a channel; the deafening of bots that only speak; the
repair of voice connections; the encryption sessions and their statistics; the
registration of speaker bots; and the settings store with its file.

All paths below are relative to `src/internal/`.

## The system

| component | state it keeps | operations | talks to |
|---|---|---|---|
| manager: raid lifecycle (`manager/voice_raid*.go`, `service*.go`) | `statuses[guild].Session`, the reconnect appliers, the contexts of raids | StartVoiceRaid, JoinSession, StopVoiceRaid, stopIdleSession, ForgetGuild | start guard, registry, pool, pipelines |
| start guard (`manager/start_guard.go`) | one reservation and its cancel function per guild | tryBegin, cancel, end | raid lifecycle |
| relay registry (`ally/session.go`) | sessions by code and by guild, per session its guests, channels, done | Create, Join, RemoveGuest, RemoveHost, AddGuild, RemoveGuild, broadcast | lifecycle; notifies routers on fresh goroutines |
| pipelines (`manager/pipeline/`) | relay inputs (open or closed), once-only cleanups | Build, Start, Cleanup, SpeakerCleanup | registry, router, mixers |
| auto-router (`manager/router/router.go`) | slots (mode, users, teardown), timers, closed | Debounce, Recompute, applyModes, ScheduleRecompute, Close | voice caches (read without the lock), receivers, mixers, the deafening observer |
| mixers and drain watchers (`opus/mixer.go`, `opus/drain.go`) | the pause flag, the last activity, who made the pause | SetPaused, tick, step | router (same flag, no common lock) |
| audio path (`opus/source.go`, `voice_provider.go`, `voice_receiver.go`) | rings, queues, pools of buffers | Feed, Pull, Drain, dispatch, tick, provide | Discord's UDP side, router |
| speaker deafening (`manager/speaker_deafen.go`) | wanted and recorded deaf state per bot, timers, calls in flight | Register, Observe, apply, Close | router's capture observer, REST, the voice-state cache |
| reconnect (`manager/voice_reconnect.go`, `voice_raid_reconnect.go`, `voice_ready_watch.go`) | in-flight marks, appliers, backoff, ready watches | ReconnectBotChannel, reapplyAfterVoiceReady, stall reports | pool, lifecycle |
| DAVE sessions (`dave/`) | the users known to each session; counters, reference counts, retired totals | AddUser, RemoveUser, Decrypt, Encrypt, observe | the MLS library, disgo, metrics; the stall reports start reconnects |
| guild seeding (`manager/service_commands.go`, `service.go`, `bot/ready_guard.go`) | registered speakers per guild, seedings in flight, recent READYs | SeedExistingSpeakers, EnsureGuildReady, TrySeedMember, RemoveSpeaker, ForgetGuild, ToggleSpeaker | Discord's member list, store |
| settings store (`store/`) | guild settings, a dirty signal, a debounce timer, a file | setters, save, Close | disk |
| channel bindings (`manager/service_commands.go`, `channel_bindings.go`) | `bindMu`; the bindings are in the store | BindChannel, UnbindChannel, the sweep for a deleted channel | store |
| bot (`bot/`) | command handlers, gateway event handlers, caches | slash commands, voice and member events | manager |
| pool (`pool/`) | gateway clients and voice connections of the bots | Join, Leave, watchdog, client swap | Discord |

What is hard: commands of several operators overlap, and each runs for seconds
because every bot's join is a handshake with Discord; a stop may meet a start at
any point of it; teardown is spread over three goroutines; the registry finds
sessions by guild, and a guild can have a newer session by then; the router
reads caches without its lock and applies later; two parties pause one mixer;
five goroutines hand pooled buffers to each other without a lock; a change asked
of Discord may be refused, overtaken or answered from a stale cache; a save may
meet a crash; a repair causes the very events that start repairs.
`PROJECT.json` lists each of these hazards at its line with the property that
would notice it going wrong.

What makes each part correct:

* lifecycle: starts of one guild exclude each other; a stop ends what it was
  aimed at and nothing else; bots are in voice exactly for a raid that is up;
  guests go with their host; every command returns;
* registry: the code of a raid that is up leads to it; no send on a closed channel;
* router: one writer per output at every instant; mixer inputs match installs;
  no event is lost; a closed router is silent;
* cascade: order-independent, terminating, and no more decoding than needed;
* watcher: it lifts only what it parked;
* audio path: every pooled buffer has one owner; every packet goes to its own
  user's ring; a full ring forgets its oldest frame and nothing else;
* deafening: at most one change per bot under way; the last wish is what the flag
  ends at; the teardown undoes what it did; a refused change is retried in time;
* reconnect: one repair at a time; nothing outlives its connection or its raid; a
  bot that is silent is heard again; stall rejoins are spaced;
* DAVE sessions: the mirror of the backend errs on the safe side; series are kept
  as long as somebody needs them and no longer; exported totals never fall;
* seeding: one at a time, no storms; the registered speakers are the members;
* store: a restart finds a value the store had; Close loses nothing; everything
  is saved in the end; two bots never share a channel.

## Modules

| module | models |
|---|---|
| `AllyRegistry` | `ally.Manager` and the part of `ally.Session` a raid touches |
| `RaidLifecycle` | start, join, stop, idle stop, forget, guest teardown; EXTENDS `AllyRegistry` |
| `RaidLifecycleProofs` | theorems about `RaidLifecycle` |
| `RouteRules` | the rule `computeRoutes` implements, without an algorithm |
| `Cascade` | `computeRoutes` visit by visit; EXTENDS `RouteRules` |
| `CascadeProofs` | theorems about `Cascade`, among them that it computes `RouteRules` |
| `DrainWatcher` | the mixers' pause switch and the watcher goroutines |
| `Router` | the auto-router of one raid; composes `RouteRules` and `DrainWatcher` |
| `RouterProofs` | theorems about `Router` |
| `Deafening` | `deafController`, the changes it asks Discord for, the teardown |
| `DeafeningProofs` | theorems about `Deafening` |
| `SourceBuffer`, `FrameQueues` | the ring behind a mixer input, and the queue it implements |
| `AudioPath` | receiver, relay bridge, mixer tick, providers and a switch of modes; EXTENDS `SourceBuffer`, implements `FrameQueues` |
| `AudioPathProofs` | theorems about the ring and `AudioPath`, the refinement among them |
| `StallBackoff` | when a stalled encryptor may be rejoined again |
| `Reconnect` | the repairs of one bot's connection beside starts and stops; EXTENDS `StallBackoff` |
| `ReconnectProofs` | theorems about `Reconnect` |
| `DaveSessions`, `DaveSessionsProofs` | `countingSession` and `Stats`; theorems about them |
| `ReadyGuard` | the limit on READYs that seed |
| `Seeding` | the speakers registered in a guild; EXTENDS `ReadyGuard` |
| `Settings` | what a store of guild settings promises |
| `YAMLStore` | the store with its file, `BindChannel`, the sweep; implements `Settings` |
| `YAMLStoreProofs` | theorems about `YAMLStore`, the refinement among them |
| `MC*` | instances and symmetry sets for TLC (`Cascade`, `Reconnect` and `YAMLStore` need none) |

Several modules have a constant `Environments` or `Faults`: sets of records, one
of which a behaviour begins in and keeps. They say which overlaps, delays and
failures may happen in it, so that one run covers the calm world, in which
strong properties are stated, and the others, in which weaker ones still hold. A
property that depends on the environment names the field it depends on.

### RaidLifecycle

A *command* is one invocation on its own goroutine and also names what it
creates: its context, its session, its pipeline, its relay session. `pc` says
where it is; the steps are cut where the code takes a lock, gives one up, waits,
or calls Discord. The critical sections are single steps: `startGuard.tryBegin`
with the checks behind it (`StartBegin`), the read-and-clear of the session in
`stopSession` (`StopLook`), `commitSession` (`Commit`), each registry operation.

| code | model |
|---|---|
| `Service.statuses[g]`, `.Session` | `status[g]`, `session[g]` |
| `startGuard.inFlight` | `inFlight` |
| a raid's `context.Context` | membership in `cancelled` |
| `setup.Joined`, `ownerCleanup != nil` | `joined`, `ownerUp` |
| the `sync.Once` of `BuildSpeakerCleanup` and its parallel leaves | `cleaned`, `leaving` |
| a bot's voice connection in a guild | `voice[g][b]`: none, the raid whose pipeline it carries, or `Silent` (connected, nothing installed) |
| `hostRelayInputs`, a guest's input channels | `relay[c]`: none, open, closing (detached, not yet closed), closed |
| the goroutine at `voice_raid.go:190` | `down[c]` |

Environment. `Faults` are the failures Discord or the configuration produce:
`config` (a check refuses, or fewer speakers are bound), `join` (a handshake
fails), `apply` (installing a pipeline fails), `build`. `Races` are the overlaps
operators produce: `startDuringTeardown` lets a start arrive while an earlier
command of the guild is still at work, `stopDuringStart` lets a stop arrive while
a start runs. A leave on a cancelled context is dropped before it reaches
Discord, as the comment in `pool/guild_voice.go:85` explains. Seeding a guild is
one step; a voice handshake is one step; relay codes never collide, because the
store keeps one per guild.

### Cascade and RouteRules

`RouteRules` says which sets of mixing sources and destinations are closed under
the three reasons to mix (a second caller in the channel, a second live source
at a destination, a relay) and defines the least closed one. `Cascade` starts
with any topology and any counts and takes the turns of the destinations within
a pass in any order, since the code hands them over in the order of a Go map.

### Router

The humans' places, their roles and the peers of the relay session are the
caches and change at most `MaxChanges` times. Each change leaves an event
(`events`) whose handler arms a debounce timer (`armed`), or, for a membership
change, starts a recomputation at once. A recomputation (`Runs`) checks
`closed`, probes source by source and destination by destination without the
lock, takes the lock (`mu`), pauses, installs source by source, resumes, gives
up the lock, reports. `published[s]` is what the receiver of `s` acts on, `bound`
the inputs that exist in the mixers, `held` the ones `activeTeardown` removes.
Router uses `RouteRules` where the code calls `computeRoutes`;
`CascadeComputesRoutes` is the proof that this is the same result. The topology
is GuildCaller's mix-minus with the synthetic relay destination. `overlap` of the
environment says whether a recomputation may take so long that another starts
before it ends, `humans`, `further` and `watched` how many people move, how many
recomputations there are besides the first one, and which mixers have a watcher.

### Deafening

`flag`, `allowed` and `voice` are Discord's; `cache` is the owner client's view of
the flag, which `events` reach with a lag. `mem[b]` is the code's `deafMember`
(want, deaf, inFlight, failures, the timer and callbacks that have fired and wait
for the lock), `call[r][b]` an invocation of `ensureSpeakerDeaf` on behalf of the
join, one of two apply goroutines, Close or the speaker's own cleanup. The steps
are cut at the lock of the controller, at the look at the cache and at the answer
of the PATCH. `env` says whether the cache lags, whose changes may be refused,
whether the permission may be revoked, whether a goroutine may be suspended
between setting `inFlight` and counting itself into `applying`, and whether a
context of the teardown may run out: then Close stops waiting, or an undeafen uses up
the time of the leave behind it, which is dropped (`LeavesTooLate`). `TeardownEnds`
allows a bot in voice after the teardown in that environment only.

### AudioPath, SourceBuffer, FrameQueues

One destination channel with its receiver, its mixer and a queue and provider per
speaker. Buffers are names: a pool is the set of names that are free, and
`twice` remembers that one was returned that was free already. `Holders` says in
which places a name is. A mix install makes a new ring per user, so a user has
two names for rings, used in turn. A tick or a dispatch keeps what it read at its
beginning, since neither takes the router's lock. `stray` counts the packets the
goroutine that lost the queues still puts into them after a switch.

### Reconnect, StallBackoff

Every map of the code is keyed by guild and bot, so one pair stands for all.
`slot` is its in-flight mark, `applier` the registered applier, `worker` the
goroutines that repair, `held[c]` what disgo and the registries keep for
connection `c` (the raid its sender and receiver serve, its ready watch), `news`
what the owner bot has still to hear and `own` what the speaker's own listener
has. A repair gives up after two failed joins, and also when it finds the bot's channel
unbound or deleted, or its client gone (`CheckFindsNoVoice`); the settings that decide this
are `YAMLStore`'s, so here it just happens, within the bound on faults. `gaveUp`
remembers either, and what the properties say of a raid that is heard excludes it:
nothing in the code repairs such a bot of its own accord.
`Overlaps` names what the code does not wait for: a raid that starts or stops
within a repair, trouble within a repair, events heard late, a slow listener.
Time is relative: how long ago the last stall report was, how long until the next
rejoin is due.

### DaveSessions

A session is one voice connection; two of them share `counters`, `holders`,
`retiring` and `retired`. `AddUser` and `RemoveUser` are cut into the calls they
make, in the order `Then` gives: backend, mirror, reference count. `Decrypt` is
look-up, the backend's part, `lookup` of the counter and its increase, which
happens outside the lock and may hit a counter that has left the map (`lost`).
`Observe` and `EvictRetired` are the collector's two critical sections. The
backend is a set of users with a decryptor, and an encryptor that is waiting,
ready or failing. Series are keyed by user and outcome; the reasons of failures,
positions and the encrypt counters have no state beyond a number. The
environment says whether frames of users that are not in the session come,
whether a connection closes with users in its channel, and whether frames are
sent.

### Seeding, ReadyGuard

Callers are goroutines that seed (READY, the owner bot joining a guild) or make
sure of a seeding (`EnsureGuildReady`); handlers are the goroutines of member and
guild events. A seeding asks for one bot after the other without the lock and
registers what it found under the lock; events and toggles fall anywhere in
between if the environment overlaps. A look-up over REST may fail, which the code
takes for "no member", and a bot without a client or a self user is not registered
by the join event (`JoinReads`). `isGuildMember` asks the owner bot's member cache
first, and Discord only on a miss. A hit can be stale where the event of a leave is
still on its way: that is a probe that came before the leave, so `Probe` reads
Discord's members and the cache is no state of its own. `seen` is the guard's list
by age; a READY leaves it after
`Window` ticks.

### Settings, YAMLStore

`Settings` is a value with its setters and a set of values a restart may come back
with. In `YAMLStore` `flushLoop` is one process: its select, the debounce timer,
and a step per file operation of `save`, each of which may fail. A kill loses the
process; a power loss also what the disk was not told to keep (`onDisk` is what a
reader may find then). `BindChannel` runs under `bindMu`; the sweep that unbinds what
is gone does not. It starts when a channel is deleted (`ChannelDeleted`), or when the
seeding of a guild has fetched its channels and misses some (`ChannelsFetched`). The
mapping to `Settings` takes the value from `mem` and the
kept values from what the possible files load to.

## Runs

| run | instance | shows |
|---|---|---|
| `any` | 2 guilds, 3 commands, 2 speakers, all kinds, faults and overlaps | `TypeOK`, `StartsNeverCollide`, `NoSendOnClosed`, `NoLeakedInputs` |
| `orderly` | 2 guilds, 4 commands, 1 speaker, no overlap with a start or a teardown | `RaidJoinable`, `BotsServeTheirRaid`, `NoBotLeftBehind`, `NoOrphanGuest`, `OnlyItsOwnEnd` |
| `live` | 2 guilds, 3 commands, fair, both overlaps | `CommandsReturn`, `GuestsFollowHost`, `StoppedStartsAreUndone` |
| `cascade` | 3 sources, 3 destinations, counts 0 to 2 | `LeastRoutes`, `RawWriterIsAlone`, `CascadeEnds` |
| `router` | 2 sources, 3 mixers; overlapping recomputations with 2 humans, and a settling router with 3 humans (2 callers), 4 recomputations and a watched mixer | `NoTwoWriters`, `InputsMatch`, `Converged`, `ParkedOnlyByWatcher` |
| `deafen` | 2 bots, 2 reports, 2 refusals, 4 environments | `DeafeningInv`, `RetriesArePaced`, `ComesToRest`, `TeardownEnds` |
| `audio` | 1 user, 2 speakers, 4 buffers, rings of 2, queues of 1, 3 packets, 1 relayed, 2 switches | `AudioPathInv`, `AtMostOneStray`, `RingsAreQueues` |
| `store` | 1 guild, 2 bots, 1 channel, 2 binders, 2 changes, 1 failed operation, 2 lives | `YAMLStoreInv`, `ChannelsAreExclusive`, `StoreKeepsItsPromise`, `SavedInTheEnd` |
| `reconnect` | 2 repairs, 3 connections, 2 raids, 2 troubles, no overlap or one kind of it | `ReconnectInv`, `StallRejoinsAreSpaced`, `TroubleEnds` |
| `dave` | 2 sessions, 1 user and the unknown sender, 5 environments | `SessionsAgree`, `ExportIsMonotone`, `LeaversAreForgotten`, `SilenceIsReported` |
| `seed` | 2 bots, 2 callers, 2 handlers, 3 environments | `SeedingInv`, `MembersAreRegistered`, `SeekersAreAnswered` |
| `orphan` | a start while a stop is leaving voice | the finding below |

What the combined properties say, part by part:

* `StoppedStartsAreUndone`: what a stop that meets a start can promise. A start that is
  cancelled before its last look at the context (a guest's at any point) leaves, for good,
  no session, goroutine, pipeline or open input behind. After that look the promise is
  broken: `StopHonoured` states it for every stop, and `MCRaid_stoprace` below shows the
  raid that comes up. Without a stop that meets a start it would say next to nothing, so
  no passing run checks it. That the bots leave voice as well is another promise, below.
* `DeafeningInv`: types; one apply per bot at a time; the bot ends at the last
  wish unless a change was refused (`NoWishForgotten`); Close leaves no flag set
  if it may wait (`NoFlagStranded`).
* `AudioPathInv`: types; `OneOwner`; `FedToItsRing`.
* `YAMLStoreInv`: types; the file is whole at every moment a restart may read it;
  Close keeps all.
* `ReconnectInv`: types; one repair at a time; nothing outlives its connection
  (`NothingOutlivesItsConn`) or its raid (`StopLeavesNothing`); a raid at rest is
  heard (`RaidIsHeard`). `TroubleEnds`: silence ends, and so do the repairs.
* `SessionsAgree`: types; `KnownIsConservative`; `HoldersCount`.
* `SeedingInv`: types; one seeding at a time; no storm; `EnabledAsStored`.
  `SeekersAreAnswered`: whoever asks gets an answer, and then finds the guild
  seeded.

`RingsAreQueues` and `StoreKeepsItsPromise` are refinements: each step of
`AudioPath` is a step of `FrameQueues` or leaves its queues alone, and each step of
`YAMLStore` one of `Settings`.

Bounds. Two guilds are a host and a guest, or one guild that changes its part.
Three commands are the least in which a start, a second start and a stop
collide; four let a raid with a guest be stopped and followed by another. A
speaker bot beside the owner is enough for a partial leave; two let one join and
the other fail. Three destinations are enough for a promotion to travel against
the visiting order, and two callers are where the baseline changes; the proofs
remove both bounds. One user is enough for a dispatch to meet a switch, two
speakers for a packet that has to be copied, a ring of 2 for the oldest frame not
to be the newest. Two sessions are the least that share a series; one user suffices
since series of different users never meet outside the sums of the export. Two
bots, two callers and two handlers let an event fall between a probe and the
registration of another bot. One change of the caches already meets a recomputation at
every point of it, and the initial places are arbitrary, so every pair of an old
and a new state that differ in one change occurs.

All runs but `dave` switch the deadlock check off: the bounded commands, changes, packets
and troubles run out, the cascade returns. That nothing is stuck is what the
liveness properties say: `CommandsReturn`, `GuestsFollowHost`, `CascadeEnds`,
`ComesToRest`, `TeardownEnds`, `SavedInTheEnd`, `TroubleEnds`,
`LeaversAreForgotten`, `SilenceIsReported`, `SeekersAreAnswered` and
`StoppedStartsAreUndone`. In `dave` frames and gateway calls go on for ever, and the check
stays on.

Fairness. `FairSpec` of `RaidLifecycle` is weak fairness of each goroutine: a
start, a stop, a teardown and the parallel leaves. The code justifies it, since a
call to Discord carries a timeout, mutexes are held for short sections, and
`sync.Once` waits for leaves that are fair themselves. No operator is obliged to
issue a command and no watcher to fire. `Cascade` is one sequential loop, and
`WF(Next)` says only that it runs. The same holds of the others: in `Deafening` a
goroutine, a call or a timer that has begun goes on, and Discord answers and
publishes; in `YAMLStore` the flush loop runs; in `Reconnect` a repair, a start and
a stop that have begun go on, events are heard in the end, a stalled encryptor
keeps reporting and time passes; in `DaveSessions` a gateway call and a frame in
hand are carried through, a sender with speech ticks every 20 ms, and the
collector runs at its interval; in `Seeding` goroutines go on, each REST call
having a timeout. Nowhere is an operator, a caller, a failure or a crash obliged
to happen.

## Findings

Where the code, on the modelled schedules, does not do what a document, comment
or test of the repository says. The run `orphan` checks the first:

* `orphan`: `/start` again while `/stop` is still leaving voice. `RemoveHost`
  finds the newer relay session under the guild and closes that one; the guests
  of the stopped raid are never told (README.md:158).

The others have a property that states the promise and a configuration under which
TLC finds the schedule that breaks it (`tlc -config <cfg> <module>`; with
`-continue` where one configuration shows two):

| configuration, property | what happens |
|---|---|
| `MCRaid_stoprace`, `StopHonoured` | a `/stop` between the look at the context and `commitSession` cancels the start too late: it reports success, the start commits and the raid stays up, which the comment says the look prevents (`manager/voice_raid.go:400`, 405) |
| `MCRaid_stoprace`, `NoBotLeftBehind` in place of `StopHonoured` | the undo of a stopped start leaves voice on the context the stop has cancelled (`manager/voice_raid.go:236`) |
| `MCRouter_stale`, `RelayIsHeard` | of two overlapping recomputations the one with the older probes can be applied last (`manager/pipeline/helpers.go:232`) |
| `MCRouter_lifted`, `RouterPauseHolds` | a mixer the watcher parked and the router then paused is resumed by the watcher (`opus/drain.go:88`) |
| `MCRouter_closed`, `ClosedIsSilent` | `applyModes` does not look at `closed` again after the unlocked probes (`manager/router/router.go:265`, 644) |
| `MCDeafening_stale`, `CacheIsTrustworthy` | a change is skipped on a cached flag that an earlier change has already overtaken (`manager/speaker_deafen.go:66`) |
| `MCDeafening_strand`, `CloseUndoesAll` | an apply goroutine suspended before it counts itself into `applying` deafens its bot after Close has looked (`manager/speaker_deafen.go:425`) |
| `MCAudioPath_stray`, `NoStray` | a tick under way when the router pauses the mixer still puts its frame beside the raw packets (`manager/router/router.go:476`) |
| `MCAudioPath_bleed`, `BleedsWhenFull` | the queue's capacity equals the soft threshold it is compared with, after one frame was taken: the bleed-off never engages (`opus/voice_provider.go:41`) |
| `YAMLStore_unbind`, `OnlyGoneIsUnbound` | the sweep for a deleted channel removes a binding that was changed since it read it (`manager/channel_bindings.go:60`) |
| `YAMLStore_late`, `NoWriteAfterClose` | a handler still at work changes settings after the final save (`store/yaml_store.go`, Close) |
| `Reconnect_stop`, `StopsAreFinal` | a raid stopped between a repair's look and its join leaves the bot in voice (`manager/voice_reconnect.go:149`) |
| `Reconnect_loop`, `RepairsNeverLoop` | what a repair's own leave raises, heard after the repair, starts the next repair (`manager/voice_reconnect.go:100`) |
| `MCDaveSessions_leak`, `LeaversOfClosedAreForgotten` | a connection that closes with users in its channel releases none of them, and their series stay (`dave/stats.go:124`) |
| `MCDaveSessions_silence`, `NoFrameSilenced` | a user removed between look-up and backend costs a frame of silence, counted as a success (`dave/session.go:269`) |
| `MCSeeding_missed`, `NoMemberIsMissed` | a bot that joins between a first seeding's probe and its registration is registered by neither (`bot/handlers.go:88`) |

The passing runs show the same parts right once those overlaps are left out, so
the overlaps are what the divergences depend on; `StopHonoured`, which is only about
the overlap, is the exception, and `live` checks `StoppedStartsAreUndone` with the
overlap in. The fault `apply` is left out of
`orderly` too: when installing the owner bot's pipeline fails, the bot stays in
its channel (`manager/voice_raid.go:339`), which no document rules out.

## Proofs

`RaidLifecycleProofs`, from the assumptions `RegistryConstants` and
`LifecycleConstants` (None, Silent and Owner are distinct from what they must
not be confused with), for any sets of guilds, commands and speakers:

* `TypeCorrect`: `TypeOK`. It is not inductive: a stop reads `target` and `req`
  of a command it must know to have been issued. `TypeInv` adds `RequestOK`, what
  each command's request and target are at each step (`RequestsInv`).
* `StartGuardIsExclusive`: `StartsNeverCollide`. `GuardInv` says that a command
  past `tryBegin` holds its guild's reservation, and that the guild has no
  session while a start is between its look and its commit. Only a commit
  sets a session, and only the holder of the reservation commits.
* `BroadcastsAreSafe`: `NoSendOnClosed`. `RelayInv` follows a raid's channels:
  a raid whose channels a session holds has them open, is attached under its own
  guild only, a host to its own session and a guest to the one it joined, and a
  guest not beyond the detaching step of its teardown (`AttachedOK`). A stop
  detaches the right channels because the raid it takes is one of its own guild
  (`SessionOK`, `StopTargetOK`), and only a guest that has started has a teardown
  (`TeardownOK`).
* `InputsAreClosed`: `NoLeakedInputs`. `LeakInv` says who is still to close an open
  input (`OwnerOfOpenOK`: for a guest its own teardown), that a raid that was taken
  down registers none later and, as a guest, has been cancelled (`CleanedOK`), and that
  a stop cancels, detaches and cleans up in this order (`StopOrderOK`).

The same module, under the hypothesis `Orderly`, that `Races` is empty: a start or a join
is issued only in a guild where no command is at work (`Quiet`), a stop, a forget and an
idle stop only where no start runs. `orderly` checks its properties under it.
`MCRaid_stoprace.cfg` lets a stop overlap a start, and TLC then breaks
`NoBotLeftBehind` if it is put in place of `StopHonoured`: for it the hypothesis is needed. Run `orphan` lets a start
overlap a teardown and breaks `StopEndsGuests`.
Everything else is free: what fails, in which order guilds, speakers and goroutines take
their steps, and that a stop and an idle watcher's stop meet. The invariant has four more parts,
which TLC checked on three instances before they were proved:

* `OrderInv` says what the guards of the commands amount to: a start is alone in its
  guild (`AloneOK`), the session is of the start that works on it or there is none
  (`SessionFits`), and a raid a stop has taken is not up again (`TakenOK`). With it alone,
  `RaidsEndOnlyThemselves` (`OnlyItsOwnEnd`).
* `RegistryInv` says that a relay session that nobody has closed is found under its
  creator's guild and that somebody still keeps it: its raid or the stop that has taken it
  (`LiveOK`, `KeptBy`), what the registry's maps hold (`EntryOK`), and that a guest waits
  only while its raid is up or is being cancelled (`GuestOK`). It gives `HostsAreJoinable`
  (`RaidJoinable`) and `GuestsEndWithTheirHost` (`NoOrphanGuest`).
* `VoiceInv` says who is due to take a bot out of voice: a speaker in voice is one of a raid
  that has yet to be cleaned up (`CleanupDueOK`) or of a leave that is awaited
  (`LeavingOK`). It gives `RaidsKeepTheirBots` (`BotsServeTheirRaid`).
* `OwnerInv` says the same of the owner bot. It holds only where pipelines install: the
  error path for one that does not forgets the owner bot. So `NobodyIsLeftInVoice`
  (`NoBotLeftBehind`) has the hypothesis that `apply` is not among `Faults`.

`CascadeProofs`, from `CountsAreNaturals`, for every set of sources and
destinations, finite or not:

* `CascadeInv` says that modes only rise from the baseline and never revive an
  off source, that the destinations a pass has visited without a change are
  stable, and that whatever mixes has to (it is in every closed pair of sets).
* From it `CascadeIsLeast`, `CopyWritesAlone`, `OffMeansEmpty`, and
  `CascadeComputesRoutes`, which lets `Router` use `RouteRules`.

`DaveSessionsProofs`, from `DaveConstants` (finitely many sessions, `Unknown` is no
user, a stall has a positive length, environments have numeric bounds), for any
number of users:

* `MirrorIsConservative`: `KnownIsConservative`. It needs `MidCall`, what a
  gateway goroutine may rely on in the middle of a call: between the backend's add
  and the mirror the backend has the user, and between the mirror's removal and the
  backend's the mirror has not.
* `HoldersAreCounted`: `HoldersCount`. Only Keep and Retire change the set of
  sessions that hold a user, by exactly one session each, and the count goes with
  it; every other step leaves both alone.
* `SessionsAlwaysAgree`: `SessionsAgree`, the two with the type invariant. The
  reference counts are natural numbers because they are cardinalities. Of `retired`
  the type says only its domain: its values are sums over a set defined by
  recursion, which the provers cannot bound.

`RouterProofs`, from `RouterConstants` (distinct names, finitely many people), for any
sources, destinations, people, recomputations and watched mixers:

* `RouterSafety`: `SafeInv`, which puts together that only the run in `applyModes` holds
  the lock (`LockInv`), that what is published for a source is what its mixers' inputs
  are of and what its teardown will remove (`SlotInv`), what a run has applied so far
  (`InstallInv`) and that the outputs of a copy-mode source are not mixed into
  (`WritersInv`). Half way through applying modes two sources of one destination may
  both be on, since each is switched on its own; so `WritersInv` speaks of the other
  sources only while the lock is free, and rests then on the rule of `RouteRules`
  (`CopyIsAlone`).
* From it `WritersAreAlone`, `InputsAreOfInstalls`, `OnlyWatchersPark`.
* `RouterConverges`: `Converged`. A run probes without the lock, so what it has seen may
  be stale when it applies it; `ConvergingInv` says that whenever nothing is pending,
  everything a run has seen (`SeenInv`) and applied (`AppliedInv`) is still so, because
  whatever changes it leaves an event, an armed timer or a run at its beginning
  behind. It is stated for runs that do not overlap, as `Converged` is: overlapping
  runs may apply their results in any order.

`YAMLStoreProofs`, from `NoneAssumption` and `TornAssumption` (no channel, role, code, locale or
binder is `None`, a torn file is not what any settings are written as), for any guilds, bots, channels, roles and binding requests:

* `LoadUndoesSave`: loading what `save` writes gives the settings back. It needs that
  every entry of the file is the one of its key (`FileEntries`, `EntriesFor`).
* `StoreInvariant`: `StoreInv`, which follows a save through its file operations (the
  temporary file is the whole settings when it is renamed, `LoopInv`), says that
  whatever a power loss may leave on the disk is a file of settings the store could have
  (`DiskInv`), and that a binding somebody has checked is still free while he holds the lock
  (`BindInv`). From it `StoreIsSafe` and `BindingsAreExclusive`.
* `StoreKeepsPromise`: `StoreKeepsItsPromise`, by `LoadUndoesSave` and `StoreInv`.

`AudioPathProofs`, from `CapAssumption` and `AudioConstants` (positive thresholds, `None`
is neither user nor buffer, at least one speaker), for any users, speakers, buffers and
capacities:

* `FeedIsQueue` and the lemmas `PopRing` and `PushRing`: what the index arithmetic of the
  ring does to the sequence of its frames. `RingOK` says that the counted slots, and no
  others, hold frames, and no buffer is in two slots.
* `BuffersHaveOneOwner`: `AudioPathInv`. Its `OneOwner` counts places; the inductive form
  is `Owned`: of every buffer some place (the pool, a ring, the tick, a queue at an
  index, a provider) may have it and no other, and a step names the new place of each
  buffer it moves. `CacheInv` orders the versions of cache, install and switch, so a
  cache that is hit is the one of the install it is read with.
* `StraysAreFew`: `AtMostOneStray`. `StrayInv` says who may still put a packet of the old
  mode into a queue, and that whoever may has not yet.
* `NothingIsBledOff`: a provider never skips a packet, whatever the threshold; the
  divergence `MCAudioPath_bleed` shows at 3 is not one of that value.
* `RingsImplementQueues`: `RingsAreQueues`.

`ReconnectProofs`, from `BackoffAssumption`, `BoundAssumption` (the bounds are natural
numbers) and `ConnAssumption` (`NoConn` is no connection), for any goroutines, connections,
raids, troubles and sets of overlaps:

* `RejoinsAreSpaced`: `StallRejoinsAreSpaced`. The time since the last rejoin and what is
  left of the delay add up to the spacing that is due (`SpacedInv`); a quiet period resets
  both.
* `RepairsAreSafe`: `ReconnectInv`. `OneRepairAtATime` is inductive together with the types,
  because it says when the in-flight mark is up and not only that repairs are alone. The
  rest of `RepairInv` is conditional on the overlaps, as the properties are. `UnhurtInv`
  says what a repair has brought about at each of its steps (`ProgressInv`, `OnItsConn`),
  that a raid is heard or something is under way that repairs it (`DueInv`), that a
  repair waits for the speaker's own move (`OwnInv`), and who may still be at work when
  a pipeline is applied again or a raid starts (`ReapplyInv`, `StartInv`). `CalmInv` adds
  what may be left of a connection (`LeftoverInv`) and of a raid (`StoppedInv`).
  TLC checked `RepairInv` with no overlap, with each alone, and with late news and a
  stop at the join together, before it was proved.

`DeafeningProofs`, from `DeafAssumption` (the owner is a bot, the retry limit is positive, the
bounds are natural numbers), for any bots, bounds and environments:

* `FlagsAreLookedAfter`: `DeafeningInv`. Its last two parts speak only of rest and of the end;
  `DeafInd` says bot by bot what leads there: a change in flight is exactly one goroutine,
  and what the router wants and the bot is not has a timer, a goroutine or a spent budget
  (`MemberOK`); which calls each phase of the raid makes (`PhaseOK`); where the cache follows
  at once, that it shows the flag (`CurrentOK`) and that the controller's record of the
  flag is true unless a change is in flight (`RecordOK`); and that what Close has still to
  undo is on its list (`RestoreOK`). Each of the last three is conditional on the
  environment as the property it serves is. `ReconcileFacts` says once what
  `reconcileLocked` does to a member; a report, a timer and an answer all rest on it.
* `RefusalsAreNotHammered`: `RetriesArePaced`. Only a report and a timer's callback
  start a goroutine where none is, and a report that asks for the same keeps the refusal.

Model-checked only: the liveness properties, since temporal reasoning under
fairness and ENABLED are out of the prover's reach; `ExportIsMonotone`, for the
sums; everything about `Seeding`, whose `StormIsHeld` bounds a sum as well.

## Not modelled

* Codecs, mixing arithmetic and the MLS protocol: computations of libraries or
  of one goroutine, without interleaving.
* The presence polling that lets an idle watcher fire (it may fire at any time).
* The one-caller and star-caller topologies: their starts and cleanups have
  GuildCaller's shape, and the cascade is checked and proved for any topology.
* The pool's gateway clients. Opening them is start-up work; the watchdog's one
  reconnect path is for a bot without a gateway, and a bot that failed to start is
  not in the watchdog's map, so the path is not taken.
* The cached verdicts of the allow filter: `Router`'s probes read the roles
  themselves, and `RoleChange` is the nudge a change gives.
* Shutdown, which is a stop per guild; configuration, replies, setup UI,
  metrics and translations.
* A composition of `Router`, `Deafening` or `Reconnect` with `RaidLifecycle` in
  one state space: the products are out of TLC's reach at bounds where both sides
  do something. Each module takes from the others what it needs as an environment
  (a stop at any point, a capture report at any time).

## Plan

1. Lifecycle, registry and guard; the cascade and its proof; the router with its
   watchers; first theorems. *Done.*
2. Deafening; reconnect with the stall backoff; the audio path and its refinement
   of queues; the settings store and its refinement; DAVE sessions with their
   proof; seeding and the ready guard. *Done.*
3. Proofs: `Router`, `YAMLStore` with its refinement, `AudioPath` with its refinement,
   `Reconnect`, the orderly `RaidLifecycle`, `Deafening`. *Done.* Left: `OneSeedingAtATime`,
   `EnabledAsStored` and `MembersAreRegistered` of `Seeding`.
4. The other topologies as instances of `Router`.
