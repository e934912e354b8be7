------------------------------ MODULE Seeding ------------------------------
(***************************************************************************)
(* The speakers the manager has registered in one guild: seeding (at READY,*)
(* when the owner bot joins the guild, and on demand before a command),    *)
(* the member and guild events, each handled on a goroutine of its own,    *)
(* and the toggle of a speaker (manager/service_commands.go, service.go,   *)
(* bot/handlers.go, bot/middleware.go).                                    *)
(***************************************************************************)
EXTENDS ReadyGuard, FiniteSets

CONSTANTS Bots,           \* the pool's speaker bots
          Callers,        \* goroutines that seed or make sure of a seeding, once each
          Handlers,       \* goroutines of member and guild events
          NoCaller,
          Environments    \* what goes on, one of which each behaviour begins in

ASSUME SeedingConstants ==
    /\ NoCaller \notin Callers
    /\ Environments \subseteq
           [overlap : BOOLEAN,   \* events come while seedings or other events are handled
            events : Nat,        \* bound: members and owner bots that join or leave
            toggles : Nat,       \* bound: speakers switched on or off
            readies : Nat,       \* bound: READYs of the owner bot
            faults : Nat]        \* bound: look-ups of members and users that fail

VARIABLES
    env,
    member,      \* the bots in the guild, as Discord has it
    inGuild,     \* whether the owner bot is
    seeded,      \* the guild has an entry in statuses
    speakers,    \* Status.Speakers: absent, or registered as "on" or "off"
    stored,      \* the store's enabled flags
    inFlight,    \* seedGroup.inFlight: the caller that seeds
    done,        \* the callers whose done channel is closed
    caller,      \* where a caller is, what it has to probe and what it found
    handler,     \* the event a goroutine handles
    seen,        \* readyGuard.seen, by age
    admitted,    \* history: the READYs that were let through, by age
    used         \* how often each bounded thing has happened

guardVars == <<seen, admitted>>
statusVars == <<seeded, speakers>>
worldVars == <<member, inGuild>>
flightVars == <<inFlight, done>>
vars == <<env, worldVars, statusVars, stored, flightVars, caller, handler, guardVars, used>>

Entries == {"absent", "on", "off"}
Empty == [b \in Bots |-> "absent"]
Idle == [at |-> "idle", left |-> {}, found |-> Empty, on |-> NoCaller]
Free == [what |-> "none", bot |-> {}, entry |-> "absent"]

TypeOK ==
    /\ env \in Environments
    /\ member \subseteq Bots /\ inGuild \in BOOLEAN
    /\ seeded \in BOOLEAN
    /\ speakers \in [Bots -> Entries] /\ (~seeded => speakers = Empty)
    /\ stored \in [Bots -> BOOLEAN]
    /\ inFlight \in Callers \cup {NoCaller} /\ done \subseteq Callers
    /\ caller \in [Callers -> [at : {"idle", "look", "seed", "probe", "warm", "wait", "back"},
                               left : SUBSET Bots, found : [Bots -> Entries],
                               on : Callers \cup {NoCaller}]]
    /\ handler \in [Handlers -> [what : {"none", "join", "insert", "leave", "forget"},
                                 bot : SUBSET Bots, entry : Entries]]
    /\ seen \in [Ages -> 0..env.readies] /\ admitted \in [Ages -> 0..env.readies]
    /\ used \in [events : 0..env.events, toggles : 0..env.toggles,
                 readies : 0..env.readies, faults : 0..env.faults]

Init ==
    /\ env \in Environments
    /\ member \in SUBSET Bots /\ inGuild = TRUE
    /\ seeded = FALSE /\ speakers = Empty
    /\ stored = [b \in Bots |-> TRUE]
    /\ inFlight = NoCaller /\ done = {}
    /\ caller = [c \in Callers |-> Idle] /\ handler = [h \in Handlers |-> Free]
    /\ seen = NoneSeen /\ admitted = NoneSeen
    /\ used = [events |-> 0, toggles |-> 0, readies |-> 0, faults |-> 0]

Happens(what) == used[what] < env[what] /\ used' = [used EXCEPT ![what] = @ + 1]

\* What the store says of a bot, as newSpeaker puts it into the entry.
NewSpeaker(b) == IF stored[b] THEN "on" ELSE "off"

\* Between the first probe of a seeding and its registration.
Probing == \E c \in Callers : caller[c].at = "probe"
Handling == \E h \in Handlers : handler[h] # Free

-----------------------------------------------------------------------------
(* Who seeds *)

CallAs(c, at) ==
    /\ caller[c].at = "idle"
    /\ caller' = [caller EXCEPT ![c].at = at]
    /\ env.overlap \/ ~Handling

\* A command, button or menu: EnsureGuildReady.
CommandComes(c) ==
    /\ inGuild
    /\ CallAs(c, "look")
    /\ UNCHANGED <<env, worldVars, statusVars, stored, flightVars, handler, guardVars, used>>

\* onReady: a READY that is let through seeds, one that is not is only recorded.
Ready(c) ==
    /\ inGuild /\ Happens("readies")
    /\ seen' = Recorded(seen)
    /\ IF Admits(seen)
       THEN CallAs(c, "seed") /\ admitted' = Recorded(admitted)
       ELSE UNCHANGED <<caller, admitted>>
    /\ UNCHANGED <<env, worldVars, statusVars, stored, flightVars, handler>>

TimePasses ==
    /\ Seen(seen) > 0
    /\ seen' = Older(seen) /\ admitted' = Older(admitted)
    /\ UNCHANGED <<env, worldVars, statusVars, stored, flightVars, caller, handler, used>>

\* onGuildJoin
OwnerJoins(c) ==
    /\ ~inGuild /\ inGuild' = TRUE
    /\ Happens("events")
    /\ CallAs(c, "seed")
    /\ UNCHANGED <<env, member, statusVars, stored, flightVars, handler, guardVars>>

-----------------------------------------------------------------------------
(* Seeding, one at a time *)

\* EnsureGuildReady returns at once if the guild has a status.
Look(c) ==
    /\ caller[c].at = "look"
    /\ caller' = [caller EXCEPT ![c].at = IF seeded THEN "back" ELSE "seed"]
    /\ UNCHANGED <<env, worldVars, statusVars, stored, flightVars, handler, guardVars, used>>

\* Slip: whoever comes while another seeds does not wait for it.
MeanwhileReturns(c) == [Idle EXCEPT !.at = "back"]

\* Who comes while another seeds waits for it.
Meanwhile(c) == [Idle EXCEPT !.at = "wait", !.on = inFlight]

\* Slip: nobody looks for a seeding in flight.
NoneInFlightUnchecked == TRUE

NoneInFlight == inFlight = NoCaller

\* seedGroup.do up to fn.
Do(c) ==
    /\ caller[c].at = "seed"
    /\ IF NoneInFlight
       THEN /\ inFlight' = c
            /\ caller' = [caller EXCEPT ![c] = [Idle EXCEPT !.at = "probe", !.left = Bots]]
       ELSE /\ caller' = [caller EXCEPT ![c] = Meanwhile(c)]
            /\ UNCHANGED inFlight
    /\ UNCHANGED <<env, worldVars, statusVars, stored, done, handler, guardVars, used>>

Wake(c) ==
    /\ caller[c].at = "wait" /\ caller[c].on \in done
    /\ caller' = [caller EXCEPT ![c] = [Idle EXCEPT !.at = "back"]]
    /\ UNCHANGED <<env, worldVars, statusVars, stored, flightVars, handler, guardVars, used>>

\* seedGuildSpeakers asks for one bot after the other, without the lock.  A look-up
\* that fails counts as "no member".  isGuildMember asks its member cache first: that
\* one follows the events that change member, none of which is lost here.
Probe(c, b) ==
    /\ caller[c].at = "probe" /\ b \in caller[c].left
    /\ \/ /\ caller' = [caller EXCEPT ![c].left = @ \ {b},
                             ![c].found[b] = IF b \in member THEN NewSpeaker(b) ELSE "absent"]
          /\ UNCHANGED used
       \/ /\ b \in member /\ Happens("faults")
          /\ caller' = [caller EXCEPT ![c].left = @ \ {b}]
    /\ UNCHANGED <<env, worldVars, statusVars, stored, flightVars, handler, guardVars>>

\* Slip: what the seeding found replaces what is registered.
MergedOver(c, b) == IF caller[c].found[b] # "absent" THEN caller[c].found[b] ELSE speakers[b]

\* A speaker that is registered stays as it is.
Merged(c, b) == IF speakers[b] # "absent" THEN speakers[b] ELSE caller[c].found[b]

\* The rest of seedGuildSpeakers, under the lock.
Register(c) ==
    /\ caller[c].at = "probe" /\ caller[c].left = {}
    /\ seeded' = TRUE
    /\ speakers' = [b \in Bots |-> Merged(c, b)]
    /\ caller' = [caller EXCEPT ![c] = [Idle EXCEPT !.at = "warm"]]
    /\ UNCHANGED <<env, worldVars, stored, flightVars, handler, guardVars, used>>

\* Slip: the done channel is not closed.
ClosedByNot(c) == {}

ClosedBy(c) == {c}

\* The cache is warm: seedGroup.do's deferred end.
Finish(c) ==
    /\ caller[c].at = "warm"
    /\ inFlight' = NoCaller
    /\ done' = done \cup ClosedBy(c)
    /\ caller' = [caller EXCEPT ![c] = [Idle EXCEPT !.at = "back"]]
    /\ UNCHANGED <<env, worldVars, statusVars, stored, handler, guardVars, used>>

-----------------------------------------------------------------------------
(* Events, each on its own goroutine, and the toggle *)

Handle(h, what, B) ==
    /\ env.overlap \/ (~Handling /\ ~Probing /\ \A c \in Callers : caller[c].at # "seed")
    /\ handler[h] = Free
    /\ handler' = [handler EXCEPT ![h] = [Free EXCEPT !.what = what, !.bot = B]]

\* onGuildMemberAdd and onGuildMemberLeave.
MemberJoins(h, b) ==
    /\ inGuild /\ b \notin member /\ member' = member \cup {b}
    /\ Happens("events") /\ Handle(h, "join", {b})
    /\ UNCHANGED <<env, inGuild, statusVars, stored, flightVars, caller, guardVars>>

MemberLeaves(h, b) ==
    /\ inGuild /\ b \in member /\ member' = member \ {b}
    /\ Happens("events") /\ Handle(h, "leave", {b})
    /\ UNCHANGED <<env, inGuild, statusVars, stored, flightVars, caller, guardVars>>

\* onGuildLeave; afterwards nobody tells the owner bot of the members.
OwnerLeaves(h) ==
    /\ inGuild /\ inGuild' = FALSE
    /\ env.overlap \/ \A c \in Callers : caller[c].at \in {"idle", "back"}
    /\ member' \in SUBSET Bots
    /\ Happens("events") /\ Handle(h, "forget", {})
    /\ UNCHANGED <<env, statusVars, stored, flightVars, caller, guardVars>>

Ends(h) == handler' = [handler EXCEPT ![h] = Free]

\* TrySeedMember reads the bot's flag without the lock, or finds no user for it and
\* gives up ...
JoinReads(h) ==
    /\ handler[h].what = "join"
    /\ \/ /\ \E b \in handler[h].bot :
                handler' = [handler EXCEPT ![h].what = "insert", ![h].entry = NewSpeaker(b)]
          /\ UNCHANGED used
       \/ Happens("faults") /\ Ends(h)
    /\ UNCHANGED <<env, worldVars, statusVars, stored, flightVars, caller, guardVars>>

\* Slip: a guild without a status gets the speaker as well.
InsertsAnyhow(b) == speakers[b] = "absent"

\* A registered speaker stays registered as it is.
Inserts(b) == seeded /\ speakers[b] = "absent"

\* ... and then registers it.
TrySeedMember(h) ==
    /\ handler[h].what = "insert"
    /\ Ends(h)
    /\ \E b \in handler[h].bot :
          speakers' = IF Inserts(b)
                      THEN [speakers EXCEPT ![b] = handler[h].entry] ELSE speakers
    /\ UNCHANGED <<env, worldVars, seeded, stored, flightVars, caller, guardVars, used>>

\* Slip: the speaker is only switched off.
RemovedOff(b) == "off"

RemovedEntry(b) == "absent"

RemoveSpeaker(h) ==
    /\ handler[h].what = "leave"
    /\ Ends(h)
    /\ \E b \in handler[h].bot :
          speakers' = IF speakers[b] = "absent" THEN speakers
                      ELSE [speakers EXCEPT ![b] = RemovedEntry(b)]
    /\ UNCHANGED <<env, worldVars, seeded, stored, flightVars, caller, guardVars, used>>

\* Its stop of the raid is RaidLifecycle's.
ForgetGuild(h) ==
    /\ handler[h].what = "forget"
    /\ Ends(h)
    /\ seeded' = FALSE /\ speakers' = Empty
    /\ UNCHANGED <<env, worldVars, stored, flightVars, caller, guardVars, used>>

ToggleSpeaker(b, on) ==
    /\ inGuild /\ speakers[b] # "absent"
    /\ Happens("toggles")
    /\ speakers' = [speakers EXCEPT ![b] = IF on THEN "on" ELSE "off"]
    /\ stored' = [stored EXCEPT ![b] = on]
    /\ UNCHANGED <<env, worldVars, seeded, flightVars, caller, handler, guardVars>>

-----------------------------------------------------------------------------
(* The specification *)

Seeder(c) == Look(c) \/ Do(c) \/ Wake(c) \/ Register(c) \/ Finish(c) \/ \E b \in Bots : Probe(c, b)
Event(h) == JoinReads(h) \/ TrySeedMember(h) \/ RemoveSpeaker(h) \/ ForgetGuild(h)

Next ==
    \/ \E c \in Callers : CommandComes(c) \/ Ready(c) \/ OwnerJoins(c) \/ Seeder(c)
    \/ \E h \in Handlers :
          \/ OwnerLeaves(h) \/ Event(h)
          \/ \E b \in Bots : MemberJoins(h, b) \/ MemberLeaves(h, b)
    \/ \E b \in Bots, on \in BOOLEAN : ToggleSpeaker(b, on)
    \/ TimePasses

Spec == Init /\ [][Next]_vars

\* Goroutines go on.
FairSpec ==
    /\ Spec
    /\ \A c \in Callers : WF_vars(Seeder(c))
    /\ \A h \in Handlers : WF_vars(Event(h))

-----------------------------------------------------------------------------
(* Properties *)

\* Whoever asks for a seeding while one is in flight joins it: the look-ups of a
\* guild are never made twice at a time (seedGroup).
OneSeedingAtATime ==
    Cardinality({c \in Callers : caller[c].at \in {"probe", "warm"}}) <= 1

\* A command that has waited for EnsureGuildReady finds the guild's status, where
\* the owner bot does not leave the guild meanwhile.
ReturnsSeeded ==
    [][\A c \in Callers :
          caller[c].at # "back" /\ caller'[c].at = "back" /\ ~env.overlap => seeded']_vars

\* Nothing is under way.
Rest ==
    /\ ~Handling
    /\ \A c \in Callers : caller[c].at \in {"idle", "back"}

Registered == {b \in Bots : speakers[b] # "absent"}

\* At rest the bots registered are the members of the guild, through any sequence
\* of joins, leaves, seedings and forgotten guilds, if no event falls into a
\* seeding or another event's handling and no look-up fails.
MembersAreRegistered ==
    Rest /\ seeded /\ ~env.overlap /\ env.faults = 0 => Registered = member

\* A speaker is registered as the store has it, though seedings and joins read the
\* flag without the lock a toggle takes: what was read too early is not used.
EnabledAsStored ==
    ~env.overlap => \A b \in Registered : (speakers[b] = "on") = stored[b]

\* However often the gateway identifies, no window sees more seedings than the
\* limit (readyGuard).
StormIsHeld == Seen(admitted) <= Limit

\* Everyone who asked for a seeding gets an answer.
SeedersReturn == \A c \in Callers : caller[c].at # "idle" ~> caller[c].at = "back"

\* Whoever asks for a seeding gets an answer and then finds the guild seeded.
SeekersAreAnswered == ReturnsSeeded /\ SeedersReturn

\* What holds of the seeding in every state: the types, one seeding at a time, no
\* storm of them, and speakers registered as the store has them.
SeedingInv == TypeOK /\ OneSeedingAtATime /\ StormIsHeld /\ EnabledAsStored

\* "If the member is an unregistered pool speaker bot it is automatically
\* registered" (onGuildMemberAdd), whatever else goes on.
NoMemberIsMissed == Rest /\ seeded /\ inGuild => member \subseteq Registered
=============================================================================
