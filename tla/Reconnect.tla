------------------------------ MODULE Reconnect ------------------------------
(* The repair of one speaker bot's voice connection in one guild, beside the  *)
(* start and the stop of raids: ReconnectBotChannel, reapplyAfterVoiceReady   *)
(* and what sets them off (manager/voice_reconnect.go, voice_ready_watch.go), *)
(* with what disgo keeps per connection (pool/voice_ready.go, the audio       *)
(* sender and receiver registries).  Every map of the code is keyed by guild  *)
(* and bot, so one pair stands for all.                                       *)
(*                                                                            *)
(* What the code does not wait for is named in Overlaps.  A run chooses which *)
(* of these may happen: in a calm one none does.                              *)
EXTENDS StallBackoff, FiniteSets

CONSTANTS Workers,         \* goroutines that repair
          Conns,           \* connections; a removed one that holds nothing is reused
          NoConn,
          Environments,    \* sets of overlaps, one of which a behaviour has
          MaxRaids,        \* bound: raids started
          MaxTrouble,      \* bound: moves, re-identifications, stalls and lost gateways
          MaxJoinFaults,   \* bound: joins that fail, and repairs that find no channel
          MaxNews          \* bound: voice events the owner bot has not processed

Overlaps == {"StartInRepair",    \* a raid starts while a repair runs, or a stop does
             "StopAtJoin",       \* a raid is stopped after a repair has looked for one
             "TroubleInRepair",  \* the connection is troubled while a repair runs
             "LateNews",         \* what a repair's own leave sets off runs after the repair
             "SlowListener"}     \* the speaker's own listener takes longer than the wait

ASSUME EnvironmentAssumption == Environments \subseteq SUBSET Overlaps
ASSUME ConnAssumption == NoConn \notin Conns
ASSUME BoundAssumption == MaxRaids \in Nat /\ MaxTrouble \in Nat /\ MaxJoinFaults \in Nat /\ MaxNews \in Nat

VARIABLES
    allows,       \* the overlaps of this behaviour
    session,      \* the raid that is committed, 0 for none
    raids,        \* raids begun
    starter,      \* the start of a raid: where it is, with which connection
    stopper,      \* the stop of a raid: where it is
    applier,      \* the raid whose applier is registered, 0 for none
    slot,         \* the in-flight mark of the pair
    worker,       \* worker -> [at, conn, raid]
    conn,         \* the connection the voice manager has, or NoConn
    held,         \* connection -> the raid its sender and its receiver serve, its watch
    health,       \* of the connection: "good", or why it is silent
    place,        \* where Discord has the bot
    news,         \* leave and move events the owner bot has still to hear
    own,          \* the move or leave the speaker's own listener has still to hear
    backoff,      \* the stall backoff of the pair
    trouble, faults,
    gaveUp,       \* history: a rejoin failed twice, or found no channel
    since, streak \* history: time since the last rejoin for a stall, and how many in
                  \* a row, two standing for more

raidVars  == <<session, raids, starter, stopper>>
stallVars == <<backoff, since, streak>>
voiceVars == <<conn, held, health, place, news, own>>
vars == <<allows, raidVars, applier, slot, worker, voiceVars, stallVars,
          trouble, faults, gaveUp>>

Nothing == [sender |-> 0, receiver |-> 0, watch |-> FALSE]
NoMove  == [what |-> "none", conn |-> NoConn]
Off     == [at |-> "off", conn |-> NoConn, raid |-> 0]

Init ==
    /\ allows \in Environments
    /\ session = 0 /\ raids = 0
    /\ starter = [at |-> "idle", conn |-> NoConn] /\ stopper = "idle"
    /\ applier = 0 /\ slot = FALSE /\ worker = [w \in Workers |-> Off]
    /\ conn = NoConn /\ held = [c \in Conns |-> Nothing]
    /\ health = "good" /\ place = "out" /\ news = 0 /\ own = NoMove
    /\ backoff = Quiet /\ trouble = 0 /\ faults = 0 /\ gaveUp = FALSE
    /\ since = BackoffMax /\ streak = 0

-----------------------------------------------------------------------------
(***************************************************************************)
(* Connections.  newConn's removal hook releases all a connection holds.    *)
(***************************************************************************)
InUse == {conn, starter.conn, own.conn} \cup {worker[w].conn : w \in Workers}
FreeConns == {c \in Conns : c \notin InUse /\ held[c] = Nothing}

\* slip: only the ready watch is released
ReleasedWatchOnly(c) == [held EXCEPT ![c].watch = FALSE]

Released(c) == [held EXCEPT ![c] = Nothing]

\* disgo closes the connection, or GuildVoice.Leave does.
RemoveConn ==
    /\ conn' = NoConn
    /\ held' = IF conn = NoConn THEN held ELSE Released(conn)
    /\ health' = "good"

\* GuildVoice.Leave: the event of the leave goes to the owner bot.
LeaveVoice ==
    /\ RemoveConn
    /\ place' = IF conn = NoConn THEN place ELSE "out"
    /\ news' = IF conn # NoConn /\ place # "out" THEN news + 1 ELSE news
    /\ UNCHANGED own

CanLeave == news < MaxNews

\* GuildVoice.Join: a registered connection is opened again.
JoinAs(c) ==
    /\ IF conn = NoConn THEN c \in FreeConns ELSE c = conn
    /\ conn' = c
    /\ place' = "bound"
    /\ health' = "good"
    /\ UNCHANGED <<held, news, own>>

\* A failed Join leaves again, on a context of its own.
JoinFails ==
    /\ faults < MaxJoinFaults
    /\ faults' = faults + 1
    /\ CanLeave
    /\ RemoveConn
    /\ place' = "out"
    /\ news' = IF place # "out" THEN news + 1 ELSE news
    /\ UNCHANGED own

-----------------------------------------------------------------------------
(***************************************************************************)
(* Raids, as far as this bot is concerned.  Commands exclude each other's   *)
(* starts; a stop clears the session first and the appliers last.           *)
(***************************************************************************)
Repairing == \E w \in Workers : worker[w].at # "off"

StartJoin ==
    /\ starter.at = "idle" /\ session = 0 /\ raids < MaxRaids
    /\ "StartInRepair" \in allows \/ (~Repairing /\ stopper = "idle" /\ news = 0 /\ own = NoMove)
    /\ \E c \in Conns : JoinAs(c) /\ starter' = [at |-> "wire", conn |-> c]
    /\ raids' = raids + 1
    /\ UNCHANGED <<allows, session, stopper, applier, slot, worker, stallVars,
                   trouble, faults, gaveUp>>

\* VoiceConnSetup.Apply and watchVoiceReady.
StartWire ==
    /\ starter.at = "wire"
    /\ held' = [held EXCEPT ![starter.conn] = [sender |-> raids, receiver |-> raids, watch |-> TRUE]]
    /\ starter' = [starter EXCEPT !.at = "arm"]
    /\ UNCHANGED <<allows, session, raids, stopper, applier, slot, worker, conn, health, place,
                   news, own, stallVars, trouble, faults, gaveUp>>

StartArm ==
    /\ starter.at = "arm"
    /\ applier' = raids
    /\ starter' = [starter EXCEPT !.at = "commit"]
    /\ UNCHANGED <<allows, session, raids, stopper, slot, worker, voiceVars, stallVars,
                   trouble, faults, gaveUp>>

StartCommit ==
    /\ starter.at = "commit"
    /\ session' = raids
    /\ starter' = [at |-> "idle", conn |-> NoConn]
    /\ UNCHANGED <<allows, raids, stopper, applier, slot, worker, voiceVars, stallVars,
                   trouble, faults, gaveUp>>

\* Where a repair has seen a raid and not yet finished what it does for one.
PastTheCheck == {"join", "join2", "load", "provider", "receiver", "watch"}

StopTake ==
    /\ stopper = "idle" /\ session # 0
    /\ "StopAtJoin" \in allows \/ \A w \in Workers : worker[w].at \notin PastTheCheck
    /\ session' = 0 /\ stopper' = "leave"
    /\ UNCHANGED <<allows, raids, starter, applier, slot, worker, voiceVars, stallVars,
                   trouble, faults, gaveUp>>

StopLeave ==
    /\ stopper = "leave" /\ CanLeave
    /\ LeaveVoice
    /\ stopper' = "clear"
    /\ UNCHANGED <<allows, session, raids, starter, applier, slot, worker, stallVars,
                   trouble, faults, gaveUp>>

\* reconnectState.clearGuild: appliers and backoff, not the in-flight mark.
ClearGuild == applier' = 0 /\ backoff' = Quiet

StopClear ==
    /\ stopper = "clear"
    /\ ClearGuild
    /\ since' = BackoffMax /\ streak' = 0
    /\ stopper' = "idle"
    /\ UNCHANGED <<allows, session, raids, starter, slot, worker, voiceVars,
                   trouble, faults, gaveUp>>

-----------------------------------------------------------------------------
(***************************************************************************)
(* What goes wrong with a connection, and what it sets off.                 *)
(***************************************************************************)
Spawn(w, at, c) == worker[w] = Off /\ worker' = [worker EXCEPT ![w] = [Off EXCEPT !.at = at, !.conn = c]]

MayTrouble ==
    /\ session # 0 /\ trouble < MaxTrouble
    /\ "TroubleInRepair" \in allows
       \/ (~Repairing /\ news = 0 /\ own = NoMove /\ health = "good" /\ place = "bound")

\* A moderator drags the bot to another channel or out of voice.
Moved ==
    /\ MayTrouble /\ place = "bound" /\ own = NoMove /\ news < MaxNews
    /\ place' \in {"out", "other"}
    /\ news' = news + 1
    /\ own' = [what |-> place', conn |-> conn]
    /\ trouble' = trouble + 1
    /\ UNCHANGED <<allows, raidVars, applier, slot, worker, conn, held, health, stallVars,
                   faults, gaveUp>>

\* The speaker's own listener: disgo closes a connection that has left.  An event
\* meant for a connection that is gone hits the one that has taken its place.
OwnListens ==
    /\ own # NoMove
    /\ own' = NoMove
    /\ \/ /\ own.what = "out" /\ RemoveConn
       \/ /\ own.what = "other"
          /\ health' = IF conn \notin {NoConn, own.conn} THEN "astray" ELSE health
          /\ UNCHANGED <<conn, held>>
    /\ UNCHANGED <<allows, raidVars, applier, slot, worker, place, news, stallVars,
                   trouble, faults, gaveUp>>

\* A voice server disconnects the bot: disgo closes the connection itself.
Disconnected ==
    /\ MayTrouble /\ conn # NoConn /\ place = "bound" /\ CanLeave
    /\ LeaveVoice
    /\ trouble' = trouble + 1
    /\ UNCHANGED <<allows, raidVars, applier, slot, worker, stallVars, faults, gaveUp>>

\* onVoiceLeave, onVoiceMove and OnBotVoiceMove at the owner bot.
HearNews ==
    /\ news > 0
    /\ news' = news - 1
    /\ IF session = 0 THEN UNCHANGED worker
       ELSE \E w \in Workers : Spawn(w, "try", NoConn)
    /\ UNCHANGED <<allows, raidVars, applier, slot, conn, held, health, place, own, stallVars,
                   trouble, faults, gaveUp>>

\* disgo re-identifies the voice gateway: a new socket, and the pipeline on the old one.
Reidentified ==
    /\ MayTrouble /\ conn # NoConn /\ health = "good"
    /\ health' = "orphaned"
    /\ IF held[conn].watch THEN \E w \in Workers : Spawn(w, "tryApply", conn)
       ELSE UNCHANGED worker
    /\ trouble' = trouble + 1
    /\ UNCHANGED <<allows, raidVars, applier, slot, conn, held, place, news, own, stallVars,
                   faults, gaveUp>>

\* OnSpeakerFreshGateway: the voice connection is dead, and no voice event says so.
FreshGateway ==
    /\ MayTrouble /\ conn # NoConn
    /\ health' = "dead"
    /\ \E w \in Workers : Spawn(w, "try", NoConn)
    /\ trouble' = trouble + 1
    /\ UNCHANGED <<allows, raidVars, applier, slot, conn, held, place, news, own, stallVars,
                   faults, gaveUp>>

Stalls ==
    /\ MayTrouble /\ conn # NoConn /\ health = "good" /\ held[conn].sender # 0
    /\ health' = "stalled"
    /\ trouble' = trouble + 1
    /\ UNCHANGED <<allows, raidVars, applier, slot, worker, conn, held, place, news, own,
                   stallVars, faults, gaveUp>>

\* OnEncryptStall: reported again and again by a sender that stays stalled.
StallReport ==
    /\ conn # NoConn /\ health = "stalled" /\ held[conn].sender # 0
    /\ backoff' = Reported(backoff)
    /\ backoff' # backoff
    /\ IF Due(backoff)
       THEN /\ \E w \in Workers : Spawn(w, "try", NoConn)
            /\ since' = 0 /\ streak' = Least(streak + 1, 2)
       ELSE UNCHANGED <<worker, since, streak>>
    /\ UNCHANGED <<allows, raidVars, applier, slot, voiceVars, trouble, faults, gaveUp>>

\* Time passes for the backoff; a repair takes less than a unit of it.
Tick ==
    /\ ~Repairing
    /\ backoff # Quiet \/ since < BackoffMax
    /\ backoff' = Later(backoff)
    /\ since' = Least(since + 1, BackoffMax)
    /\ streak' = IF Later(backoff) = Quiet THEN 0 ELSE streak
    /\ UNCHANGED <<allows, raidVars, applier, slot, worker, voiceVars, trouble, faults, gaveUp>>

-----------------------------------------------------------------------------
(***************************************************************************)
(* A repair, by one goroutine.                                              *)
(***************************************************************************)
Goes(w, from, to) == worker[w].at = from /\ worker' = [worker EXCEPT ![w].at = to]

\* What a step of a repair between two calls leaves alone.
Local == <<allows, raidVars, applier, stallVars, trouble, gaveUp>>

\* slip: the mark is looked at and set in two steps
TryLockUnchecked(w) ==
    /\ worker[w].at \in {"try", "tryApply"}
    /\ slot' = TRUE
    /\ Goes(w, worker[w].at, IF worker[w].at = "try" THEN "check" ELSE "checkApply")
    /\ UNCHANGED <<voiceVars, faults, Local>>

\* tryLock: a repair that finds another in flight is dropped.
TryLock(w) ==
    /\ worker[w].at \in {"try", "tryApply"}
    /\ IF slot THEN worker' = [worker EXCEPT ![w] = Off] /\ UNCHANGED slot
       ELSE /\ slot' = TRUE
            /\ Goes(w, worker[w].at, IF worker[w].at = "try" THEN "check" ELSE "checkApply")
    /\ UNCHANGED <<voiceVars, faults, Local>>

\* HasActiveSession, the first time.
Check(w) ==
    /\ Goes(w, "check", IF session = 0 THEN "unlock" ELSE "drain")
    /\ UNCHANGED <<slot, voiceVars, faults, Local>>

\* liveBoundChannel or speakerVoice finds nothing: the bot's channel has been deleted
\* or unbound during the raid, or its client is gone.
CheckFindsNoVoice(w) ==
    /\ session # 0 /\ faults < MaxJoinFaults
    /\ Goes(w, "check", "unlock")
    /\ faults' = faults + 1
    /\ gaveUp' = TRUE
    /\ UNCHANGED <<allows, raidVars, applier, slot, voiceVars, stallVars, trouble>>

\* waitSpeakerConnDrained: until the speaker has heard of its move, or 500 ms.
Drain(w) ==
    /\ own = NoMove \/ "SlowListener" \in allows
    /\ Goes(w, "drain", "leave")
    /\ UNCHANGED <<slot, voiceVars, faults, Local>>

Leave(w) ==
    /\ CanLeave
    /\ Goes(w, "leave", "recheck")
    /\ LeaveVoice
    /\ UNCHANGED <<slot, faults, Local>>

\* slip: the session is not looked at again
RecheckNot(w) ==
    /\ Goes(w, "recheck", "join")
    /\ UNCHANGED <<slot, voiceVars, faults, Local>>

Recheck(w) ==
    /\ Goes(w, "recheck", IF session = 0 THEN "unlock" ELSE "join")
    /\ UNCHANGED <<slot, voiceVars, faults, Local>>

Join(w) ==
    /\ worker[w].at \in {"join", "join2"}
    /\ \E c \in Conns :
         /\ JoinAs(c)
         /\ worker' = [worker EXCEPT ![w].at = "load", ![w].conn = c]
    /\ UNCHANGED <<slot, faults, Local>>

\* The first failure backs off, the second gives up.
JoinError(w) ==
    /\ worker[w].at \in {"join", "join2"}
    /\ JoinFails
    /\ Goes(w, worker[w].at, IF worker[w].at = "join" THEN "backoff" ELSE "unlock")
    /\ gaveUp' = (gaveUp \/ worker[w].at = "join2")
    /\ UNCHANGED <<allows, raidVars, applier, slot, stallVars, trouble>>

Backoff(w) ==
    /\ Goes(w, "backoff", IF session = 0 THEN "unlock" ELSE "join2")
    /\ UNCHANGED <<slot, voiceVars, faults, Local>>

\* slip: the new socket gets no pipeline
LoadApplierNot(w) ==
    /\ worker[w].at = "load"
    /\ worker' = [worker EXCEPT ![w].at = "unlock"]
    /\ UNCHANGED <<slot, voiceVars, faults, Local>>

\* loadApplier, after the join.
LoadApplier(w) ==
    /\ worker[w].at = "load"
    /\ worker' = [worker EXCEPT ![w].at = IF applier = 0 THEN "unlock" ELSE "provider",
                                ![w].raid = applier]
    /\ UNCHANGED <<slot, voiceVars, faults, Local>>

\* reapplyAfterVoiceReady: the session, then the applier, for the same connection.
CheckApply(w) ==
    /\ Goes(w, "checkApply", IF session = 0 THEN "unlock" ELSE "load")
    /\ UNCHANGED <<slot, voiceVars, faults, Local>>

(***************************************************************************)
(* buildApplier's closure: a new sender on the current socket, a new        *)
(* receiver, the watch.  Nothing asks whether the connection is still there.*)
(***************************************************************************)
Holds(w, h) == held' = [held EXCEPT ![worker[w].conn] = h]

ApplyProvider(w) ==
    /\ Goes(w, "provider", "receiver")
    /\ Holds(w, [held[worker[w].conn] EXCEPT !.sender = worker[w].raid])
    /\ UNCHANGED <<slot, conn, health, place, news, own, faults, Local>>

ApplyReceiver(w) ==
    /\ Goes(w, "receiver", "watch")
    /\ Holds(w, [held[worker[w].conn] EXCEPT !.receiver = worker[w].raid])
    /\ health' = IF worker[w].conn = conn /\ health = "orphaned" THEN "good" ELSE health
    /\ UNCHANGED <<slot, conn, place, news, own, faults, Local>>

\* slip: the new connection is not watched
ApplyWatchNot(w) ==
    /\ Goes(w, "watch", "unlock")
    /\ UNCHANGED <<slot, voiceVars, faults, Local>>

ApplyWatch(w) ==
    /\ Goes(w, "watch", "unlock")
    /\ Holds(w, [held[worker[w].conn] EXCEPT !.watch = TRUE])
    /\ UNCHANGED <<slot, conn, health, place, news, own, faults, Local>>

\* slip: the mark stays when the session has ended
UnlockNot(w) ==
    /\ worker[w].at = "unlock"
    /\ worker' = [worker EXCEPT ![w] = Off]
    /\ slot' = (session = 0)
    /\ UNCHANGED <<voiceVars, faults, Local>>

Unlock(w) ==
    /\ worker[w].at = "unlock"
    /\ "LateNews" \in allows \/ (news = 0 /\ \A v \in Workers : worker[v].at \notin {"try", "tryApply"})
    /\ worker' = [worker EXCEPT ![w] = Off]
    /\ slot' = FALSE
    /\ UNCHANGED <<voiceVars, faults, Local>>

-----------------------------------------------------------------------------
Repair(w) == \/ TryLock(w) \/ Check(w) \/ CheckFindsNoVoice(w) \/ Drain(w) \/ Leave(w) \/ Recheck(w)
             \/ Join(w) \/ JoinError(w) \/ Backoff(w) \/ LoadApplier(w) \/ CheckApply(w)
             \/ ApplyProvider(w) \/ ApplyReceiver(w) \/ ApplyWatch(w) \/ Unlock(w)

Start == StartJoin \/ StartWire \/ StartArm \/ StartCommit
StopSteps == StopLeave \/ StopClear

Trouble == Moved \/ Disconnected \/ Reidentified \/ FreshGateway \/ Stalls

Next == \/ Start \/ StopTake \/ StopSteps
        \/ Trouble \/ OwnListens \/ HearNews \/ StallReport \/ Tick
        \/ \E w \in Workers : Repair(w)

Spec == Init /\ [][Next]_vars

\* Goroutines run, listeners listen, a stalled sender reports every few seconds, time
\* passes.  Nobody owes a command or a trouble.
FairSpec ==
    /\ Spec
    /\ \A w \in Workers : WF_vars(Repair(w))
    /\ WF_vars(StartWire \/ StartArm \/ StartCommit) /\ WF_vars(StopSteps)
    /\ WF_vars(OwnListens) /\ WF_vars(HearNews) /\ WF_vars(StallReport) /\ WF_vars(Tick)

-----------------------------------------------------------------------------
Places == {"out", "bound", "other"}
Stages == {"off", "try", "tryApply", "check", "checkApply", "drain", "leave", "recheck",
           "join", "backoff", "join2", "load", "provider", "receiver", "watch", "unlock"}
Busy(w) == worker[w].at \notin {"off", "try", "tryApply"}
AnyConn == Conns \cup {NoConn}

TypeOK ==
    /\ allows \in Environments
    /\ session \in 0..raids /\ raids \in 0..MaxRaids /\ applier \in 0..raids
    /\ starter \in [at : {"idle", "wire", "arm", "commit"}, conn : AnyConn]
    /\ stopper \in {"idle", "leave", "clear"}
    /\ worker \in [Workers -> [at : Stages, conn : AnyConn, raid : 0..raids]]
    /\ slot \in BOOLEAN
    /\ conn \in AnyConn
    /\ held \in [Conns -> [sender : 0..raids, receiver : 0..raids, watch : BOOLEAN]]
    /\ health \in {"good", "astray", "orphaned", "dead", "stalled"}
    /\ place \in Places /\ news \in 0..MaxNews
    /\ own \in [what : {"none", "out", "other"}, conn : AnyConn]
    /\ backoff \in Backoffs
    /\ since \in 0..BackoffMax /\ streak \in 0..2
    /\ gaveUp \in BOOLEAN

(* At most one goroutine repairs the connection, and the mark is up while one *)
(* does: a leave that a repair causes itself, or a re-identification          *)
(* meanwhile, does not start a second (inFlightSet.trySet, shared by both     *)
(* repairs).                                                                  *)
OneRepairAtATime ==
    /\ slot = (\E w \in Workers : Busy(w))
    /\ \A v, w \in Workers : Busy(v) /\ Busy(w) => v = w

\* What the properties below need: no overlap, or only those that do not matter to them.
Calm    == allows \subseteq {"LateNews"}
Unhurt  == allows \subseteq {"LateNews", "StopAtJoin"}
AtRest == /\ ~Repairing /\ starter.at = "idle" /\ stopper = "idle"
          /\ news = 0 /\ own = NoMove

(* A connection that disgo has removed holds no sender, no receiver and no    *)
(* ready watch: nothing runs on after it (newConn's removal hook).            *)
NothingOutlivesItsConn ==
    Calm => \A c \in Conns : c = conn \/ held[c] = Nothing

(* When a stop has ended, and the repair it met, the bot is out of voice and  *)
(* nothing of the raid is left (the session checks of ReconnectBotChannel).   *)
StopLeavesNothing ==
    Calm /\ AtRest /\ session = 0 => conn = NoConn /\ place = "out" /\ applier = 0

(* When no repair is under way, a raid's bot is in its channel with the       *)
(* pipeline of that raid, watched, unless a repair gave up (two joins in a row *)
(* failed, or there was no channel to join) or the encryptor has just stalled *)
(* again (ReconnectBotChannel and its triggers).                              *)
RaidIsHeard ==
    Unhurt /\ AtRest /\ session # 0 /\ ~gaveUp /\ health # "stalled" =>
        /\ conn # NoConn /\ place = "bound" /\ health = "good"
        /\ held[conn] = [sender |-> session, receiver |-> session, watch |-> TRUE]

(* What holds of the repairs in every state: the types, one repair at a time, *)
(* nothing that outlives its connection or its raid, and once the repairs are *)
(* over a raid that is heard (ReconnectBotChannel, newConn's removal hook).   *)
ReconnectInv ==
    /\ TypeOK /\ OneRepairAtATime
    /\ NothingOutlivesItsConn /\ StopLeavesNothing /\ RaidIsHeard

(* Rejoins for a stalled encryptor are spaced: the first at once, the next no *)
(* sooner than BackoffMin later, every further one no sooner than twice that, *)
(* or BackoffMax (stallBackoff.due).                                          *)
Spacing(n) == IF n = 0 THEN 0 ELSE IF n = 1 THEN BackoffMin ELSE Least(2 * BackoffMin, BackoffMax)
StallRejoinsAreSpaced == [][StallReport /\ worker' # worker => since >= Spacing(streak)]_vars

(* A bot that is silent or out of its channel during a raid is heard again,   *)
(* or the raid ends, or joining has failed twice or found no channel.         *)
Silent == session # 0 /\ (place # "bound" \/ health # "good")
SilenceEnds == Unhurt => (Silent ~> (~Silent \/ gaveUp))

(* Repairs do not feed each other: when the troubles are over, so are the     *)
(* repairs, provided that what a repair's own leave sets off runs before the  *)
(* repair ends (ReconnectBotChannel, "prevents the leave-reconnect-leave      *)
(* loop").                                                                    *)
RepairsComeToRest == allows = {} => <>[]~Repairing

(* Trouble ends: in a bot that is heard, and in repairs that are over (the two *)
(* triggers of ReconnectBotChannel, and its guard against its own leave).     *)
TroubleEnds == SilenceEnds /\ RepairsComeToRest

(* The same, however late the owner bot hears (the comment has no such        *)
(* condition).                                                                *)
RepairsNeverLoop == <>[]~Repairing

(* A stop leaves nothing behind, wherever the repair it meets may be.         *)
StopsAreFinal == AtRest /\ session = 0 => conn = NoConn /\ place = "out"
=============================================================================
