------------------------------ MODULE YAMLStore ------------------------------
(* store.YAMLStore, the file it keeps, and the two callers whose own steps    *)
(* matter to it: manager.BindChannel with its lock, and the unbinding of      *)
(* deleted channels without it.                                               *)
(*                                                                            *)
(* flushLoop is one process; save is a step per file operation, each of which *)
(* may fail, under the read lock, so that no setting changes while it runs.   *)
(* A kill loses the process; a power loss also loses what the disk was not    *)
(* told to keep: the data of a file that was not synced, a rename whose       *)
(* directory was not.                                                         *)
EXTENDS Integers, FiniteSets

CONSTANTS Guilds, Bots, Channels, RoleTypes, Roles, Codes, Locales, None,
          Torn,           \* the content of a file that is empty or cut off
          NoFile,         \* no temporary file
          Binders,        \* handler goroutines that bind a channel
          MaxChanges,     \* bound: changes of settings
          MaxFaults,      \* bound: file operations that fail
          MaxLives,       \* bound: times the program is started
          MaxDeletions    \* bound: channels deleted in Discord

ASSUME NoneAssumption ==
    None \notin Channels \cup Roles \cup Codes \cup Locales \cup Binders

VARIABLES
    mem,          \* the five maps of YAMLStore
    dirtyCh,      \* a signal waits in dirtyCh
    timer,        \* the debounce timer is armed
    pc,           \* flushLoop: in its select, at a step of save, or gone
    final,        \* the save in progress is the one of Close
    done,         \* Close has closed s.done
    file,         \* what a reader of s.path finds
    onDisk,       \* what a reader may find after a power loss
    tmp,          \* the temporary file of the save
    up,           \* the program runs, and with it the handlers of the gateway
    bindMu,       \* the binder holding Service.bindMu, or None
    bindings,     \* binder -> the binding it has checked, or None
    sweep,        \* the unbinding in progress: what it looks at, what it saw
    exists,       \* channels that exist in Discord
    excused,      \* history: the last save failed, or a change came after the final one
    changes, faults, lives

storeVars == <<mem, dirtyCh>>
loopVars  == <<timer, pc, final, done>>
diskVars  == <<file, onDisk, tmp>>
bindVars  == <<bindMu, bindings, sweep, exists>>
vars == <<storeVars, loopVars, diskVars, up, bindVars, excused, changes, faults, lives>>

-----------------------------------------------------------------------------
(***************************************************************************)
(* The file.  A guild has an entry when something is kept for it; a bot has *)
(* one when it is bound or disabled, a disabled bot without a channel       *)
(* having an entry of its own without one.                                  *)
(***************************************************************************)
ChannelEntries(m, g) ==
    {[bot |-> b, channel |-> m.channels[g][b], disabled |-> b \in m.disabled[g]]
       : b \in {x \in Bots : m.channels[g][x] # None}}

DisabledOnlyEntriesSkipped(m, g) == {}    \* slip: only bound bots are written

DisabledOnlyEntries(m, g) ==
    {[bot |-> b, channel |-> None, disabled |-> TRUE]
       : b \in {x \in Bots : m.channels[g][x] = None /\ x \in m.disabled[g]}}

RoleEntries(m, g) ==
    {[type |-> t, role |-> m.roles[g][t]] : t \in {x \in RoleTypes : m.roles[g][x] # None}}

FileOf(m) ==
    {e \in {[guild    |-> g,
             code     |-> m.codes[g],
             locale   |-> m.locales[g],
             channels |-> ChannelEntries(m, g) \cup DisabledOnlyEntries(m, g),
             roles    |-> RoleEntries(m, g)] : g \in Guilds}
       : e.code # None \/ e.locale # None \/ e.channels # {} \/ e.roles # {}}

EntriesFor(f, g) == {e \in f : e.guild = g}
ChannelsFor(f, g) == UNION {e.channels : e \in EntriesFor(f, g)}

\* load: an absent file, {} here, is an empty store.  An entry without a channel binds
\* nothing, an empty code or locale is none.
Load(f) ==
    [channels |-> [g \in Guilds |-> [b \in Bots |->
        LET found == {c \in ChannelsFor(f, g) : c.bot = b /\ c.channel # None}
        IN  IF found = {} THEN None ELSE (CHOOSE c \in found : TRUE).channel]],
     roles    |-> [g \in Guilds |-> [t \in RoleTypes |->
        LET found == {r \in UNION {e.roles : e \in EntriesFor(f, g)} : r.type = t}
        IN  IF found = {} THEN None ELSE (CHOOSE r \in found : TRUE).role]],
     codes    |-> [g \in Guilds |->
        IF EntriesFor(f, g) = {} THEN None ELSE (CHOOSE e \in EntriesFor(f, g) : TRUE).code],
     locales  |-> [g \in Guilds |->
        IF EntriesFor(f, g) = {} THEN None ELSE (CHOOSE e \in EntriesFor(f, g) : TRUE).locale],
     disabled |-> [g \in Guilds |->
        {b \in Bots : \E c \in ChannelsFor(f, g) : c.bot = b /\ c.disabled}]]

\* The store as the specification of a store sees it: a program that is not running has
\* the settings it will start with.
Current == IF up THEN mem ELSE Load(file)
Kept    == {Load(f) : f \in onDisk \ {Torn}}

S == INSTANCE Settings WITH current <- Current, kept <- Kept

\* What is empty or cut off is not what any settings are written as.
ASSUME TornAssumption == \A m \in S!SettingsValues : FileOf(m) # Torn

Idle == [seen |-> FALSE, left |-> {}, gone |-> {}, guild |-> None]

Init ==
    /\ mem = S!Empty /\ dirtyCh = FALSE
    /\ timer = FALSE /\ pc = "Select" /\ final = FALSE /\ done = FALSE
    /\ file = {} /\ onDisk = {{}} /\ tmp = NoFile
    /\ up = TRUE
    /\ bindMu = None /\ bindings = [h \in Binders |-> None] /\ sweep = Idle
    /\ exists = Channels
    /\ excused = FALSE /\ changes = 0 /\ faults = 0 /\ lives = 1

-----------------------------------------------------------------------------
(***************************************************************************)
(* Changing settings.  save holds the lock for reading, so a change waits   *)
(* for it.  markDirty is a send to a channel of capacity one with a default.*)
(***************************************************************************)
Saving == pc \notin {"Select", "Gone"}

MarkDirty == dirtyCh' = TRUE

Mutate(new) ==
    /\ up /\ ~Saving /\ changes < MaxChanges
    /\ mem' = new
    /\ MarkDirty
    /\ changes' = changes + 1
    /\ excused' = (pc = "Gone")
    /\ UNCHANGED <<loopVars, diskVars, up, exists, faults, lives>>

\* /setup binds or unbinds a role, pins or unpins the locale, lets a speaker take part
\* in raids or not.
BindRole ==
    /\ \E new \in S!RoleChanges(mem) : Mutate(new)
    /\ UNCHANGED <<bindMu, bindings, sweep>>

BindLocale ==
    /\ \E new \in S!LocaleChanges(mem) : Mutate(new)
    /\ UNCHANGED <<bindMu, bindings, sweep>>

ToggleSpeaker ==
    /\ \E new \in S!SpeakerChanges(mem) : Mutate(new)
    /\ UNCHANGED <<bindMu, bindings, sweep>>

\* slip: a new code does not mark the store dirty
GetOrCreateAllyCodeUnmarked ==
    /\ up /\ ~Saving /\ changes < MaxChanges
    /\ mem' \in S!CodeChanges(mem)
    /\ changes' = changes + 1 /\ excused' = (pc = "Gone")
    /\ UNCHANGED <<dirtyCh, loopVars, diskVars, up, bindVars, faults, lives>>

\* A raid that starts asks for the guild's ally code; one that exists changes nothing.
GetOrCreateAllyCode ==
    /\ \E new \in S!CodeChanges(mem) : Mutate(new)
    /\ UNCHANGED <<bindMu, bindings, sweep>>

\* /setup clears a binding, without the lock that binding takes.
UnbindChannel ==
    /\ \E g \in Guilds, b \in Bots : Mutate(S!SetChannel(mem, g, b, None))
    /\ UNCHANGED <<bindMu, bindings, sweep>>

-----------------------------------------------------------------------------
(***************************************************************************)
(* Service.BindChannel: under bindMu it looks at every other bot of the     *)
(* guild, and then writes.                                                  *)
(***************************************************************************)
Free(g, b, c) == \A other \in Bots \ {b} : mem.channels[g][other] # c

HoldsBindMuNot(h) == UNCHANGED bindMu     \* slip: the lock is not taken

HoldsBindMu(h) == bindMu' = h

CanLookAlways == TRUE                     \* slip: the lock is not waited for

CanLook == bindMu = None

BindLook(h) ==
    /\ up /\ bindings[h] = None /\ CanLook
    /\ \E g \in Guilds, b \in Bots, c \in exists :
         /\ Free(g, b, c)
         /\ bindings' = [bindings EXCEPT ![h] = [guild |-> g, bot |-> b, channel |-> c]]
    /\ HoldsBindMu(h)
    /\ UNCHANGED <<storeVars, loopVars, diskVars, up, sweep, exists, excused,
                   changes, faults, lives>>

BindWrite(h) ==
    /\ bindings[h] # None
    /\ Mutate(S!SetChannel(mem, bindings[h].guild, bindings[h].bot, bindings[h].channel))
    /\ bindings' = [bindings EXCEPT ![h] = None]
    /\ bindMu' = IF bindMu = h THEN None ELSE bindMu
    /\ UNCHANGED sweep

(***************************************************************************)
(* unbindChannels: for each bot it reads the binding, and when that is a    *)
(* channel that is gone removes whatever is bound by then.  A deleted       *)
(* channel sets it off, in a goroutine of its own, and so does a seeding    *)
(* that has fetched the channels of the guild (warmGuildCache).             *)
(***************************************************************************)
Sweeps(g, channels) == sweep' = [seen |-> FALSE, left |-> Bots, gone |-> channels, guild |-> g]

ChannelDeleted ==
    /\ up /\ sweep = Idle
    /\ Cardinality(Channels) - Cardinality(exists) < MaxDeletions
    /\ \E g \in Guilds, c \in exists :
         /\ exists' = exists \ {c}
         /\ Sweeps(g, {c})
    /\ UNCHANGED <<storeVars, loopVars, diskVars, up, bindMu, bindings, excused,
                   changes, faults, lives>>

\* A sweep that finds every channel changes nothing and is left out.
ChannelsFetched ==
    /\ up /\ sweep = Idle
    /\ exists # Channels
    /\ \E g \in Guilds : Sweeps(g, Channels \ exists)
    /\ UNCHANGED <<storeVars, loopVars, diskVars, up, bindMu, bindings, exists, excused,
                   changes, faults, lives>>

Skips(b) == mem.channels[sweep.guild][b] \notin sweep.gone

\* The bot looked at stays in left, alone marked by seen, until it is unbound.
SweepLooks ==
    /\ up /\ sweep.left # {} /\ sweep.seen = FALSE
    /\ \E b \in sweep.left :
         sweep' = IF Skips(b) THEN IF sweep.left = {b} THEN Idle
                                   ELSE [sweep EXCEPT !.left = @ \ {b}]
                  ELSE [sweep EXCEPT !.seen = b]
    /\ UNCHANGED <<storeVars, loopVars, diskVars, up, bindMu, bindings, exists, excused,
                   changes, faults, lives>>

SweepUnbinds ==
    /\ sweep.seen # FALSE
    /\ Mutate(S!SetChannel(mem, sweep.guild, sweep.seen, None))
    /\ sweep' = IF sweep.left = {sweep.seen} THEN Idle
                ELSE [sweep EXCEPT !.left = @ \ {sweep.seen}, !.seen = FALSE]
    /\ UNCHANGED <<bindMu, bindings>>

-----------------------------------------------------------------------------
(***************************************************************************)
(* flushLoop: a select over done, dirtyCh and the timer, in any order.      *)
(***************************************************************************)
Rest == <<mem, up, bindVars, changes, lives>>

TakeDirty ==
    /\ up /\ pc = "Select" /\ dirtyCh
    /\ dirtyCh' = FALSE /\ timer' = TRUE
    /\ UNCHANGED <<mem, pc, final, done, diskVars, up, bindVars, excused, changes, faults, lives>>

TimerFires ==
    /\ up /\ pc = "Select" /\ timer
    /\ timer' = FALSE /\ pc' = "Create"
    /\ UNCHANGED <<dirtyCh, final, done, diskVars, excused, faults, Rest>>

\* slip: no save on the way out
TakeDoneUnflushed ==
    /\ up /\ pc = "Select" /\ done
    /\ pc' = "Gone" /\ final' = TRUE
    /\ UNCHANGED <<dirtyCh, timer, done, diskVars, excused, faults, Rest>>

TakeDone ==
    /\ up /\ pc = "Select" /\ done
    /\ pc' = "Create" /\ final' = TRUE
    /\ UNCHANGED <<dirtyCh, timer, done, diskVars, excused, faults, Rest>>

(***************************************************************************)
(* save, a step per file operation.  What fails removes the temporary file  *)
(* and is only logged: nothing marks the store dirty again.                 *)
(***************************************************************************)
AfterSave == IF final THEN "Gone" ELSE "Select"

SaveStep(from, to) ==
    /\ up /\ pc = from
    /\ pc' = to
    /\ UNCHANGED <<dirtyCh, timer, final, done, excused, faults, Rest>>

CreateTemp ==
    /\ SaveStep("Create", "Write")
    /\ tmp' = [data |-> Torn, synced |-> FALSE]
    /\ UNCHANGED <<file, onDisk>>

WriteTemp ==
    /\ SaveStep("Write", "Sync")
    /\ tmp' = [tmp EXCEPT !.data = FileOf(mem)]
    /\ UNCHANGED <<file, onDisk>>

\* slip: the data is left to the page cache
SyncTempSkipped ==
    /\ SaveStep("Sync", "Rename")
    /\ UNCHANGED diskVars

SyncTemp ==
    /\ SaveStep("Sync", "Rename")
    /\ tmp' = [tmp EXCEPT !.synced = TRUE]
    /\ UNCHANGED <<file, onDisk>>

\* The new name is visible at once; a power loss finds the old file or the new one,
\* whose data is there only if it was synced.
Rename ==
    /\ SaveStep("Rename", "SyncDir")
    /\ file' = tmp.data
    /\ onDisk' = onDisk \cup {IF tmp.synced THEN tmp.data ELSE Torn}
    /\ tmp' = NoFile

SyncDir ==
    /\ up /\ pc = "SyncDir"
    /\ pc' = AfterSave
    /\ onDisk' = {file}
    /\ excused' = FALSE
    /\ UNCHANGED <<dirtyCh, timer, final, done, file, tmp, faults, Rest>>

SaveFails ==
    /\ up /\ Saving /\ faults < MaxFaults
    /\ pc' = AfterSave
    /\ tmp' = NoFile
    /\ excused' = TRUE
    /\ faults' = faults + 1
    /\ UNCHANGED <<dirtyCh, timer, final, done, file, onDisk, Rest>>

-----------------------------------------------------------------------------
(***************************************************************************)
(* The end of Bot.Run: Close asks for the final save and waits for it; the  *)
(* gateway, and with it the program, ends only after that.                  *)
(***************************************************************************)
Close ==
    /\ up /\ ~done
    /\ done' = TRUE
    /\ UNCHANGED <<storeVars, timer, pc, final, diskVars, up, bindVars, excused,
                   changes, faults, lives>>

\* What the process held is gone.
Ends == /\ up' = FALSE
        /\ mem' = S!Empty /\ dirtyCh' = FALSE
        /\ timer' = FALSE /\ pc' = "Select" /\ final' = FALSE /\ done' = FALSE
        /\ bindMu' = None /\ bindings' = [h \in Binders |-> None] /\ sweep' = Idle
        /\ tmp' = NoFile
        /\ UNCHANGED <<exists, excused, changes, faults, lives>>

Exit == up /\ pc = "Gone" /\ Ends /\ UNCHANGED <<file, onDisk>>

Killed == up /\ Ends /\ UNCHANGED <<file, onDisk>>

PowerLoss == /\ up /\ Ends
             /\ file' \in onDisk
             /\ onDisk' = {file'}

\* NewYAMLStore: a file that does not parse stops the program.
Start ==
    /\ ~up /\ lives < MaxLives /\ file # Torn
    /\ up' = TRUE
    /\ mem' = Load(file)
    /\ lives' = lives + 1
    /\ UNCHANGED <<dirtyCh, loopVars, diskVars, bindVars, excused, changes, faults>>

-----------------------------------------------------------------------------
FlushLoop == TakeDirty \/ TimerFires \/ TakeDone \/ CreateTemp \/ WriteTemp \/ SyncTemp
             \/ Rename \/ SyncDir \/ SaveFails

Handlers == \/ BindRole \/ BindLocale \/ ToggleSpeaker
            \/ GetOrCreateAllyCode \/ UnbindChannel
            \/ \E h \in Binders : BindLook(h) \/ BindWrite(h)
            \/ ChannelDeleted \/ ChannelsFetched \/ SweepLooks \/ SweepUnbinds

Process == Close \/ Exit \/ Killed \/ PowerLoss \/ Start

Next == FlushLoop \/ Handlers \/ Process

Spec == Init /\ [][Next]_vars

\* The scheduler runs flushLoop; nobody owes a change, a Close or a restart.
FairSpec == Spec /\ WF_vars(FlushLoop)

-----------------------------------------------------------------------------
Files == {file} \cup onDisk

TypeOK ==
    /\ mem \in S!SettingsValues
    /\ dirtyCh \in BOOLEAN /\ timer \in BOOLEAN /\ final \in BOOLEAN /\ done \in BOOLEAN
    /\ pc \in {"Select", "Create", "Write", "Sync", "Rename", "SyncDir", "Gone"}
    /\ final => done
    /\ file \in onDisk
    /\ up \in BOOLEAN /\ excused \in BOOLEAN
    /\ bindMu \in Binders \cup {None}
    /\ \A h \in Binders : bindings[h] # None => bindMu = h
    /\ sweep.left \subseteq Bots /\ exists \subseteq Channels

(* The file is whole at every moment a restart may read it, after a kill and  *)
(* after a power loss: the sync comes before the rename (save, its comments). *)
FileIsWhole == Torn \notin Files

(* No two bots of a guild are ever bound to one channel, whoever binds,       *)
(* unbinds, deletes or restarts meanwhile (Service.BindChannel and bindMu).   *)
ChannelsAreExclusive ==
    \A g \in Guilds, b1, b2 \in Bots :
        b1 # b2 /\ mem.channels[g][b1] # None => mem.channels[g][b1] # mem.channels[g][b2]

(* When the final save has ended without an error, and no handler wrote after *)
(* it, the file holds the settings of the store (Close and flushLoop).        *)
CloseKeepsAll == up /\ pc = "Gone" /\ ~excused => Load(file) = mem

(* What holds of the store and its files in every state: the types, a whole    *)
(* file whenever a restart may read it, and nothing lost by Close.            *)
YAMLStoreInv == TypeOK /\ FileIsWhole /\ CloseKeepsAll

(* Whatever is changed is saved in the end, unless the save fails, the        *)
(* program ends first or has closed its store already (the debounce).         *)
SavedInTheEnd == []<>(~up \/ excused \/ Load(file) = mem)

(* The store implements the specification of a store of settings: a restart   *)
(* finds a value the store had when it saved, never a mixture, and nothing    *)
(* that was saved is dropped by saving and loading it.                        *)
StoreKeepsItsPromise == S!Spec

(* A binding is removed by a sweep only when it is a binding to a channel     *)
(* that is gone (unbindChannels, its comment).                                *)
OnlyGoneIsUnbound ==
    [][SweepUnbinds => mem.channels[sweep.guild][sweep.seen] \in sweep.gone \cup {None}]_vars

(* No handler writes to a store that Close has finished with (Close, its      *)
(* comment).                                                                  *)
NoWriteAfterClose == [][up /\ up' /\ pc = "Gone" => mem' = mem]_vars
=============================================================================
