--------------------------- MODULE YAMLStoreProofs ---------------------------
(***************************************************************************)
(* That the YAML store never reads a torn file, loses nothing by its last  *)
(* save, binds no channel twice and implements a store of settings, for    *)
(* any guilds, bots, channels and handlers, and any crash between any two  *)
(* file operations.                                                        *)
(***************************************************************************)
EXTENDS YAMLStore, TLAPS

\* No two bots of a guild are bound to one channel.
Exclusive(m) ==
    \A g \in Guilds, b1, b2 \in Bots :
        b1 # b2 /\ m.channels[g][b1] # None => m.channels[g][b1] # m.channels[g][b2]

\* Settings the store may hold.
Good(m) == m \in S!SettingsValues /\ Exclusive(m)

SaveSteps == {"Select", "Create", "Write", "Sync", "Rename", "SyncDir", "Gone"}

\* The loop's flags, and the temporary file as far as the save has come.
LoopInv ==
    /\ dirtyCh \in BOOLEAN /\ timer \in BOOLEAN /\ final \in BOOLEAN /\ done \in BOOLEAN
    /\ pc \in SaveSteps /\ up \in BOOLEAN /\ excused \in BOOLEAN
    /\ final => done
    /\ ~up => pc = "Select" /\ ~final
    /\ pc \in {"Write", "Sync", "Rename"} => tmp = [data |-> tmp.data, synced |-> tmp.synced]
    /\ pc \in {"Sync", "Rename"} => tmp.data = FileOf(mem)
    /\ pc = "Rename" => tmp.synced = TRUE
    /\ pc = "SyncDir" => file = FileOf(mem)
    /\ up /\ pc = "Gone" /\ ~excused => file = FileOf(mem)

\* Every file a reader may find was written from settings the store held.
DiskInv ==
    /\ file \in onDisk
    /\ \A f \in onDisk : \E m : Good(m) /\ f = FileOf(m)

\* A binder that has looked holds the lock, and what it saw free stays free.
BindInv ==
    /\ bindMu \in Binders \cup {None}
    /\ bindings \in [Binders -> [guild : Guilds, bot : Bots, channel : Channels] \cup {None}]
    /\ \A h \in Binders : bindings[h] # None =>
          /\ bindMu = h
          /\ Free(bindings[h].guild, bindings[h].bot, bindings[h].channel)
    /\ sweep \in [seen : {FALSE} \cup Bots, left : SUBSET Bots,
                  gone : SUBSET Channels, guild : Guilds \cup {None}]
    /\ sweep.left # {} \/ sweep.seen # FALSE => sweep.guild \in Guilds
    /\ exists \subseteq Channels
    /\ ~up => \A h \in Binders : bindings[h] = None

StoreInv == Good(mem) /\ LoopInv /\ DiskInv /\ BindInv

-----------------------------------------------------------------------------
(***************************************************************************)
(* What is written is what is read.                                        *)
(***************************************************************************)

\* The entry of one guild.
Entry(m, g) ==
    [guild |-> g, code |-> m.codes[g], locale |-> m.locales[g],
     channels |-> ChannelEntries(m, g) \cup DisabledOnlyEntries(m, g),
     roles |-> RoleEntries(m, g)]

\* A guild has an entry when something is kept for it.
Written(m, g) ==
    LET e == Entry(m, g)
    IN  e.code # None \/ e.locale # None \/ e.channels # {} \/ e.roles # {}

LEMMA FileEntries ==
  ASSUME NEW m
  PROVE  FileOf(m) = {Entry(m, g) : g \in {h \in Guilds : Written(m, h)}}
BY DEF FileOf, Entry, Written

\* The entries a reader finds for a guild are the one that was written, or none.
LEMMA EntriesOfGuild ==
  ASSUME NEW m, NEW g \in Guilds
  PROVE  EntriesFor(FileOf(m), g) = IF Written(m, g) THEN {Entry(m, g)} ELSE {}
<1>1. \A h \in Guilds : Entry(m, h).guild = h
  BY DEF Entry
<1> QED
  BY <1>1, FileEntries DEF EntriesFor

\* A guild without an entry has nothing that would be lost.
LEMMA Unwritten ==
  ASSUME NEW m, NEW g \in Guilds, ~Written(m, g)
  PROVE  /\ m.codes[g] = None /\ m.locales[g] = None
         /\ ChannelEntries(m, g) = {} /\ DisabledOnlyEntries(m, g) = {}
         /\ RoleEntries(m, g) = {}
BY Zenon DEF Written, Entry

\* What a reader finds for a guild is what was written for it.
LEMMA ReadsWhatWasWritten ==
  ASSUME NEW m, NEW g \in Guilds
  PROVE  /\ ChannelsFor(FileOf(m), g) = ChannelEntries(m, g) \cup DisabledOnlyEntries(m, g)
         /\ UNION {e.roles : e \in EntriesFor(FileOf(m), g)} = RoleEntries(m, g)
<1>1. /\ Entry(m, g).channels = ChannelEntries(m, g) \cup DisabledOnlyEntries(m, g)
      /\ Entry(m, g).roles = RoleEntries(m, g)
  BY DEF Entry
<1>2. CASE Written(m, g)
  BY <1>1, <1>2, EntriesOfGuild DEF ChannelsFor
<1>3. CASE ~Written(m, g)
  BY <1>3, Unwritten, EntriesOfGuild DEF ChannelsFor
<1> QED
  BY <1>2, <1>3

\* What is read of a single entry.
LEMMA TheOnlyOne ==
  ASSUME NEW c, NEW T, T = {c}
  PROVE  T # {} /\ (CHOOSE x \in T : TRUE) = c
OBVIOUS

\* Saving and loading drops nothing and mixes nothing up, for all settings a
\* store may hold (save, load).
THEOREM LoadUndoesSave ==
  ASSUME NEW m \in S!SettingsValues
  PROVE  Load(FileOf(m)) = m
<1> DEFINE f == FileOf(m)
<1>1. ASSUME NEW g \in Guilds, NEW b \in Bots
      PROVE  Load(f).channels[g][b] = m.channels[g][b]
  <2> DEFINE found == {c \in ChannelsFor(f, g) : c.bot = b /\ c.channel # None}
  <2>1. found = {c \in ChannelEntries(m, g) : c.bot = b}
    BY ReadsWhatWasWritten DEF ChannelEntries, DisabledOnlyEntries
  <2>2. Load(f).channels[g][b] = IF found = {} THEN None ELSE (CHOOSE c \in found : TRUE).channel
    BY DEF Load
  <2>3. CASE m.channels[g][b] = None
    BY <2>1, <2>2, <2>3 DEF ChannelEntries
  <2>4. CASE m.channels[g][b] # None
    <3> DEFINE c0 == [bot |-> b, channel |-> m.channels[g][b], disabled |-> b \in m.disabled[g]]
    <3>1. found = {c0}
      BY <2>1, <2>4 DEF ChannelEntries
    <3>2. c0.channel = m.channels[g][b]
      OBVIOUS
    <3> HIDE DEF found, c0
    <3>3. found # {} /\ (CHOOSE c \in found : TRUE) = c0
      BY <3>1, TheOnlyOne
    <3> QED
      BY <2>2, <3>2, <3>3
  <2> QED
    BY <2>3, <2>4
<1>2. ASSUME NEW g \in Guilds, NEW t \in RoleTypes
      PROVE  Load(f).roles[g][t] = m.roles[g][t]
  <2> DEFINE found == {r \in UNION {e.roles : e \in EntriesFor(f, g)} : r.type = t}
  <2>1. found = {r \in RoleEntries(m, g) : r.type = t}
    BY ReadsWhatWasWritten
  <2>2. Load(f).roles[g][t] = IF found = {} THEN None ELSE (CHOOSE r \in found : TRUE).role
    BY DEF Load
  <2>3. CASE m.roles[g][t] = None
    BY <2>1, <2>2, <2>3 DEF RoleEntries
  <2>4. CASE m.roles[g][t] # None
    <3> DEFINE r0 == [type |-> t, role |-> m.roles[g][t]]
    <3>1. found = {r0}
      BY <2>1, <2>4 DEF RoleEntries
    <3>2. r0.role = m.roles[g][t]
      OBVIOUS
    <3> HIDE DEF found, r0
    <3>3. found # {} /\ (CHOOSE r \in found : TRUE) = r0
      BY <3>1, TheOnlyOne
    <3> QED
      BY <2>2, <3>2, <3>3
  <2> QED
    BY <2>3, <2>4
<1>3. ASSUME NEW g \in Guilds
      PROVE  Load(f).codes[g] = m.codes[g] /\ Load(f).locales[g] = m.locales[g]
  <2>1. /\ Load(f).codes[g] = IF EntriesFor(f, g) = {} THEN None
                              ELSE (CHOOSE e \in EntriesFor(f, g) : TRUE).code
        /\ Load(f).locales[g] = IF EntriesFor(f, g) = {} THEN None
                                ELSE (CHOOSE e \in EntriesFor(f, g) : TRUE).locale
    BY DEF Load
  <2>2. Entry(m, g).code = m.codes[g] /\ Entry(m, g).locale = m.locales[g]
    BY DEF Entry
  <2> HIDE DEF f
  <2>3. CASE Written(m, g)
    BY <2>1, <2>2, <2>3, EntriesOfGuild DEF f
  <2>4. CASE ~Written(m, g)
    BY <2>1, <2>4, EntriesOfGuild, Unwritten DEF f
  <2> QED
    BY <2>3, <2>4
<1>4. ASSUME NEW g \in Guilds
      PROVE  Load(f).disabled[g] = m.disabled[g]
  <2>1. Load(f).disabled[g] = {b \in Bots : \E c \in ChannelsFor(f, g) : c.bot = b /\ c.disabled}
    BY DEF Load
  <2>2. ASSUME NEW b \in Bots
        PROVE  (\E c \in ChannelsFor(f, g) : c.bot = b /\ c.disabled) <=> b \in m.disabled[g]
    <3>1. ASSUME NEW c \in ChannelEntries(m, g), c.bot = b
          PROVE  c.disabled <=> b \in m.disabled[g]
      <4>1. PICK x \in Bots : c = [bot |-> x, channel |-> m.channels[g][x],
                                  disabled |-> x \in m.disabled[g]]
        BY <3>1, Zenon DEF ChannelEntries
      <4>2. x = b
        BY <3>1, <4>1
      <4> QED
        BY <4>1, <4>2
    <3>2. ASSUME NEW c \in DisabledOnlyEntries(m, g), c.bot = b
          PROVE  c.disabled /\ b \in m.disabled[g]
      BY <3>2 DEF DisabledOnlyEntries
    <3>3. ASSUME b \in m.disabled[g]
          PROVE  \E c \in ChannelEntries(m, g) \cup DisabledOnlyEntries(m, g) : c.bot = b
      <4>1. CASE m.channels[g][b] = None
        <5>1. [bot |-> b, channel |-> None, disabled |-> TRUE] \in DisabledOnlyEntries(m, g)
          BY <3>3, <4>1 DEF DisabledOnlyEntries
        <5> QED
          BY <5>1
      <4>2. CASE m.channels[g][b] # None
        <5>1. [bot |-> b, channel |-> m.channels[g][b], disabled |-> b \in m.disabled[g]]
                 \in ChannelEntries(m, g)
          BY <4>2, Zenon DEF ChannelEntries
        <5> QED
          BY <5>1
      <4> QED
        BY <4>1, <4>2
    <3> QED
      BY <3>1, <3>2, <3>3, ReadsWhatWasWritten, Zenon
  <2>3. m.disabled[g] \subseteq Bots
    BY DEF S!SettingsValues
  <2> QED
    BY <2>1, <2>2, <2>3
<1> QED
  <2>1. Load(f).channels = m.channels
    BY <1>1 DEF Load, S!SettingsValues
  <2>2. Load(f).roles = m.roles
    <3>1. ASSUME NEW g \in Guilds PROVE Load(f).roles[g] = m.roles[g]
      <4>1. Load(f).roles[g] = [t \in RoleTypes |-> Load(f).roles[g][t]]
        BY DEF Load
      <4>2. m.roles[g] = [t \in RoleTypes |-> m.roles[g][t]]
        BY DEF S!SettingsValues
      <4> QED
        BY <1>2, <4>1, <4>2, Zenon
    <3> QED
      BY <3>1 DEF Load, S!SettingsValues
  <2>3. Load(f).codes = m.codes /\ Load(f).locales = m.locales
    BY <1>3 DEF Load, S!SettingsValues
  <2>4. Load(f).disabled = m.disabled
    BY <1>4 DEF Load, S!SettingsValues
  <2>5. Load(f) = [channels |-> Load(f).channels, roles |-> Load(f).roles, codes |-> Load(f).codes,
                   locales |-> Load(f).locales, disabled |-> Load(f).disabled]
    BY DEF Load
  <2>6. m = [channels |-> m.channels, roles |-> m.roles, codes |-> m.codes,
             locales |-> m.locales, disabled |-> m.disabled]
    BY DEF S!SettingsValues
  <2> QED
    BY <2>1, <2>2, <2>3, <2>4, <2>5, <2>6, Zenon

-----------------------------------------------------------------------------
(***************************************************************************)
(* Changes of settings keep them good.                                     *)
(***************************************************************************)

LEMMA EmptyIsGood == Good(S!Empty)
BY DEF Good, Exclusive, S!Empty, S!SettingsValues

\* A binding is written only where the channel is free; removing one is always safe.
LEMMA BindingIsGood ==
  ASSUME NEW m, Good(m), NEW g \in Guilds, NEW b \in Bots, NEW c \in Channels \cup {None},
         c # None => \A other \in Bots \ {b} : m.channels[g][other] # c
  PROVE  Good(S!SetChannel(m, g, b, c))
<1> DEFINE n == S!SetChannel(m, g, b, c)
<1>1. n \in S!SettingsValues
  BY DEF Good, S!SetChannel, S!SettingsValues
<1>2. ASSUME NEW h \in Guilds, NEW x \in Bots
      PROVE  n.channels[h][x] = IF h = g /\ x = b THEN c ELSE m.channels[h][x]
  BY DEF Good, S!SetChannel, S!SettingsValues
<1> HIDE DEF n
<1>3. Exclusive(n)
  BY <1>2 DEF Good, Exclusive
<1> QED
  BY <1>1, <1>3 DEF Good, n

\* The other setters leave the bindings alone.
LEMMA OtherChangesAreGood ==
  ASSUME NEW m, Good(m),
         NEW n \in S!RoleChanges(m) \cup S!LocaleChanges(m) \cup S!SpeakerChanges(m)
                     \cup S!CodeChanges(m)
  PROVE  Good(n) /\ n.channels = m.channels
<1> USE DEF S!SettingsValues
<1>1. CASE n \in S!RoleChanges(m)
  <2>1. PICK g \in Guilds, t \in RoleTypes, r \in Roles \cup {None} : n = [m EXCEPT !.roles[g][t] = r]
    BY <1>1 DEF S!RoleChanges, S!SetRole
  <2> QED
    BY <2>1 DEF Good, Exclusive
<1>2. CASE n \in S!LocaleChanges(m)
  <2>1. PICK g \in Guilds, l \in Locales \cup {None} : n = [m EXCEPT !.locales[g] = l]
    BY <1>2 DEF S!LocaleChanges, S!SetLocale
  <2> QED
    BY <2>1 DEF Good, Exclusive
<1>3. CASE n \in S!SpeakerChanges(m)
  <2>1. PICK g \in Guilds, b \in Bots, e \in BOOLEAN : n = S!SetSpeakerEnabled(m, g, b, e)
    BY <1>3 DEF S!SpeakerChanges
  <2> QED
    BY <2>1 DEF S!SetSpeakerEnabled, Good, Exclusive
<1>4. CASE n \in S!CodeChanges(m)
  <2>1. PICK g \in Guilds, k \in Codes : n = [m EXCEPT !.codes[g] = k]
    BY <1>4 DEF S!CodeChanges, S!CreateCode, S!FreshCodes
  <2> QED
    BY <2>1 DEF Good, Exclusive
<1> QED
  BY <1>1, <1>2, <1>3, <1>4

\* What an unbinding does to the bindings: one of them goes.
LEMMA UnbindingIsGood ==
  ASSUME NEW m, Good(m), NEW g \in Guilds, NEW b \in Bots
  PROVE  /\ Good(S!SetChannel(m, g, b, None))
         /\ \A h \in Guilds, x \in Bots :
               S!SetChannel(m, g, b, None).channels[h][x] \in {m.channels[h][x], None}
<1>1. Good(S!SetChannel(m, g, b, None))
  BY BindingIsGood
<1>2. m.channels \in [Guilds -> [Bots -> Channels \cup {None}]]
  BY DEF Good, S!SettingsValues
<1> QED
  BY <1>1, <1>2 DEF S!SetChannel, Good, S!SettingsValues

-----------------------------------------------------------------------------
(***************************************************************************)
(* The invariant.                                                          *)
(***************************************************************************)

LEMMA StoreInit == Init => StoreInv
<1> SUFFICES ASSUME Init PROVE StoreInv
  OBVIOUS
<1>1. FileOf(S!Empty) = {}
  BY DEF FileOf, S!Empty, ChannelEntries, DisabledOnlyEntries, RoleEntries
<1>2. DiskInv
  BY <1>1, EmptyIsGood DEF Init, DiskInv
<1>3. LoopInv
  BY DEF Init, LoopInv, SaveSteps
<1>4. BindInv
  BY DEF Init, BindInv, Idle
<1> QED
  BY <1>2, <1>3, <1>4, EmptyIsGood DEF Init, StoreInv

\* A change waits for a save, so the temporary file is not behind it, and one
\* that comes after the final save is excused.
LEMMA MutateStep ==
  ASSUME StoreInv, NEW new, Good(new), Mutate(new)
  PROVE  Good(mem') /\ LoopInv' /\ DiskInv'
<1>1. mem' = new /\ UNCHANGED <<timer, pc, final, done, file, onDisk, tmp, up>>
  BY DEF Mutate, loopVars, diskVars
<1>2. pc \in {"Select", "Gone"} /\ excused' = (pc = "Gone") /\ dirtyCh' = TRUE
  BY DEF Mutate, Saving, MarkDirty
<1>3. LoopInv'
  BY <1>1, <1>2 DEF StoreInv, LoopInv
<1>4. DiskInv'
  BY <1>1 DEF StoreInv, DiskInv
<1> QED
  BY <1>1, <1>3, <1>4

\* What a binder saw free stays free when bindings only go.
LEMMA BindingsGo ==
  ASSUME StoreInv, UNCHANGED <<up, bindMu, bindings, exists>>,
         sweep' \in [seen : {FALSE} \cup Bots, left : SUBSET Bots,
                     gone : SUBSET Channels, guild : Guilds \cup {None}],
         sweep'.left # {} \/ sweep'.seen # FALSE => sweep'.guild \in Guilds,
         \A h \in Guilds, x \in Bots : mem'.channels[h][x] \in {mem.channels[h][x], None}
  PROVE  BindInv'
<1>1. ASSUME NEW h \in Binders, bindings[h] # None
      PROVE  Free(bindings[h].guild, bindings[h].bot, bindings[h].channel)'
  <2>1. bindings[h] \in [guild : Guilds, bot : Bots, channel : Channels]
    BY <1>1 DEF StoreInv, BindInv
  <2>2. Free(bindings[h].guild, bindings[h].bot, bindings[h].channel)
    BY <1>1 DEF StoreInv, BindInv
  <2> QED
    BY <2>1, <2>2, NoneAssumption DEF Free
<1> QED
  BY <1>1 DEF StoreInv, BindInv

\* What the handlers and the sweep do.
LEMMA HandlerStep == ASSUME StoreInv, Handlers PROVE StoreInv'
<1> USE DEF StoreInv
<1>1. ASSUME NEW new \in S!RoleChanges(mem) \cup S!LocaleChanges(mem) \cup S!SpeakerChanges(mem)
                           \cup S!CodeChanges(mem),
             Mutate(new), UNCHANGED <<bindMu, bindings, sweep>>
      PROVE  StoreInv'
  <2>1. Good(new) /\ new.channels = mem.channels
    BY <1>1, OtherChangesAreGood
  <2>2. mem' = new /\ UNCHANGED <<up, exists>>
    BY <1>1 DEF Mutate, diskVars
  <2>3. BindInv'
    BY <1>1, <2>1, <2>2, BindingsGo DEF BindInv
  <2> QED
    BY <1>1, <2>1, <2>3, MutateStep
<1>2. ASSUME NEW g \in Guilds, NEW b \in Bots, Mutate(S!SetChannel(mem, g, b, None)),
             UNCHANGED <<bindMu, bindings>>,
             sweep' \in [seen : {FALSE} \cup Bots, left : SUBSET Bots,
                         gone : SUBSET Channels, guild : Guilds \cup {None}],
             sweep'.left # {} \/ sweep'.seen # FALSE => sweep'.guild \in Guilds
      PROVE  StoreInv'
  <2>1. mem' = S!SetChannel(mem, g, b, None) /\ UNCHANGED <<up, exists>>
    BY <1>2 DEF Mutate, diskVars
  <2>2. BindInv'
    BY <1>2, <2>1, UnbindingIsGood, BindingsGo
  <2> QED
    BY <1>2, <2>2, UnbindingIsGood, MutateStep
<1>3. CASE UnbindChannel
  BY <1>3, <1>2 DEF UnbindChannel, BindInv
<1>4. ASSUME NEW h \in Binders, BindLook(h) PROVE StoreInv'
  <2>1. PICK g \in Guilds, b \in Bots, c \in exists :
           Free(g, b, c) /\ bindings' = [bindings EXCEPT ![h] = [guild |-> g, bot |-> b, channel |-> c]]
    BY <1>4 DEF BindLook
  <2>2. UNCHANGED <<storeVars, loopVars, diskVars, up, sweep, exists, excused>>
    BY <1>4 DEF BindLook
  <2>3. bindMu = None /\ bindMu' = h
    BY <1>4 DEF BindLook, CanLook, HoldsBindMu
  <2>4. \A x \in Binders : bindings[x] = None
    BY <2>3, NoneAssumption DEF BindInv
  <2>5. BindInv'
    <3>1. up /\ UNCHANGED <<mem, up, sweep, exists>>
      BY <1>4, <2>2 DEF BindLook, storeVars
    <3>2. bindings' \in [Binders -> [guild : Guilds, bot : Bots, channel : Channels] \cup {None}]
      BY <2>1 DEF BindInv
    <3>3. ASSUME NEW x \in Binders, bindings'[x] # None
          PROVE  bindMu' = x /\ Free(bindings[x].guild, bindings[x].bot, bindings[x].channel)'
      <4>1. x = h
        BY <2>1, <2>4, <3>3 DEF BindInv
      <4> QED
        BY <2>1, <2>3, <3>1, <4>1 DEF BindInv, Free
    <3> QED
      BY <2>3, <3>1, <3>2, <3>3 DEF BindInv
  <2> QED
    BY <2>2, <2>5 DEF storeVars, loopVars, diskVars, LoopInv, DiskInv, Good
<1>5. ASSUME NEW h \in Binders, BindWrite(h) PROVE StoreInv'
  <2> DEFINE w == bindings[h]
  <2>1. w \in [guild : Guilds, bot : Bots, channel : Channels] /\ bindMu = h
        /\ Free(w.guild, w.bot, w.channel)
    BY <1>5 DEF BindWrite, BindInv
  <2>2. Mutate(S!SetChannel(mem, w.guild, w.bot, w.channel))
    BY <1>5 DEF BindWrite
  <2>3. bindings' = [bindings EXCEPT ![h] = None] /\ bindMu' = None /\ UNCHANGED sweep
    BY <1>5, <2>1 DEF BindWrite
  <2>4. \A x \in Binders \ {h} : bindings[x] = None
    BY <2>1 DEF BindInv
  <2>5. Good(S!SetChannel(mem, w.guild, w.bot, w.channel))
    BY <2>1, BindingIsGood DEF Free
  <2>6. BindInv'
    BY <2>2, <2>3, <2>4 DEF BindInv, Mutate
  <2> QED
    BY <2>2, <2>5, <2>6, MutateStep
<1>6. CASE ChannelDeleted \/ ChannelsFetched \/ SweepLooks
  <2>1. UNCHANGED <<storeVars, loopVars, diskVars, up, bindMu, bindings, excused>>
    BY <1>6 DEF ChannelDeleted, ChannelsFetched, SweepLooks
  <2>2. /\ sweep' \in [seen : {FALSE} \cup Bots, left : SUBSET Bots,
                       gone : SUBSET Channels, guild : Guilds \cup {None}]
        /\ sweep'.left # {} \/ sweep'.seen # FALSE => sweep'.guild \in Guilds
        /\ exists' \subseteq Channels
    <3>1. CASE ChannelDeleted \/ ChannelsFetched
      <4>1. exists \subseteq Channels /\ exists' \subseteq exists
        BY <3>1 DEF ChannelDeleted, ChannelsFetched, BindInv
      <4>2. PICK g \in Guilds, gone \in SUBSET Channels : Sweeps(g, gone)
        <5>1. CASE ChannelDeleted
          <6>1. PICK g \in Guilds, c \in exists : Sweeps(g, {c})
            BY <5>1 DEF ChannelDeleted
          <6>2. {c} \in SUBSET Channels
            BY <4>1
          <6> QED
            BY <6>1, <6>2
        <5>2. CASE ChannelsFetched
          <6>1. PICK g \in Guilds : Sweeps(g, Channels \ exists)
            BY <5>2 DEF ChannelsFetched
          <6>2. Channels \ exists \in SUBSET Channels
            OBVIOUS
          <6> QED
            BY <6>1, <6>2
        <5> QED
          BY <3>1, <5>1, <5>2
      <4>3. /\ sweep'.left # {} \/ sweep'.seen # FALSE => sweep'.guild \in Guilds
            /\ sweep' \in [seen : {FALSE} \cup Bots, left : SUBSET Bots,
                          gone : SUBSET Channels, guild : Guilds \cup {None}]
        BY <4>2 DEF Sweeps
      <4> QED
        BY <4>1, <4>3
    <3>2. CASE SweepLooks
      <4>1. PICK b \in sweep.left :
               sweep' \in {Idle, [sweep EXCEPT !.left = @ \ {b}], [sweep EXCEPT !.seen = b]}
        BY <3>2 DEF SweepLooks
      <4>2. b \in Bots /\ sweep.guild \in Guilds /\ UNCHANGED exists
        BY <3>2 DEF SweepLooks, BindInv
      <4>3. CASE sweep' = Idle
        BY <4>2, <4>3 DEF BindInv, Idle
      <4>4. CASE sweep' = [sweep EXCEPT !.left = @ \ {b}]
        BY <4>2, <4>4 DEF BindInv
      <4>5. CASE sweep' = [sweep EXCEPT !.seen = b]
        BY <4>2, <4>5 DEF BindInv
      <4> QED
        BY <4>1, <4>3, <4>4, <4>5
    <3> QED
      BY <1>6, <3>1, <3>2
  <2>3. BindInv'
    BY <2>1, <2>2 DEF BindInv, Free, storeVars
  <2> QED
    BY <2>1, <2>3 DEF storeVars, loopVars, diskVars, LoopInv, DiskInv, Good
<1>7. CASE SweepUnbinds
  <2>1. sweep.seen \in Bots /\ sweep.guild \in Guilds
    BY <1>7 DEF SweepUnbinds, BindInv
  <2>2. /\ sweep' \in [seen : {FALSE} \cup Bots, left : SUBSET Bots,
                       gone : SUBSET Channels, guild : Guilds \cup {None}]
        /\ sweep'.left # {} \/ sweep'.seen # FALSE => sweep'.guild \in Guilds
    BY <1>7, <2>1 DEF SweepUnbinds, BindInv, Idle
  <2> QED
    BY <1>7, <1>2, <2>1, <2>2 DEF SweepUnbinds
<1> QED
  BY <1>1, <1>3, <1>4, <1>5, <1>6, <1>7
  DEF Handlers, BindRole, BindLocale, ToggleSpeaker, GetOrCreateAllyCode

\* What flushLoop and save do: the settings stay, the file gets what was written
\* and synced.
LEMMA FlushStep == ASSUME StoreInv, FlushLoop PROVE StoreInv'
<1> USE DEF StoreInv
<1>1. UNCHANGED <<mem, up, bindVars>>
  BY DEF FlushLoop, TakeDirty, TimerFires, TakeDone, CreateTemp, WriteTemp, SyncTemp,
         Rename, SyncDir, SaveFails, SaveStep, Rest
<1>2. Good(mem') /\ BindInv'
  BY <1>1 DEF bindVars, BindInv, Free, Good
<1>3. LoopInv' /\ DiskInv'
  <2> USE <1>1 DEF LoopInv, SaveSteps
  <2>1. CASE TakeDirty
    <3>1. UNCHANGED <<mem, pc, final, done, file, onDisk, tmp, up, excused>>
          /\ pc = "Select" /\ dirtyCh' = FALSE /\ timer' = TRUE
      BY <2>1 DEF TakeDirty, diskVars
    <3>2. DiskInv'
      BY <3>1 DEF DiskInv
    <3>3. LoopInv'
      <4>1. dirtyCh' \in BOOLEAN /\ timer' \in BOOLEAN
        BY <3>1
      <4>2. UNCHANGED <<pc, final, done, up, excused>> /\ pc = "Select"
        BY <3>1
      <4> QED
        BY <4>1, <4>2
    <3> QED
      BY <3>2, <3>3
  <2>2. CASE TimerFires
    BY <2>2 DEF TimerFires, diskVars, DiskInv
  <2>3. CASE TakeDone
    BY <2>3 DEF TakeDone, diskVars, DiskInv
  <2>4. CASE CreateTemp
    BY <2>4 DEF CreateTemp, SaveStep, DiskInv
  <2>5. CASE WriteTemp
    BY <2>5 DEF WriteTemp, SaveStep, DiskInv
  <2>6. CASE SyncTemp
    BY <2>6 DEF SyncTemp, SaveStep, DiskInv
  <2>7. CASE Rename
    BY <2>7 DEF Rename, SaveStep, DiskInv
  <2>8. CASE SyncDir
    BY <2>8 DEF SyncDir, AfterSave, DiskInv
  <2>9. CASE SaveFails
    BY <2>9 DEF SaveFails, AfterSave, Saving, DiskInv
  <2> QED
    BY <2>1, <2>2, <2>3, <2>4, <2>5, <2>6, <2>7, <2>8, <2>9 DEF FlushLoop
<1> QED
  BY <1>2, <1>3

\* What a close, an end of any kind and a start do.
LEMMA ProcessStep == ASSUME StoreInv, Process PROVE StoreInv'
<1> USE DEF StoreInv
<1>1. CASE Close
  BY ZenonT(40), <1>1 DEF Close, storeVars, diskVars, bindVars, LoopInv, DiskInv, BindInv, Free, Good
<1>2. CASE Ends /\ file' \in onDisk' /\ onDisk' \subseteq onDisk
  <2>1. Good(mem')
    BY <1>2, EmptyIsGood DEF Ends
  <2>2. LoopInv'
    BY <1>2 DEF Ends, LoopInv, SaveSteps
  <2>3. DiskInv'
    BY <1>2 DEF DiskInv
  <2>4. BindInv'
    BY <1>2 DEF Ends, BindInv, Idle
  <2> QED
    BY <2>1, <2>2, <2>3, <2>4
<1>3. CASE Start
  <2>1. PICK m : Good(m) /\ file = FileOf(m)
    BY DEF DiskInv
  <2>2. mem' = m
    BY <1>3, <2>1, LoadUndoesSave DEF Start, Good
  <2>3. UNCHANGED <<dirtyCh, loopVars, diskVars, bindVars, excused>> /\ up' = TRUE /\ ~up
    BY <1>3 DEF Start
  <2>4. BindInv'
    BY <2>3 DEF BindInv, bindVars
  <2>5. LoopInv'
    BY <2>3 DEF LoopInv, loopVars, diskVars, SaveSteps
  <2>6. DiskInv'
    BY <2>3 DEF DiskInv, diskVars
  <2> QED
    BY <2>1, <2>2, <2>4, <2>5, <2>6
<1> QED
  BY <1>1, <1>2, <1>3 DEF Process, Exit, Killed, PowerLoss, DiskInv

LEMMA StoreStep == StoreInv /\ [Next]_vars => StoreInv'
<1> SUFFICES ASSUME StoreInv, [Next]_vars PROVE StoreInv'
  OBVIOUS
<1>1. CASE UNCHANGED vars
  <2>1. UNCHANGED <<storeVars, loopVars, diskVars, up, bindVars, excused>>
    BY <1>1 DEF vars
  <2>2. Good(mem') /\ DiskInv'
    BY <2>1 DEF storeVars, diskVars, StoreInv, Good, DiskInv
  <2>3. LoopInv'
    BY <2>1, Zenon DEF storeVars, loopVars, diskVars, StoreInv, LoopInv
  <2>4. BindInv'
    BY <2>1 DEF storeVars, bindVars, StoreInv, BindInv, Free
  <2> QED
    BY <2>2, <2>3, <2>4 DEF StoreInv
<1> QED
  BY <1>1, FlushStep, HandlerStep, ProcessStep DEF Next

THEOREM StoreInvariant == Spec => []StoreInv
BY StoreInit, StoreStep, PTL DEF Spec

-----------------------------------------------------------------------------
(***************************************************************************)
(* What follows.                                                           *)
(***************************************************************************)

\* Whoever binds, unbinds, deletes channels or restarts, no two bots of a guild
\* are bound to one channel (Service.BindChannel).
THEOREM BindingsAreExclusive == Spec => []ChannelsAreExclusive
<1>1. StoreInv => ChannelsAreExclusive
  BY DEF StoreInv, Good, Exclusive, ChannelsAreExclusive
<1> QED
  BY <1>1, StoreInvariant, PTL

\* The types, a whole file at every moment, and nothing lost by Close (save,
\* flushLoop): a torn file is nowhere on the disk because only a temporary file that
\* is complete and synced is renamed.
THEOREM StoreIsSafe == Spec => []YAMLStoreInv
<1>1. StoreInv => TypeOK
  BY DEF StoreInv, LoopInv, DiskInv, BindInv, Good, TypeOK, SaveSteps
<1>2. StoreInv => FileIsWhole
  BY TornAssumption DEF StoreInv, DiskInv, Good, FileIsWhole, Files
<1>3. StoreInv => CloseKeepsAll
  BY LoadUndoesSave DEF StoreInv, LoopInv, Good, CloseKeepsAll
<1> QED
  BY <1>1, <1>2, <1>3, StoreInvariant, PTL DEF YAMLStoreInv

\* What a restart may find, when no file is torn.
LEMMA KeptIsLoaded == ASSUME StoreInv PROVE Kept = {Load(f) : f \in onDisk}
BY TornAssumption DEF StoreInv, DiskInv, Good, Kept

\* What a reader finds is the settings it was written from.
LEMMA FileLoads ==
  ASSUME StoreInv
  PROVE  /\ pc = "SyncDir" => Load(file) = mem
         /\ pc = "Rename" => Load(tmp.data) = mem
BY LoadUndoesSave DEF StoreInv, LoopInv, Good

\* Every step of the store is one of the specification of a store, or none.
LEMMA StoreRefines ==
  ASSUME StoreInv, StoreInv', [Next]_vars
  PROVE  [S!Next]_<<Current, Kept>>
<1>1. Kept = {Load(f) : f \in onDisk} /\ Kept' = {Load(f) : f \in onDisk'}
  BY KeptIsLoaded, TornAssumption DEF StoreInv, DiskInv, Good, Kept
<1>2. file \in onDisk /\ file' \in onDisk'
  BY DEF StoreInv, DiskInv
<1>3. CASE UNCHANGED <<mem, up, file, onDisk>>
  BY <1>3 DEF Current, Kept
<1>4. ASSUME NEW new \in S!RoleChanges(mem) \cup S!LocaleChanges(mem) \cup S!SpeakerChanges(mem)
                           \cup S!CodeChanges(mem) \cup S!BindingChanges(mem),
             Mutate(new)
      PROVE  S!Change
  BY <1>4 DEF Mutate, diskVars, Current, Kept, S!Change
<1>5. ASSUME NEW g \in Guilds, NEW b \in Bots, NEW c \in Channels \cup {None},
             Mutate(S!SetChannel(mem, g, b, c))
      PROVE  S!Change
  BY <1>4, <1>5 DEF S!BindingChanges
<1>6. ASSUME NEW h \in Binders, BindWrite(h) PROVE S!Change
  <2>1. bindings[h] \in [guild : Guilds, bot : Bots, channel : Channels]
    BY <1>6 DEF BindWrite, StoreInv, BindInv
  <2> QED
    BY <1>5, <1>6, <2>1 DEF BindWrite
<1>7. ASSUME SweepUnbinds PROVE S!Change
  <2>1. sweep.seen \in Bots /\ sweep.guild \in Guilds
    BY <1>7 DEF SweepUnbinds, StoreInv, BindInv
  <2> QED
    BY <1>5, <1>7, <2>1 DEF SweepUnbinds
<1>8. CASE Rename
  <2>1. UNCHANGED <<mem, up>> /\ up /\ onDisk' = onDisk \cup {tmp.data}
    BY <1>8 DEF Rename, SaveStep, Rest, StoreInv, LoopInv
  <2>2. Load(tmp.data) = mem
    BY <1>8, FileLoads DEF Rename, SaveStep
  <2>3. Kept' = Kept \cup {mem}
    BY <1>1, <2>1, <2>2
  <2> QED
    BY <2>1, <2>3 DEF S!Next, S!Offer, Current
<1>9. CASE SyncDir
  <2>1. UNCHANGED <<mem, up>> /\ up /\ onDisk' = {file}
    BY <1>9 DEF SyncDir, Rest
  <2>2. Load(file) = mem
    BY <1>9, FileLoads DEF SyncDir
  <2> QED
    BY <1>1, <2>1, <2>2 DEF S!Next, S!Settle, Current
<1>10. CASE Exit \/ Killed \/ PowerLoss
  <2>1. up' = FALSE /\ onDisk' \subseteq onDisk
    BY <1>2, <1>10 DEF Exit, Killed, PowerLoss, Ends
  <2>2. Current' = Load(file') /\ Current' \in Kept /\ Kept' \subseteq Kept /\ Current' \in Kept'
    BY <1>1, <1>2, <2>1 DEF Current
  <2> QED
    BY <2>2 DEF S!Next, S!Restart
<1>11. CASE Start
  BY <1>11 DEF Start, diskVars, Current, Kept
<1>12. CASE FlushLoop
  <2>1. CASE TakeDirty \/ TimerFires \/ TakeDone \/ CreateTemp \/ WriteTemp \/ SyncTemp \/ SaveFails
    BY <1>3, <2>1 DEF TakeDirty, TimerFires, TakeDone, CreateTemp, WriteTemp, SyncTemp, SaveFails,
                      SaveStep, Rest, diskVars
  <2> QED
    BY <1>8, <1>9, <1>12, <2>1 DEF FlushLoop
<1>13. CASE Handlers
  <2>1. CASE BindRole \/ BindLocale \/ ToggleSpeaker \/ GetOrCreateAllyCode
    BY <1>4, <2>1 DEF BindRole, BindLocale, ToggleSpeaker, GetOrCreateAllyCode, S!Next
  <2>2. CASE UnbindChannel
    BY <1>5, <2>2 DEF UnbindChannel, S!Next
  <2>3. CASE (\E h \in Binders : BindLook(h)) \/ ChannelDeleted \/ ChannelsFetched \/ SweepLooks
    BY <1>3, <2>3 DEF BindLook, ChannelDeleted, ChannelsFetched, SweepLooks, storeVars, diskVars
  <2> QED
    BY <1>6, <1>7, <1>13, <2>1, <2>2, <2>3 DEF Handlers, S!Next
<1>14. CASE Process
  <2>1. CASE Close
    BY <1>3, <2>1 DEF Close, storeVars, diskVars
  <2> QED
    BY <1>10, <1>11, <1>14, <2>1 DEF Process
<1>15. CASE UNCHANGED vars
  BY <1>3, <1>15 DEF vars, storeVars, diskVars
<1> QED
  BY <1>12, <1>13, <1>14, <1>15 DEF Next

\* The YAML store is a store of settings: every restart, after an exit, a kill or a
\* power loss between any two file operations, finds settings the store had.
THEOREM StoreKeepsPromise == Spec => StoreKeepsItsPromise
<1>1. Init => S!Init
  <2>1. FileOf(S!Empty) = {}
    BY DEF FileOf, S!Empty, ChannelEntries, DisabledOnlyEntries, RoleEntries
  <2>2. Load({}) = S!Empty
    BY <2>1, LoadUndoesSave, EmptyIsGood DEF Good
  <2> SUFFICES ASSUME Init PROVE S!Init
    OBVIOUS
  <2>3. Kept = {S!Empty}
    BY <2>2, KeptIsLoaded, StoreInit DEF Init
  <2> QED
    BY <2>3 DEF Init, S!Init, Current
<1> QED
  BY <1>1, StoreRefines, StoreInvariant, PTL DEF Spec, S!Spec, StoreKeepsItsPromise
=============================================================================
