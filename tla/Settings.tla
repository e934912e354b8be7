------------------------------ MODULE Settings ------------------------------
(* What a store of guild settings promises, whoever implements it: the        *)
(* operations of store.Store on one value, and a memory of what a restart may *)
(* find.  The in-memory store is this value alone; YAMLStore implements the   *)
(* whole of it (YAMLStore.tla).                                               *)
CONSTANTS Guilds, Bots, Channels, RoleTypes, Roles, Codes, Locales,
          None            \* no channel, role, code or locale

VARIABLES current,        \* the settings in memory
          kept            \* the settings a restart may come back with

\* A map keyed by a guild and a bot or a role type is a function of the one and then
\* of the other.
SettingsValues ==
    [channels : [Guilds -> [Bots -> Channels \cup {None}]],
     roles    : [Guilds -> [RoleTypes -> Roles \cup {None}]],
     codes    : [Guilds -> Codes \cup {None}],
     locales  : [Guilds -> Locales \cup {None}],
     disabled : [Guilds -> SUBSET Bots]]

Empty == [channels |-> [g \in Guilds |-> [b \in Bots |-> None]],
          roles    |-> [g \in Guilds |-> [t \in RoleTypes |-> None]],
          codes    |-> [g \in Guilds |-> None],
          locales  |-> [g \in Guilds |-> None],
          disabled |-> [g \in Guilds |-> {}]]

(***************************************************************************)
(* The operations.  Removing is writing None.                              *)
(***************************************************************************)
SetChannel(s, g, b, c) == [s EXCEPT !.channels[g][b] = c]
SetRole(s, g, t, r)    == [s EXCEPT !.roles[g][t] = r]
SetLocale(s, g, l)     == [s EXCEPT !.locales[g] = l]

SetSpeakerEnabled(s, g, b, enabled) ==
    [s EXCEPT !.disabled[g] = IF enabled THEN @ \ {b} ELSE @ \cup {b}]

\* uniqueAllyCode: any code no other guild of the store has.
FreshCodes(s) == Codes \ {s.codes[g] : g \in Guilds}

\* GetOrCreateAllyCode changes nothing when the guild already has a code.
CreateCode(s, g, k) == [s EXCEPT !.codes[g] = k]

RoleChanges(s) ==
    {SetRole(s, g, t, r) : g \in Guilds, t \in RoleTypes, r \in Roles \cup {None}}

LocaleChanges(s) == {SetLocale(s, g, l) : g \in Guilds, l \in Locales \cup {None}}

SpeakerChanges(s) == {SetSpeakerEnabled(s, g, b, e) : g \in Guilds, b \in Bots, e \in BOOLEAN}

CodeChanges(s) ==
    {CreateCode(s, g, k) : g \in {h \in Guilds : s.codes[h] = None}, k \in FreshCodes(s)}

BindingChanges(s) ==
    {SetChannel(s, g, b, c) : g \in Guilds, b \in Bots, c \in Channels \cup {None}}

-----------------------------------------------------------------------------
Init == current = Empty /\ kept = {Empty}

Change == /\ current' \in RoleChanges(current) \cup LocaleChanges(current)
                          \cup SpeakerChanges(current) \cup CodeChanges(current)
                          \cup BindingChanges(current)
          /\ UNCHANGED kept

\* A save: at first the new settings may be found, later only they are.
Offer  == kept' = kept \cup {current} /\ UNCHANGED current
Settle == kept' = {current} /\ UNCHANGED current

\* A restart finds one of the settings kept, and never anything else; it may decide
\* which of them survive.
Restart == /\ current' \in kept
           /\ kept' \in SUBSET kept
           /\ current' \in kept'

Next == Change \/ Offer \/ Settle \/ Restart

Spec == Init /\ [][Next]_<<current, kept>>
=============================================================================
