---------------------------- MODULE AllyRegistry ----------------------------
(***************************************************************************)
(* The registry of cross-guild relay sessions (internal/ally/session.go):  *)
(* ally.Manager with its two maps, and the part of ally.Session that the   *)
(* life of a raid touches (its host, its done channel and the output       *)
(* channels the attached guilds registered).                               *)
(*                                                                         *)
(* Every exported operation runs under Manager.mu or Session.mu, so each   *)
(* one is a single step; the callers in RaidLifecycle conjoin it with the  *)
(* rest of their own step.  A relay session is named by the command that   *)
(* created it, and the relay code of a guild by the guild itself: the      *)
(* store hands every guild one code and keeps it for good.                 *)
(***************************************************************************)
CONSTANTS Guilds,     \* guild IDs; also the relay codes
          Commands,   \* command invocations; also the sessions they create
          None        \* nil

ASSUME RegistryConstants == None \notin Guilds \cup Commands

VARIABLES sessions,   \* Manager.sessions: code -> session
          byGuild,    \* Manager.byGuild: guild, host or guest -> session
          hostOf,     \* Session.HostGuildID, None until the session is created
          done,       \* the sessions whose done channel is closed
          outs        \* Session.outs: guild -> the raid whose channels it holds

registryVars == <<sessions, byGuild, hostOf, done, outs>>

OrNone(S) == S \cup {None}

RegistryTypeOK ==
    /\ sessions \in [Guilds -> OrNone(Commands)]
    /\ byGuild \in [Guilds -> OrNone(Commands)]
    /\ hostOf \in [Commands -> OrNone(Guilds)]
    /\ done \subseteq Commands
    /\ outs \in [Commands -> [Guilds -> OrNone(Commands)]]

RegistryInit ==
    /\ sessions = [g \in Guilds |-> None]
    /\ byGuild = [g \in Guilds |-> None]
    /\ hostOf = [s \in Commands |-> None]
    /\ done = {}
    /\ outs = [s \in Commands |-> [g \in Guilds |-> None]]

\* Manager.Create: both map entries are overwritten, whatever they held.
Create(s, host) ==
    /\ sessions' = [sessions EXCEPT ![host] = s]
    /\ byGuild' = [byGuild EXCEPT ![host] = s]
    /\ hostOf' = [hostOf EXCEPT ![s] = host]
    /\ UNCHANGED <<done, outs>>

\* Manager.Join succeeds: the code is known, is not the guild's own, and the
\* guild belongs to no session.
CanJoin(code, g) ==
    /\ sessions[code] # None
    /\ hostOf[sessions[code]] # g
    /\ byGuild[g] = None

Join(code, g) ==
    /\ byGuild' = [byGuild EXCEPT ![g] = sessions[code]]
    /\ UNCHANGED <<sessions, hostOf, done, outs>>

\* Manager.RemoveGuest deletes the guild's entry without looking at it.
RemoveGuest(g) ==
    /\ byGuild' = [byGuild EXCEPT ![g] = None]
    /\ UNCHANGED <<sessions, hostOf, done, outs>>

\* Session.GuestGuildIDs: AddGuild and RemoveGuild keep guests equal to the
\* attached guilds other than the host.
GuestGuildIDs(s) == {g \in Guilds : outs[s][g] # None /\ g # hostOf[s]}

\* Mutant: the guests are not told.
RemoveHostQuietly(h) ==
    LET s == byGuild[h] IN
    \/ /\ s = None
       /\ UNCHANGED registryVars
    \/ /\ s # None
       /\ sessions' = [sessions EXCEPT ![hostOf[s]] = None]
       /\ byGuild' = [g \in Guilds |->
                        IF g \in GuestGuildIDs(s) \cup {h} THEN None ELSE byGuild[g]]
       /\ UNCHANGED <<hostOf, done, outs>>

\* Manager.RemoveHost closes whatever session the guild is found under, host
\* or guest, and forgets every participant that is attached to it.
RemoveHost(h) ==
    LET s == byGuild[h] IN
    \/ /\ s = None
       /\ UNCHANGED registryVars
    \/ /\ s # None
       /\ done' = done \cup {s}
       /\ sessions' = [sessions EXCEPT ![hostOf[s]] = None]
       /\ byGuild' = [g \in Guilds |->
                        IF g \in GuestGuildIDs(s) \cup {h} THEN None ELSE byGuild[g]]
       /\ UNCHANGED <<hostOf, outs>>

\* Session.AddGuild: the guild's channels join the broadcast.
AddGuild(s, g, raid) ==
    /\ outs' = [outs EXCEPT ![s][g] = raid]
    /\ UNCHANGED <<sessions, byGuild, hostOf, done>>

\* Session.RemoveGuild: takes Session.mu for writing, so no broadcast that saw
\* the guild's channels is still sending when it returns.
RemoveGuild(s, g) ==
    /\ outs' = [outs EXCEPT ![s][g] = None]
    /\ UNCHANGED <<sessions, byGuild, hostOf, done>>
=============================================================================
