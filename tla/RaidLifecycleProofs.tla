------------------------ MODULE RaidLifecycleProofs ------------------------
(***************************************************************************)
(* Proofs about RaidLifecycle for every set of guilds, commands and        *)
(* speakers and every failure: first what holds however commands overlap,  *)
(* then what holds of the commands that overlap neither a start nor a      *)
(* teardown (Orderly).                                                     *)
(***************************************************************************)
EXTENDS RaidLifecycle, TLAPS

-----------------------------------------------------------------------------
(* What a goroutine's position says about its request *)

\* The goroutine of a command is on the path its kind prescribes, and carries
\* the operands that path needs.
RequestOK(c) ==
    /\ pc[c] # "idle" => guildOf(c) \in Guilds
    /\ pc[c] \in StartSteps => IsStart(c)
    /\ pc[c] = "enlist" => IsGuest(c)
    /\ pc[c] = "fallback" => Aimed(c)
    /\ IsGuest(c) => req[c].arg \in Guilds
    /\ Aimed(c) => req[c].arg \in Commands
    /\ pc[c] \in {"cancel", "detach", "cleanup"} => target[c] \in Commands
    /\ c \in watching => pc[c] # "idle"

TypeInv == TypeOK /\ \A c \in Commands : RequestOK(c)

\* The initial state is well-typed and no command has been issued.
LEMMA InitTypeInv == Init => TypeInv
BY RegistryConstants, LifecycleConstants
   DEF Init, RegistryInit, TypeInv, TypeOK, RegistryTypeOK, OrNone, RequestOK,
       Requests, NoRequest, Kinds, AllOffers, Steps, StartSteps, StopSteps, DownSteps,
       guildOf, IsStart, IsHost, IsGuest, Aimed, Bots

\* Putting something on a bot's connection keeps the type of the connections.
LEMMA SetVoiceType ==
  ASSUME TypeOK, NEW g, NEW b, NEW v \in Commands \cup {None, Silent}, SetVoice(g, b, v)
  PROVE  voice' \in [Guilds -> [Bots -> Commands \cup {None, Silent}]]
BY DEF TypeOK, SetVoice

\* Storing a bot's applier keeps the type of the reconnect registry.
LEMMA StoreApplierType ==
  ASSUME TypeOK, NEW g, NEW b, NEW c \in Commands, StoreApplier(g, b, c)
  PROVE  appliers' \in [Guilds -> [Bots -> OrNone(Commands)]]
BY DEF TypeOK, StoreApplier, OrNone

\* Attaching a guild to a relay session and detaching it keep the registry
\* well-typed.
LEMMA OutsType ==
  ASSUME RegistryTypeOK, NEW s, NEW g, NEW x \in Commands,
         AddGuild(s, g, x) \/ RemoveGuild(s, g)
  PROVE  RegistryTypeOK'
<1>1. PICK v \in OrNone(Commands) : outs' = [outs EXCEPT ![s][g] = v]
  BY DEF AddGuild, RemoveGuild, OrNone
<1>2. outs' \in [Commands -> [Guilds -> OrNone(Commands)]]
  BY <1>1 DEF RegistryTypeOK
<1>. QED
  BY <1>2 DEF RegistryTypeOK, AddGuild, RemoveGuild

\* Manager.RemoveHost keeps the registry well-typed.
LEMMA RemoveHostType ==
  ASSUME RegistryTypeOK, NEW h \in Guilds, RemoveHost(h)
  PROVE  RegistryTypeOK'
BY DEF RegistryTypeOK, OrNone, RemoveHost, registryVars

\* Every step of a start is well-typed.
LEMMA StartStepType == ASSUME TypeInv, NEW c \in Commands, StartStep(c) PROVE TypeOK'
<1>1. CASE StartBegin(c)
  <2>1. pc' \in [Commands -> Steps]
    BY ZenonT(40), <1>1 DEF TypeInv, TypeOK, StartBegin, Steps, StartSteps, StopSteps,
       Goto
  <2>2. cancelled' \subseteq Commands
    BY <1>1 DEF TypeInv, TypeOK, StartBegin, Cancel
  <2>3. inFlight' \in [Guilds -> OrNone(Commands)]
    BY <1>1 DEF TypeInv, TypeOK, StartBegin, OrNone
  <2>. QED
    BY <1>1, <2>1, <2>2, <2>3 DEF TypeInv, TypeOK, RegistryTypeOK, StartBegin,
       localVars, onceVars, voiceVars, registryVars
<1>2. CASE Enlist(c)
  <2>1. pc' \in [Commands -> Steps]
    BY ZenonT(40), <1>2 DEF TypeInv, TypeOK, Enlist, Steps, StartSteps, StopSteps, Goto
  <2>2. target' \in [Commands -> OrNone(Commands)]
    BY <1>2 DEF TypeInv, TypeOK, Enlist, OrNone, RegistryTypeOK, RequestOK,
       registryVars
  <2>3. RegistryTypeOK'
    BY <1>2 DEF TypeInv, TypeOK, Enlist, RegistryTypeOK, OrNone, Join,
       registryVars, CanJoin, RequestOK
  <2>. QED
    BY <1>2, <2>1, <2>2, <2>3 DEF TypeInv, TypeOK, RegistryTypeOK, Enlist,
       serviceVars, onceVars, voiceVars, registryVars
<1>3. CASE Snapshot(c)
  <2>1. pc' \in [Commands -> Steps]
    BY <1>3 DEF TypeInv, TypeOK, Snapshot, Steps, StartSteps, StopSteps, Goto,
       Bail
  <2>2. status' \in [Guilds -> BOOLEAN]
    BY <1>3 DEF TypeInv, TypeOK, Snapshot
  <2>3. pending' \in [Commands -> SUBSET Speakers]
    BY <1>3 DEF TypeInv, TypeOK, Snapshot, Candidates
  <2>. QED
    BY <1>3, <2>1, <2>2, <2>3 DEF TypeInv, TypeOK, RegistryTypeOK, Snapshot,
       onceVars, voiceVars, registryVars
<1>4. CASE \E b \in Speakers : AttachSpeaker(c, b)
  <2>. PICK b \in Speakers : AttachSpeaker(c, b)
    BY <1>4
  <2>1. voice' \in [Guilds -> [Bots -> Commands \cup {None, Silent}]]
    BY SetVoiceType DEF TypeInv, AttachSpeaker, VoiceAfterLeave, Bots, TypeOK
  <2>2. appliers' \in [Guilds -> [Bots -> OrNone(Commands)]]
    BY StoreApplierType DEF TypeInv, AttachSpeaker, Bots, TypeOK
  <2>3. joined' \in [Commands -> SUBSET Speakers]
    BY DEF TypeInv, TypeOK, AttachSpeaker
  <2>4. pending' \in [Commands -> SUBSET Speakers]
    BY DEF TypeInv, TypeOK, AttachSpeaker
  <2>. QED
    BY <2>1, <2>2, <2>3, <2>4 DEF TypeInv, TypeOK, RegistryTypeOK,
       AttachSpeaker, serviceVars, onceVars, registryVars
<1>5. CASE SpeakersJoined(c)
  <2>1. pc' \in [Commands -> Steps]
    BY <1>5 DEF TypeInv, TypeOK, SpeakersJoined, Steps, StartSteps, StopSteps,
       Goto, Bail
  <2>. QED
    BY <1>5, <2>1 DEF TypeInv, TypeOK, RegistryTypeOK, SpeakersJoined,
       localVars, serviceVars, onceVars, voiceVars, registryVars
<1>6. CASE AttachOwner(c)
  <2>1. pc' \in [Commands -> Steps]
    BY <1>6 DEF TypeInv, TypeOK, AttachOwner, Steps, StartSteps, StopSteps,
       Goto
  <2>2. voice' \in [Guilds -> [Bots -> Commands \cup {None, Silent}]]
    BY <1>6, SetVoiceType DEF TypeInv, AttachOwner, Bots, TypeOK, voiceVars
  <2>3. appliers' \in [Guilds -> [Bots -> OrNone(Commands)]]
    BY <1>6, StoreApplierType DEF TypeInv, AttachOwner, Bots, TypeOK,
       voiceVars
  <2>4. ownerUp' \subseteq Commands
    BY <1>6 DEF TypeInv, TypeOK, AttachOwner
  <2>. QED
    BY <1>6, <2>1, <2>2, <2>3, <2>4 DEF TypeInv, TypeOK, RegistryTypeOK,
       AttachOwner, serviceVars, onceVars, voiceVars, registryVars
<1>7. CASE HostCreate(c)
  <2>1. pc' \in [Commands -> Steps]
    BY <1>7 DEF TypeInv, TypeOK, HostCreate, Steps, StartSteps, StopSteps,
       Goto
  <2>2. RegistryTypeOK'
    BY <1>7 DEF TypeInv, TypeOK, HostCreate, RegistryTypeOK, OrNone, Create,
       guildOf, RequestOK
  <2>. QED
    BY <1>7, <2>1, <2>2 DEF TypeInv, TypeOK, RegistryTypeOK, HostCreate,
       localVars, serviceVars, onceVars, voiceVars
<1>8. CASE Build(c)
  <2>1. pc' \in [Commands -> Steps]
    BY <1>8 DEF TypeInv, TypeOK, Build, Steps, StartSteps, StopSteps, Goto
  <2>. QED
    BY <1>8, <2>1 DEF TypeInv, TypeOK, RegistryTypeOK, Build, localVars,
       serviceVars, onceVars, voiceVars, registryVars
<1>9. CASE CtxCheck(c)
  <2>1. pc' \in [Commands -> Steps]
    BY <1>9 DEF TypeInv, TypeOK, CtxCheck, Steps, StartSteps, StopSteps, Goto
  <2>. QED
    BY <1>9, <2>1 DEF TypeInv, TypeOK, RegistryTypeOK, CtxCheck, localVars,
       serviceVars, onceVars, voiceVars, registryVars
<1>10. CASE Commit(c)
  <2>1. pc' \in [Commands -> Steps]
    BY ZenonT(40), <1>10 DEF TypeInv, TypeOK, Commit, Steps, StartSteps, StopSteps, Goto
  <2>2. session' \in [Guilds -> OrNone(Commands)]
    BY <1>10 DEF TypeInv, TypeOK, Commit, OrNone
  <2>. QED
    BY <1>10, <2>1, <2>2 DEF TypeInv, TypeOK, RegistryTypeOK, Commit,
       localVars, onceVars, voiceVars, registryVars
<1>11. CASE StartPipeline(c)
  <2>1. pc' \in [Commands -> Steps]
    BY <1>11 DEF TypeInv, TypeOK, StartPipeline, Steps, StartSteps, StopSteps,
       Goto
  <2>2. watching' \subseteq Commands
    BY <1>11 DEF TypeInv, TypeOK, StartPipeline
  <2>3. relay' \in [Commands -> {"none", "open", "closing", "closed"}]
    BY <1>11 DEF TypeInv, TypeOK, StartPipeline, RegisterHostInputs
  <2>4. down' \in [Commands -> DownSteps]
    BY <1>11 DEF TypeInv, TypeOK, StartPipeline, DownSteps
  <2>5. RegistryTypeOK'
    BY <1>11, OutsType DEF TypeInv, TypeOK, StartPipeline, RegisterHostInputs,
       registryVars, RegistryTypeOK
  <2>. QED
    BY <1>11, <2>1, <2>2, <2>3, <2>4, <2>5 DEF TypeInv, TypeOK,
       RegistryTypeOK, StartPipeline, localVars, serviceVars, onceVars,
       voiceVars, registryVars
<1>12. CASE Release(c)
  <2>1. pc' \in [Commands -> Steps]
    BY <1>12 DEF TypeInv, TypeOK, Release, Steps, StartSteps, StopSteps, Goto
  <2>2. cancelled' \subseteq Commands
    BY <1>12 DEF TypeInv, TypeOK, Release, Cancel
  <2>3. inFlight' \in [Guilds -> OrNone(Commands)]
    BY <1>12 DEF TypeInv, TypeOK, Release, OrNone
  <2>. QED
    BY <1>12, <2>1, <2>2, <2>3 DEF TypeInv, TypeOK, RegistryTypeOK, Release,
       localVars, onceVars, voiceVars, registryVars
<1>13. CASE Undo(c)
  <2>1. pc' \in [Commands -> Steps]
    BY <1>13 DEF TypeInv, TypeOK, Undo, Steps, StartSteps, StopSteps, Goto
  <2>2. cleaned' \subseteq Commands
    BY <1>13 DEF TypeInv, TypeOK, Undo, SpeakerCleanup, onceVars
  <2>3. leaving' \in [Commands -> SUBSET Speakers]
    BY <1>13 DEF TypeInv, TypeOK, Undo, SpeakerCleanup, onceVars
  <2>. QED
    BY <1>13, <2>1, <2>2, <2>3 DEF TypeInv, TypeOK, RegistryTypeOK, Undo,
       localVars, serviceVars, onceVars, voiceVars, registryVars
<1>14. CASE UndoWaited(c)
  <2>1. pc' \in [Commands -> Steps]
    BY <1>14 DEF TypeInv, TypeOK, UndoWaited, Steps, StartSteps, StopSteps,
       Goto
  <2>. QED
    BY <1>14, <2>1 DEF TypeInv, TypeOK, RegistryTypeOK, UndoWaited, localVars,
       serviceVars, onceVars, voiceVars, registryVars
<1>15. CASE UndoOwner(c)
  <2>1. pc' \in [Commands -> Steps]
    BY <1>15 DEF TypeInv, TypeOK, UndoOwner, Steps, StartSteps, StopSteps,
       Goto
  <2>2. voice' \in [Guilds -> [Bots -> Commands \cup {None, Silent}]]
    BY <1>15, SetVoiceType DEF TypeInv, UndoOwner, VoiceAfterLeave, Bots,
       TypeOK
  <2>. QED
    BY <1>15, <2>1, <2>2 DEF TypeInv, TypeOK, RegistryTypeOK, UndoOwner,
       localVars, serviceVars, onceVars, registryVars
<1>16. CASE UndoRegistry(c)
  <2>1. pc' \in [Commands -> Steps]
    BY <1>16 DEF TypeInv, TypeOK, UndoRegistry, Steps, StartSteps, StopSteps,
       Goto
  <2>2. RegistryTypeOK'
    BY <1>16, RemoveHostType DEF TypeInv, TypeOK, UndoRegistry, RequestOK,
       StartSteps, RemoveGuest, RegistryTypeOK, OrNone
  <2>. QED
    BY <1>16, <2>1, <2>2 DEF TypeInv, TypeOK, RegistryTypeOK, UndoRegistry,
       localVars, serviceVars, onceVars, voiceVars, registryVars
<1>. QED
  BY <1>1, <1>2, <1>3, <1>4, <1>5, <1>6, <1>7, <1>8, <1>9, <1>10, <1>11,
     <1>12, <1>13, <1>14, <1>15, <1>16 DEF StartStep

\* Every step of a stop is well-typed; it acts only on raids that exist.
LEMMA StopStepType == ASSUME TypeInv, NEW c \in Commands, StopStep(c) PROVE TypeOK'
<1>1. CASE StopLook(c)
  <2>1. pc' \in [Commands -> Steps]
    BY <1>1 DEF TypeInv, TypeOK, StopLook, Steps, StartSteps, StopSteps, Goto
  <2>2. target' \in [Commands -> OrNone(Commands)]
    BY <1>1 DEF TypeInv, TypeOK, StopLook, OrNone, RequestOK, StopSteps,
       TakesSession
  <2>3. session' \in [Guilds -> OrNone(Commands)]
    BY <1>1 DEF TypeInv, TypeOK, StopLook, OrNone
  <2>. QED
    BY <1>1, <2>1, <2>2, <2>3 DEF TypeInv, TypeOK, RegistryTypeOK, StopLook,
       onceVars, voiceVars, registryVars
<1>2. CASE CancelStart(c)
  <2>1. pc' \in [Commands -> Steps]
    BY <1>2 DEF TypeInv, TypeOK, CancelStart, Steps, StartSteps, StopSteps,
       Goto, StopReturns
  <2>2. target' \in [Commands -> OrNone(Commands)]
    BY <1>2 DEF TypeInv, TypeOK, CancelStart, OrNone, RequestOK
  <2>3. cancelled' \subseteq Commands
    BY <1>2 DEF TypeInv, TypeOK, CancelStart, Cancel, Aborted, OrNone,
       RequestOK
  <2>. QED
    BY <1>2, <2>1, <2>2, <2>3 DEF TypeInv, TypeOK, RegistryTypeOK,
       CancelStart, serviceVars, onceVars, voiceVars, registryVars
<1>3. CASE IdleFallback(c)
  <2>1. pc' \in [Commands -> Steps]
    BY <1>3 DEF TypeInv, TypeOK, IdleFallback, Steps, StartSteps, StopSteps,
       Goto
  <2>2. cancelled' \subseteq Commands
    BY <1>3 DEF TypeInv, TypeOK, IdleFallback, Cancel, RequestOK
  <2>. QED
    BY <1>3, <2>1, <2>2 DEF TypeInv, TypeOK, RegistryTypeOK, IdleFallback,
       localVars, serviceVars, onceVars, voiceVars, registryVars
<1>4. CASE StopCancel(c)
  <2>1. pc' \in [Commands -> Steps]
    BY <1>4 DEF TypeInv, TypeOK, StopCancel, Steps, StartSteps, StopSteps,
       Goto
  <2>2. cancelled' \subseteq Commands
    BY <1>4 DEF TypeInv, TypeOK, StopCancel, Cancel, RequestOK
  <2>. QED
    BY <1>4, <2>1, <2>2 DEF TypeInv, TypeOK, RegistryTypeOK, StopCancel,
       localVars, serviceVars, onceVars, voiceVars, registryVars
<1>5. CASE StopDetach(c)
  <2>1. pc' \in [Commands -> Steps]
    BY <1>5 DEF TypeInv, TypeOK, StopDetach, Steps, StartSteps, StopSteps,
       Goto
  <2>2. relay' \in [Commands -> {"none", "open", "closing", "closed"}]
    BY <1>5 DEF TypeInv, TypeOK, StopDetach
  <2>3. RegistryTypeOK'
    BY <1>5, OutsType DEF TypeInv, TypeOK, StopDetach, registryVars,
       RegistryTypeOK
  <2>. QED
    BY <1>5, <2>1, <2>2, <2>3 DEF TypeInv, TypeOK, RegistryTypeOK, StopDetach,
       localVars, serviceVars, onceVars, voiceVars, registryVars
<1>6. CASE StopCleanup(c)
  <2>1. pc' \in [Commands -> Steps]
    BY <1>6 DEF TypeInv, TypeOK, StopCleanup, Steps, StartSteps, StopSteps,
       Goto
  <2>2. relay' \in [Commands -> {"none", "open", "closing", "closed"}]
    BY <1>6 DEF TypeInv, TypeOK, StopCleanup
  <2>3. cleaned' \subseteq Commands
    BY <1>6 DEF TypeInv, TypeOK, StopCleanup, SpeakerCleanup, onceVars,
       RequestOK
  <2>4. leaving' \in [Commands -> SUBSET Speakers]
    BY <1>6 DEF TypeInv, TypeOK, StopCleanup, SpeakerCleanup, onceVars,
       RequestOK
  <2>. QED
    BY <1>6, <2>1, <2>2, <2>3, <2>4 DEF TypeInv, TypeOK, RegistryTypeOK,
       StopCleanup, localVars, serviceVars, onceVars, voiceVars, registryVars
<1>7. CASE StopWaited(c)
  <2>1. pc' \in [Commands -> Steps]
    BY <1>7 DEF TypeInv, TypeOK, StopWaited, Steps, StartSteps, StopSteps,
       Goto
  <2>. QED
    BY <1>7, <2>1 DEF TypeInv, TypeOK, RegistryTypeOK, StopWaited, localVars,
       serviceVars, onceVars, voiceVars, registryVars
<1>8. CASE StopLeaveOwner(c)
  <2>1. pc' \in [Commands -> Steps]
    BY <1>8 DEF TypeInv, TypeOK, StopLeaveOwner, Steps, StartSteps, StopSteps,
       Goto
  <2>2. voice' \in [Guilds -> [Bots -> Commands \cup {None, Silent}]]
    BY <1>8, SetVoiceType DEF TypeInv, StopLeaveOwner, Bots, TypeOK
  <2>. QED
    BY <1>8, <2>1, <2>2 DEF TypeInv, TypeOK, RegistryTypeOK, StopLeaveOwner,
       localVars, serviceVars, onceVars, registryVars
<1>9. CASE StopRemoveHost(c)
  <2>1. pc' \in [Commands -> Steps]
    BY <1>9 DEF TypeInv, TypeOK, StopRemoveHost, Steps, StartSteps, StopSteps,
       Goto
  <2>2. RegistryTypeOK'
    BY <1>9, RemoveHostType DEF TypeInv, TypeOK, StopRemoveHost, RequestOK,
       StartSteps
  <2>. QED
    BY <1>9, <2>1, <2>2 DEF TypeInv, TypeOK, RegistryTypeOK, StopRemoveHost,
       localVars, serviceVars, onceVars, voiceVars, registryVars
<1>10. CASE StopClear(c)
  <2>1. pc' \in [Commands -> Steps]
    BY <1>10 DEF TypeInv, TypeOK, StopClear, Steps, StartSteps, StopSteps,
       Goto, StopReturns
  <2>2. appliers' \in [Guilds -> [Bots -> OrNone(Commands)]]
    BY <1>10 DEF TypeInv, TypeOK, StopClear, ClearAppliers, OrNone
  <2>. QED
    BY <1>10, <2>1, <2>2 DEF TypeInv, TypeOK, RegistryTypeOK, StopClear,
       localVars, serviceVars, onceVars, registryVars
<1>11. CASE ForgetDrop(c)
  <2>1. pc' \in [Commands -> Steps]
    BY <1>11 DEF TypeInv, TypeOK, ForgetDrop, Steps, StartSteps, StopSteps,
       Goto
  <2>2. status' \in [Guilds -> BOOLEAN]
    BY <1>11 DEF TypeInv, TypeOK, ForgetDrop
  <2>3. session' \in [Guilds -> OrNone(Commands)]
    BY <1>11 DEF TypeInv, TypeOK, ForgetDrop, OrNone
  <2>. QED
    BY <1>11, <2>1, <2>2, <2>3 DEF TypeInv, TypeOK, RegistryTypeOK,
       ForgetDrop, localVars, onceVars, voiceVars, registryVars
<1>. QED
  BY <1>1, <1>2, <1>3, <1>4, <1>5, <1>6, <1>7, <1>8, <1>9, <1>10, <1>11 DEF
     StopStep

\* Every step of a guest's teardown goroutine is well-typed.
LEMMA TeardownStepType == ASSUME TypeInv, NEW c \in Commands, TeardownStep(c) PROVE TypeOK'
<1>1. CASE TeardownWake(c)
  <2>1. down' \in [Commands -> DownSteps]
    BY <1>1 DEF TypeInv, TypeOK, TeardownWake, DownSteps, DownTo
  <2>2. cancelled' \subseteq Commands
    BY <1>1 DEF TypeInv, TypeOK, TeardownWake, Cancel
  <2>. QED
    BY <1>1, <2>1, <2>2 DEF TypeInv, TypeOK, RegistryTypeOK, TeardownWake,
       localVars, serviceVars, onceVars, voiceVars, registryVars
<1>2. CASE TeardownClear(c)
  <2>1. down' \in [Commands -> DownSteps]
    BY <1>2 DEF TypeInv, TypeOK, TeardownClear, DownSteps, DownTo
  <2>2. session' \in [Guilds -> OrNone(Commands)]
    BY <1>2 DEF TypeInv, TypeOK, TeardownClear, OrNone
  <2>. QED
    BY <1>2, <2>1, <2>2 DEF TypeInv, TypeOK, RegistryTypeOK, TeardownClear,
       localVars, onceVars, voiceVars, registryVars
<1>3. CASE TeardownSpeakers(c)
  <2>1. down' \in [Commands -> DownSteps]
    BY <1>3 DEF TypeInv, TypeOK, TeardownSpeakers, DownSteps, DownTo
  <2>2. cleaned' \subseteq Commands
    BY <1>3 DEF TypeInv, TypeOK, TeardownSpeakers, SpeakerCleanup, onceVars
  <2>3. leaving' \in [Commands -> SUBSET Speakers]
    BY <1>3 DEF TypeInv, TypeOK, TeardownSpeakers, SpeakerCleanup, onceVars
  <2>. QED
    BY <1>3, <2>1, <2>2, <2>3 DEF TypeInv, TypeOK, RegistryTypeOK,
       TeardownSpeakers, localVars, serviceVars, onceVars, voiceVars,
       registryVars
<1>4. CASE TeardownWaited(c)
  <2>1. down' \in [Commands -> DownSteps]
    BY <1>4 DEF TypeInv, TypeOK, TeardownWaited, DownSteps, DownTo
  <2>. QED
    BY <1>4, <2>1 DEF TypeInv, TypeOK, RegistryTypeOK, TeardownWaited,
       localVars, serviceVars, onceVars, voiceVars, registryVars
<1>5. CASE TeardownOwner(c)
  <2>1. down' \in [Commands -> DownSteps]
    BY <1>5 DEF TypeInv, TypeOK, TeardownOwner, DownSteps, DownTo
  <2>2. voice' \in [Guilds -> [Bots -> Commands \cup {None, Silent}]]
    BY <1>5, SetVoiceType DEF TypeInv, TeardownOwner, Bots, TypeOK
  <2>. QED
    BY <1>5, <2>1, <2>2 DEF TypeInv, TypeOK, RegistryTypeOK, TeardownOwner,
       localVars, serviceVars, onceVars, registryVars
<1>6. CASE TeardownDetach(c)
  <2>1. down' \in [Commands -> DownSteps]
    BY <1>6 DEF TypeInv, TypeOK, TeardownDetach, DownSteps, DownTo
  <2>2. RegistryTypeOK'
    BY <1>6, OutsType DEF TypeInv, TypeOK, TeardownDetach, RegistryTypeOK
  <2>. QED
    BY <1>6, <2>1, <2>2 DEF TypeInv, TypeOK, RegistryTypeOK, TeardownDetach,
       localVars, serviceVars, onceVars, voiceVars
<1>7. CASE TeardownClose(c)
  <2>1. down' \in [Commands -> DownSteps]
    BY <1>7 DEF TypeInv, TypeOK, TeardownClose, DownSteps, DownTo
  <2>2. relay' \in [Commands -> {"none", "open", "closing", "closed"}]
    BY <1>7 DEF TypeInv, TypeOK, TeardownClose
  <2>. QED
    BY <1>7, <2>1, <2>2 DEF TypeInv, TypeOK, RegistryTypeOK, TeardownClose,
       localVars, serviceVars, onceVars, voiceVars, registryVars
<1>8. CASE TeardownUnlist(c)
  <2>1. down' \in [Commands -> DownSteps]
    BY <1>8 DEF TypeInv, TypeOK, TeardownUnlist, DownSteps, DownTo
  <2>2. RegistryTypeOK'
    BY <1>8 DEF TypeInv, TypeOK, TeardownUnlist, RegistryTypeOK, OrNone,
       RemoveGuest
  <2>. QED
    BY <1>8, <2>1, <2>2 DEF TypeInv, TypeOK, RegistryTypeOK, TeardownUnlist,
       localVars, serviceVars, onceVars, voiceVars
<1>9. CASE TeardownForget(c)
  <2>1. down' \in [Commands -> DownSteps]
    BY <1>9 DEF TypeInv, TypeOK, TeardownForget, DownSteps, DownTo
  <2>2. appliers' \in [Guilds -> [Bots -> OrNone(Commands)]]
    BY <1>9 DEF TypeInv, TypeOK, TeardownForget, ClearAppliers, OrNone
  <2>. QED
    BY <1>9, <2>1, <2>2 DEF TypeInv, TypeOK, RegistryTypeOK, TeardownForget,
       localVars, serviceVars, onceVars, registryVars
<1>. QED
  BY <1>1, <1>2, <1>3, <1>4, <1>5, <1>6, <1>7, <1>8, <1>9 DEF TeardownStep

\* A speaker's leave is well-typed.
LEMMA SpeakerStepType == ASSUME TypeInv, NEW c \in Commands, SpeakerStep(c) PROVE TypeOK'
<1>1. CASE \E b \in Speakers : SpeakerLeave(c, b)
  <2>. PICK b \in Speakers : SpeakerLeave(c, b)
    BY <1>1
  <2>1. leaving' \in [Commands -> SUBSET Speakers]
    BY DEF TypeInv, TypeOK, SpeakerLeave
  <2>2. voice' \in [Guilds -> [Bots -> Commands \cup {None, Silent}]]
    BY SetVoiceType DEF TypeInv, SpeakerLeave, Bots, TypeOK
  <2>. QED
    BY <2>1, <2>2 DEF TypeInv, TypeOK, RegistryTypeOK, SpeakerLeave,
       localVars, serviceVars, registryVars
<1>. QED
  BY <1>1 DEF SpeakerStep

\* A step of one goroutine leaves the requests and positions of the others.
Alone(c) ==
    /\ req' = req
    /\ \A d \in Commands \ {c} : pc'[d] = pc[d] /\ target'[d] = target[d]
    /\ watching' \subseteq watching \cup {c}

\* A step that keeps one command on its path disturbs no other command.
LEMMA RequestFrame ==
  ASSUME TypeInv, NEW c \in Commands, Alone(c), RequestOK(c)'
  PROVE  \A d \in Commands : RequestOK(d)'
BY DEF TypeInv, RequestOK, Alone, guildOf, IsStart, IsHost, IsGuest, Aimed

\* A start's steps stay on the path of its kind.
LEMMA StartStepRequest ==
  ASSUME TypeInv, NEW c \in Commands, StartStep(c)
  PROVE  Alone(c) /\ RequestOK(c)'
<1>1. CASE StartBegin(c)
  BY <1>1 DEF TypeInv, TypeOK, RequestOK, Alone, guildOf, IsStart, IsHost,
     IsGuest, Aimed, StartBegin, Goto, localVars, StartSteps
<1>2. CASE Enlist(c)
  BY <1>2 DEF TypeInv, TypeOK, RequestOK, Alone, guildOf, IsStart, IsHost,
     IsGuest, Aimed, Enlist, Goto, StartSteps, OrNone
<1>3. CASE Snapshot(c)
  BY <1>3 DEF TypeInv, TypeOK, RequestOK, Alone, guildOf, IsStart, IsHost,
     IsGuest, Aimed, Snapshot, Goto, StartSteps, Bail
<1>4. CASE \E b \in Speakers : AttachSpeaker(c, b)
  BY <1>4 DEF TypeInv, TypeOK, RequestOK, Alone, guildOf, IsStart, IsHost,
     IsGuest, Aimed, AttachSpeaker, StartSteps
<1>5. CASE SpeakersJoined(c)
  BY <1>5 DEF TypeInv, TypeOK, RequestOK, Alone, guildOf, IsStart, IsHost,
     IsGuest, Aimed, SpeakersJoined, Goto, localVars, StartSteps, Bail
<1>6. CASE AttachOwner(c)
  BY <1>6 DEF TypeInv, TypeOK, RequestOK, Alone, guildOf, IsStart, IsHost,
     IsGuest, Aimed, AttachOwner, Goto, StartSteps
<1>7. CASE HostCreate(c)
  BY <1>7 DEF TypeInv, TypeOK, RequestOK, Alone, guildOf, IsStart, IsHost,
     IsGuest, Aimed, HostCreate, Goto, localVars, StartSteps
<1>8. CASE Build(c)
  BY <1>8 DEF TypeInv, TypeOK, RequestOK, Alone, guildOf, IsStart, IsHost,
     IsGuest, Aimed, Build, Goto, localVars, StartSteps
<1>9. CASE CtxCheck(c)
  BY <1>9 DEF TypeInv, TypeOK, RequestOK, Alone, guildOf, IsStart, IsHost,
     IsGuest, Aimed, CtxCheck, Goto, localVars, StartSteps
<1>10. CASE Commit(c)
  BY <1>10 DEF TypeInv, TypeOK, RequestOK, Alone, guildOf, IsStart, IsHost,
     IsGuest, Aimed, Commit, Goto, localVars, StartSteps
<1>11. CASE StartPipeline(c)
  BY <1>11 DEF TypeInv, TypeOK, RequestOK, Alone, guildOf, IsStart, IsHost,
     IsGuest, Aimed, StartPipeline, Goto, localVars, StartSteps
<1>12. CASE Release(c)
  BY <1>12 DEF TypeInv, TypeOK, RequestOK, Alone, guildOf, IsStart, IsHost,
     IsGuest, Aimed, Release, Goto, localVars, StartSteps
<1>13. CASE Undo(c)
  BY <1>13 DEF TypeInv, TypeOK, RequestOK, Alone, guildOf, IsStart, IsHost,
     IsGuest, Aimed, Undo, Goto, localVars, StartSteps
<1>14. CASE UndoWaited(c)
  BY <1>14 DEF TypeInv, TypeOK, RequestOK, Alone, guildOf, IsStart, IsHost,
     IsGuest, Aimed, UndoWaited, Goto, localVars, StartSteps
<1>15. CASE UndoOwner(c)
  BY <1>15 DEF TypeInv, TypeOK, RequestOK, Alone, guildOf, IsStart, IsHost,
     IsGuest, Aimed, UndoOwner, Goto, localVars, StartSteps
<1>16. CASE UndoRegistry(c)
  BY <1>16 DEF TypeInv, TypeOK, RequestOK, Alone, guildOf, IsStart, IsHost,
     IsGuest, Aimed, UndoRegistry, Goto, localVars, StartSteps
<1>. QED
  BY <1>1, <1>2, <1>3, <1>4, <1>5, <1>6, <1>7, <1>8, <1>9, <1>10, <1>11,
     <1>12, <1>13, <1>14, <1>15, <1>16 DEF StartStep

\* A stop's steps stay on the path of its kind, with a raid to act on.
LEMMA StopStepRequest ==
  ASSUME TypeInv, NEW c \in Commands, StopStep(c)
  PROVE  Alone(c) /\ RequestOK(c)'
<1>1. CASE StopLook(c)
  BY <1>1 DEF TypeInv, TypeOK, RequestOK, Alone, guildOf, IsStart, IsHost,
     IsGuest, Aimed, StopLook, Goto, StartSteps, TakesSession, OrNone
<1>2. CASE CancelStart(c)
  BY <1>2 DEF TypeInv, TypeOK, RequestOK, Alone, guildOf, IsStart, IsHost,
     IsGuest, Aimed, CancelStart, Goto, StartSteps, StopReturns
<1>3. CASE IdleFallback(c)
  BY <1>3 DEF TypeInv, TypeOK, RequestOK, Alone, guildOf, IsStart, IsHost,
     IsGuest, Aimed, IdleFallback, Goto, localVars, StartSteps
<1>4. CASE StopCancel(c)
  BY <1>4 DEF TypeInv, TypeOK, RequestOK, Alone, guildOf, IsStart, IsHost,
     IsGuest, Aimed, StopCancel, Goto, localVars, StartSteps
<1>5. CASE StopDetach(c)
  BY <1>5 DEF TypeInv, TypeOK, RequestOK, Alone, guildOf, IsStart, IsHost,
     IsGuest, Aimed, StopDetach, Goto, localVars, StartSteps
<1>6. CASE StopCleanup(c)
  BY <1>6 DEF TypeInv, TypeOK, RequestOK, Alone, guildOf, IsStart, IsHost,
     IsGuest, Aimed, StopCleanup, Goto, localVars, StartSteps
<1>7. CASE StopWaited(c)
  BY <1>7 DEF TypeInv, TypeOK, RequestOK, Alone, guildOf, IsStart, IsHost,
     IsGuest, Aimed, StopWaited, Goto, localVars, StartSteps
<1>8. CASE StopLeaveOwner(c)
  BY <1>8 DEF TypeInv, TypeOK, RequestOK, Alone, guildOf, IsStart, IsHost,
     IsGuest, Aimed, StopLeaveOwner, Goto, localVars, StartSteps
<1>9. CASE StopRemoveHost(c)
  BY <1>9 DEF TypeInv, TypeOK, RequestOK, Alone, guildOf, IsStart, IsHost,
     IsGuest, Aimed, StopRemoveHost, Goto, localVars, StartSteps
<1>10. CASE StopClear(c)
  BY <1>10 DEF TypeInv, TypeOK, RequestOK, Alone, guildOf, IsStart, IsHost,
     IsGuest, Aimed, StopClear, Goto, localVars, StartSteps, StopReturns
<1>11. CASE ForgetDrop(c)
  BY <1>11 DEF TypeInv, TypeOK, RequestOK, Alone, guildOf, IsStart, IsHost,
     IsGuest, Aimed, ForgetDrop, Goto, localVars, StartSteps
<1>. QED
  BY <1>1, <1>2, <1>3, <1>4, <1>5, <1>6, <1>7, <1>8, <1>9, <1>10, <1>11 DEF
     StopStep

\* The goroutines that tear a raid down touch no command's request.
LEMMA TeardownStepRequest ==
  ASSUME TypeInv, NEW c \in Commands, TeardownStep(c) \/ SpeakerStep(c)
  PROVE  Alone(c) /\ RequestOK(c)'
BY DEF TypeInv, TypeOK, RequestOK, Alone, guildOf, IsStart, IsHost, IsGuest, Aimed,
       TeardownStep, SpeakerStep, TeardownWake, TeardownClear, TeardownSpeakers,
       TeardownWaited, TeardownOwner, TeardownDetach, TeardownClose, TeardownUnlist,
       TeardownForget, SpeakerLeave, localVars

\* The kinds of command and what each of them carries.
LEMMA ArriveInv ==
  ASSUME TypeInv, NEW c \in Commands, Arrive(c)
  PROVE  TypeInv'
<1>. PICK kind \in AllOffers, g \in Guilds, arg \in OrNone(Guilds \cup Commands) :
        /\ Issue(c, kind, g, arg)
        /\ kind = "guest" => arg \in Guilds
        /\ kind = "idle" => arg \in Commands
        /\ status' = [status EXCEPT ![g] = TRUE] \/ UNCHANGED status
        /\ watching' \subseteq watching
  <2>1. CASE \E g \in Guilds : IssueStart(c, g)
    BY <2>1 DEF IssueStart, OrNone, AllOffers
  <2>2. CASE \E g, code \in Guilds : IssueJoin(c, g, code)
    BY <2>2 DEF IssueJoin, OrNone, AllOffers
  <2>3. CASE \E g \in Guilds : IssueStop(c, g)
    BY <2>3 DEF IssueStop, OrNone, AllOffers
  <2>4. CASE \E g \in Guilds : IssueForget(c, g)
    BY <2>4 DEF IssueForget, OrNone, AllOffers
  <2>5. CASE \E x \in Commands : IssueIdleStop(c, x)
    BY <2>5 DEF IssueIdleStop, OrNone, AllOffers, TypeInv, RequestOK
  <2>. QED
    BY <2>1, <2>2, <2>3, <2>4, <2>5 DEF Arrive
<1>1. req' \in [Commands -> Requests]
  BY DEF TypeInv, TypeOK, Issue, Requests, Kinds, OrNone
<1>2. pc' \in [Commands -> Steps]
  BY DEF TypeInv, TypeOK, Issue, Goto, Steps, StartSteps, StopSteps
<1>3. TypeOK'
  BY <1>1, <1>2 DEF TypeInv, TypeOK, RegistryTypeOK, Issue, onceVars, voiceVars,
     registryVars
<1>4. ASSUME NEW d \in Commands PROVE RequestOK(d)'
  BY DEF TypeInv, TypeOK, RequestOK, Issue, Goto, guildOf, IsStart, IsHost,
     IsGuest, Aimed, StartSteps, AllOffers
<1>. QED
  BY <1>3, <1>4 DEF TypeInv

\* Every step of the system keeps TypeInv.
LEMMA TypeInvStep == TypeInv /\ [Next]_vars => TypeInv'
<1>. SUFFICES ASSUME TypeInv, [Next]_vars PROVE TypeInv'
  OBVIOUS
<1>1. CASE UNCHANGED vars
  BY <1>1 DEF TypeInv, TypeOK, RegistryTypeOK, RequestOK, guildOf, IsStart, IsHost,
     IsGuest, Aimed, vars
<1>2. CASE Next
  <2>. PICK c \in Commands :
          Arrive(c) \/ StartStep(c) \/ StopStep(c) \/ TeardownStep(c) \/ SpeakerStep(c)
    BY <1>2 DEF Next
  <2>1. CASE Arrive(c)
    BY <2>1, ArriveInv
  <2>2. CASE StartStep(c)
    BY <2>2, StartStepType, StartStepRequest, RequestFrame DEF TypeInv
  <2>3. CASE StopStep(c)
    BY <2>3, StopStepType, StopStepRequest, RequestFrame DEF TypeInv
  <2>4. CASE TeardownStep(c)
    BY <2>4, TeardownStepType, TeardownStepRequest, RequestFrame DEF TypeInv
  <2>5. CASE SpeakerStep(c)
    BY <2>5, SpeakerStepType, TeardownStepRequest, RequestFrame DEF TypeInv
  <2>. QED
    BY <2>1, <2>2, <2>3, <2>4, <2>5
<1>. QED
  BY <1>1, <1>2

\* In every behaviour each command follows the path of its kind with the
\* operands that path needs.
THEOREM RequestsInv == Spec => []TypeInv
BY InitTypeInv, TypeInvStep, PTL DEF Spec

\* Every variable keeps its type: in particular only contexts, sessions and
\* raids that exist are ever cancelled, joined or cleaned up.
THEOREM TypeCorrect == Spec => []TypeOK
BY RequestsInv, PTL DEF TypeInv

-----------------------------------------------------------------------------
(* The start guard *)

\* The steps a start takes while it holds the guild's reservation.
Reserved == StartSteps \ {"begin"}

\* Who holds the reservation is the start that works, and the session it looked
\* for before its bots joined is still absent.
GuardOK(c) ==
    /\ pc[c] \in Reserved => inFlight[guildOf(c)] = c
    /\ pc[c] \in Joining => session[guildOf(c)] = None

GuardInv == \A c \in Commands : GuardOK(c)

\* A step that commits nothing and touches no reservation.
KeepsGuard(c) ==
    /\ inFlight' = inFlight
    /\ \A g \in Guilds : session'[g] \in {session[g], None}
    /\ pc'[c] \in Reserved => pc[c] \in Reserved
    /\ pc'[c] \in Joining => pc[c] \in Joining \/ session'[guildOf(c)] = None

\* A step that takes no reservation and commits nothing keeps GuardInv.
LEMMA GuardFrame ==
  ASSUME TypeInv, GuardInv, NEW c \in Commands, Alone(c), KeepsGuard(c)
  PROVE  GuardInv'
BY RegistryConstants
   DEF TypeInv, RequestOK, GuardInv, GuardOK, Alone, KeepsGuard, guildOf, Joining,
       Reserved, StartSteps

\* A start's steps keep GuardInv: it works only while it is reserved.
LEMMA StartStepGuard ==
  ASSUME TypeInv, GuardInv, NEW c \in Commands, StartStep(c)
  PROVE  GuardInv'
<1>. Alone(c)
  BY StartStepRequest
<1>. USE RegistryConstants
<1>1. CASE StartBegin(c)
  BY <1>1 DEF TypeInv, TypeOK, RequestOK, GuardInv, GuardOK, Alone, Reserved,
     Joining, StartSteps, guildOf, StartBegin, Goto, CanBegin
<1>2. CASE Enlist(c)
  BY <1>2, GuardFrame DEF TypeInv, TypeOK, KeepsGuard, Reserved, Joining,
     StartSteps, guildOf, Enlist, Goto, serviceVars
<1>3. CASE Snapshot(c)
  BY <1>3, GuardFrame DEF TypeInv, TypeOK, KeepsGuard, Reserved, Joining,
     StartSteps, guildOf, Snapshot, Goto, Bail
<1>4. CASE \E b \in Speakers : AttachSpeaker(c, b)
  BY <1>4, GuardFrame DEF TypeInv, TypeOK, KeepsGuard, Reserved, Joining,
     StartSteps, guildOf, AttachSpeaker, serviceVars
<1>5. CASE SpeakersJoined(c)
  BY <1>5, GuardFrame DEF TypeInv, TypeOK, KeepsGuard, Reserved, Joining,
     StartSteps, guildOf, SpeakersJoined, Goto, serviceVars, Bail
<1>6. CASE AttachOwner(c)
  BY <1>6, GuardFrame DEF TypeInv, TypeOK, KeepsGuard, Reserved, Joining,
     StartSteps, guildOf, AttachOwner, Goto, serviceVars
<1>7. CASE HostCreate(c)
  BY <1>7, GuardFrame DEF TypeInv, TypeOK, KeepsGuard, Reserved, Joining,
     StartSteps, guildOf, HostCreate, Goto, serviceVars
<1>8. CASE Build(c)
  BY <1>8, GuardFrame DEF TypeInv, TypeOK, KeepsGuard, Reserved, Joining,
     StartSteps, guildOf, Build, Goto, serviceVars
<1>9. CASE CtxCheck(c)
  BY <1>9, GuardFrame DEF TypeInv, TypeOK, KeepsGuard, Reserved, Joining,
     StartSteps, guildOf, CtxCheck, Goto, serviceVars
<1>10. CASE Commit(c)
  BY <1>10 DEF TypeInv, TypeOK, RequestOK, GuardInv, GuardOK, Alone, Reserved,
     Joining, StartSteps, guildOf, Commit, Goto
<1>11. CASE StartPipeline(c)
  BY <1>11, GuardFrame DEF TypeInv, TypeOK, KeepsGuard, Reserved, Joining,
     StartSteps, guildOf, StartPipeline, Goto, serviceVars
<1>12. CASE Release(c)
  BY <1>12 DEF TypeInv, TypeOK, RequestOK, GuardInv, GuardOK, Alone, Reserved,
     Joining, StartSteps, guildOf, Release, Goto
<1>13. CASE Undo(c)
  BY <1>13, GuardFrame DEF TypeInv, TypeOK, KeepsGuard, Reserved, Joining,
     StartSteps, guildOf, Undo, Goto, serviceVars
<1>14. CASE UndoWaited(c)
  BY <1>14, GuardFrame DEF TypeInv, TypeOK, KeepsGuard, Reserved, Joining,
     StartSteps, guildOf, UndoWaited, Goto, serviceVars
<1>15. CASE UndoOwner(c)
  BY <1>15, GuardFrame DEF TypeInv, TypeOK, KeepsGuard, Reserved, Joining,
     StartSteps, guildOf, UndoOwner, Goto, serviceVars
<1>16. CASE UndoRegistry(c)
  BY <1>16, GuardFrame DEF TypeInv, TypeOK, KeepsGuard, Reserved, Joining,
     StartSteps, guildOf, UndoRegistry, Goto, serviceVars
<1>. QED
  BY <1>1, <1>2, <1>3, <1>4, <1>5, <1>6, <1>7, <1>8, <1>9, <1>10, <1>11,
     <1>12, <1>13, <1>14, <1>15, <1>16 DEF StartStep

\* A stop's steps keep GuardInv: they only ever clear a session.
LEMMA StopStepGuard ==
  ASSUME TypeInv, GuardInv, NEW c \in Commands, StopStep(c)
  PROVE  GuardInv'
<1>. Alone(c)
  BY StopStepRequest
<1>1. inFlight' = inFlight /\ \A g \in Guilds : session'[g] \in {session[g], None}
  BY DEF TypeInv, TypeOK, StopStep, serviceVars, localVars, StopLook,
     CancelStart, IdleFallback, StopCancel, StopDetach, StopCleanup,
     StopWaited, StopLeaveOwner, StopRemoveHost, StopClear, ForgetDrop
<1>2. pc'[c] \notin Reserved
  BY DEF TypeInv, TypeOK, StopStep, Reserved, StartSteps, Goto, StopReturns,
     StopLook, CancelStart, IdleFallback, StopCancel, StopDetach, StopCleanup,
     StopWaited, StopLeaveOwner, StopRemoveHost, StopClear, ForgetDrop
<1>. QED
  BY <1>1, <1>2, GuardFrame DEF KeepsGuard, Joining, Reserved, StartSteps

\* A teardown's steps keep GuardInv: they only ever clear a session.
LEMMA TeardownStepGuard ==
  ASSUME TypeInv, GuardInv, NEW c \in Commands, TeardownStep(c) \/ SpeakerStep(c)
  PROVE  GuardInv'
<1>. Alone(c)
  BY TeardownStepRequest
<1>1. inFlight' = inFlight /\ \A g \in Guilds : session'[g] \in {session[g], None}
  BY DEF TypeInv, TypeOK, TeardownStep, SpeakerStep, SpeakerLeave,
     serviceVars, TeardownWake, TeardownClear, TeardownSpeakers,
     TeardownWaited, TeardownOwner, TeardownDetach, TeardownClose,
     TeardownUnlist, TeardownForget
<1>2. pc' = pc
  BY DEF TeardownStep, SpeakerStep, SpeakerLeave, TeardownWake, TeardownClear,
     TeardownSpeakers, TeardownWaited, TeardownOwner, TeardownDetach,
     TeardownClose, TeardownUnlist, TeardownForget
<1>. QED
  BY <1>1, <1>2, GuardFrame DEF KeepsGuard

\* A command that arrives holds no reservation yet.
LEMMA ArriveGuard ==
  ASSUME TypeInv, GuardInv, NEW c \in Commands, Arrive(c)
  PROVE  GuardInv'
<1>. PICK kind, g, arg : Issue(c, kind, g, arg)
  BY DEF Arrive, IssueStart, IssueJoin, IssueStop, IssueForget, IssueIdleStop
<1>1. pc'[c] \in {"begin", "look"} /\ \A d \in Commands \ {c} : pc'[d] = pc[d]
  BY DEF TypeInv, TypeOK, Issue, Goto
<1>2. \A d \in Commands \ {c} : guildOf(d)' = guildOf(d)
  BY DEF TypeInv, TypeOK, Issue, guildOf
<1>3. inFlight' = inFlight /\ session' = session
  BY DEF Issue
<1>. QED
  BY <1>1, <1>2, <1>3 DEF GuardInv, GuardOK, Reserved, StartSteps, Joining

\* Every step of the system keeps GuardInv.
LEMMA GuardInvStep == TypeInv /\ GuardInv /\ [Next]_vars => GuardInv'
<1>. SUFFICES ASSUME TypeInv, GuardInv, [Next]_vars PROVE GuardInv'
  OBVIOUS
<1>1. CASE UNCHANGED vars
  BY <1>1 DEF GuardInv, GuardOK, guildOf, vars
<1>2. CASE Next
  BY <1>2, ArriveGuard, StartStepGuard, StopStepGuard, TeardownStepGuard DEF Next
<1>. QED
  BY <1>1, <1>2

\* However commands overlap and whatever fails, two starts never work on the
\* same guild and commitSession never meets a session: TLC's StartsNeverCollide
\* for every number of guilds, commands and speakers.
THEOREM StartGuardIsExclusive == Spec => []StartsNeverCollide
<1>1. Init => GuardInv
  BY DEF Init, GuardInv, GuardOK, Reserved, StartSteps, Joining
<1>2. TypeInv /\ GuardInv => StartsNeverCollide
  BY DEF GuardInv, GuardOK, StartsNeverCollide, Joining, Reserved, StartSteps
<1>. QED
  BY <1>1, <1>2, RequestsInv, GuardInvStep, PTL DEF Spec

-----------------------------------------------------------------------------
(* The relay channels *)

\* A guild's session is a raid of that guild that was committed.
SessionOK(g) ==
    session[g] # None => guildOf(session[g]) = g
                         /\ pc[session[g]] \in {"start", "release", "done"}

\* A stop at work on a raid is a stop in that raid's guild.
StopTargetOK(c) ==
    pc[c] \in {"cancel", "detach", "cleanup"} =>
        guildOf(target[c]) = guildOf(c) /\ pc[target[c]] \in {"start", "release", "done"}

\* Only a guest that has started has a teardown goroutine.
TeardownOK(c) ==
    down[c] # "off" => IsGuest(c) /\ pc[c] \in {"release", "done"}

\* A raid attached to a relay session: its channels are open, it is attached
\* under its own guild only, a host to its own session, a guest to the one it
\* joined and not beyond the detaching step of its teardown.
AttachedOK(s, g) ==
    LET x == outs[s][g] IN
    x # None =>
        /\ relay[x] = "open"
        /\ guildOf(x) = g
        /\ pc[x] \in {"release", "done"}
        /\ \/ IsHost(x) /\ s = x
           \/ /\ IsGuest(x)
              /\ s = target[x]
              /\ down[x] \notin {"off", "close", "unlist", "forget", "done"}

RelayInv ==
    /\ \A g \in Guilds : SessionOK(g)
    /\ \A c \in Commands : StopTargetOK(c) /\ TeardownOK(c)
    /\ \A s \in Commands, g \in Guilds : AttachedOK(s, g)

\* The steps of a start before its commit and of a stop that leave the channels
\* alone: no relay state refers to the command itself.
LEMMA RelayFrame ==
  ASSUME TypeInv, RelayInv, NEW c \in Commands, Alone(c),
         UNCHANGED <<relay, outs, down>>,
         \A g \in Guilds : session'[g] \in {session[g], None},
         pc[c] \notin {"start", "release", "done"}, StopTargetOK(c)'
  PROVE  RelayInv'
<1>1. ASSUME NEW g \in Guilds PROVE SessionOK(g)'
  <2>1. CASE session'[g] = None
    BY <2>1 DEF SessionOK
  <2>2. CASE session'[g] # None
    <3>1. session'[g] = session[g] /\ session[g] \in Commands \ {c} /\ SessionOK(g)
      BY <2>2 DEF TypeInv, TypeOK, OrNone, RelayInv, SessionOK
    <3>. QED
      BY <3>1 DEF Alone, SessionOK, guildOf
  <2>. QED
    BY <2>1, <2>2
<1>2. ASSUME NEW d \in Commands PROVE StopTargetOK(d)' /\ TeardownOK(d)'
  <2>1. CASE d = c
    BY <2>1 DEF StopTargetOK, TeardownOK, RelayInv
  <2>2. CASE d # c
    <3>1. pc'[d] = pc[d] /\ target'[d] = target[d] /\ req' = req
      BY <2>2 DEF Alone
    <3>2. TeardownOK(d)'
      BY <3>1 DEF TeardownOK, RelayInv, IsGuest
    <3>3. pc[d] \in {"cancel", "detach", "cleanup"} =>
              target[d] \in Commands \ {c} /\ StopTargetOK(d)
      BY DEF TypeInv, RequestOK, StopTargetOK, RelayInv
    <3>. QED
      BY <3>1, <3>2, <3>3 DEF StopTargetOK, Alone, guildOf
  <2>. QED
    BY <2>1, <2>2
<1>3. \A s \in Commands, g \in Guilds : AttachedOK(s, g)'
  BY DEF TypeInv, TypeOK, RegistryTypeOK, OrNone, RequestOK, RelayInv,
     SessionOK, StopTargetOK, TeardownOK, AttachedOK, Alone, guildOf, IsHost,
     IsGuest
<1>. QED
  BY <1>1, <1>2, <1>3 DEF RelayInv

\* The steps of a guest's teardown that leave the channels alone.
LEMMA RelayTeardownFrame ==
  ASSUME TypeInv, RelayInv, NEW c \in Commands,
         UNCHANGED <<req, pc, target, relay, outs>>,
         \A g \in Guilds : session'[g] \in {session[g], None},
         NEW step \in DownSteps, down' = [down EXCEPT ![c] = step], down[c] # "off",
         step \in {"off", "close", "unlist", "forget", "done"} =>
             down[c] \in {"close", "unlist", "forget", "done"}
  PROVE  RelayInv'
<1>1. \A g \in Guilds : SessionOK(g)'
  BY DEF TypeInv, TypeOK, RegistryTypeOK, OrNone, RequestOK, RelayInv,
     SessionOK, StopTargetOK, TeardownOK, AttachedOK, Alone, guildOf, IsHost,
     IsGuest
<1>2. \A d \in Commands : StopTargetOK(d)' /\ TeardownOK(d)'
  BY DEF TypeInv, TypeOK, RegistryTypeOK, OrNone, RequestOK, RelayInv,
     SessionOK, StopTargetOK, TeardownOK, AttachedOK, Alone, guildOf, IsHost,
     IsGuest
<1>3. \A s \in Commands, g \in Guilds : AttachedOK(s, g)'
  BY DEF TypeInv, TypeOK, RegistryTypeOK, OrNone, RequestOK, RelayInv,
     SessionOK, StopTargetOK, TeardownOK, AttachedOK, Alone, guildOf, IsHost,
     IsGuest
<1>. QED
  BY <1>1, <1>2, <1>3 DEF RelayInv

\* A start registers its inputs while they are open, and never after close.
LEMMA StartStepRelay ==
  ASSUME TypeInv, RelayInv, NEW c \in Commands, StartStep(c)
  PROVE  RelayInv'
<1>. Alone(c)
  BY StartStepRequest
<1>1. CASE StartBegin(c)
  BY <1>1, RelayFrame DEF TypeInv, TypeOK, StopTargetOK, StartBegin, Goto,
     registryVars
<1>2. CASE Enlist(c)
  BY <1>2, RelayFrame DEF TypeInv, TypeOK, StopTargetOK, Enlist, Goto,
     serviceVars, registryVars, Join
<1>3. CASE Snapshot(c)
  BY <1>3, RelayFrame DEF TypeInv, TypeOK, StopTargetOK, Snapshot, Goto, Bail,
     registryVars
<1>4. CASE \E b \in Speakers : AttachSpeaker(c, b)
  BY <1>4, RelayFrame DEF TypeInv, TypeOK, StopTargetOK, AttachSpeaker,
     serviceVars, registryVars
<1>5. CASE SpeakersJoined(c)
  BY <1>5, RelayFrame DEF TypeInv, TypeOK, StopTargetOK, SpeakersJoined, Goto,
     Bail, serviceVars, registryVars
<1>6. CASE AttachOwner(c)
  BY <1>6, RelayFrame DEF TypeInv, TypeOK, StopTargetOK, AttachOwner, Goto,
     serviceVars, registryVars
<1>7. CASE HostCreate(c)
  BY <1>7, RelayFrame DEF TypeInv, TypeOK, StopTargetOK, HostCreate, Goto,
     serviceVars, Create
<1>8. CASE Build(c)
  BY <1>8, RelayFrame DEF TypeInv, TypeOK, StopTargetOK, Build, Goto,
     serviceVars, registryVars
<1>9. CASE CtxCheck(c)
  BY <1>9, RelayFrame DEF TypeInv, TypeOK, StopTargetOK, CtxCheck, Goto,
     serviceVars, registryVars
<1>10. CASE Commit(c)
  <2>. /\ UNCHANGED <<req, target, relay, outs, down>>
       /\ pc' = [pc EXCEPT ![c] = pc'[c]] /\ pc[c] = "commit"
       /\ pc'[c] \in {"start", "undo"}
       /\ session' = session \/ session' = [session EXCEPT ![guildOf(c)] = c]
       /\ session' # session => pc'[c] = "start"
    BY <1>10 DEF TypeInv, TypeOK, Commit, Goto, localVars, registryVars
  <2>1. ASSUME NEW g \in Guilds PROVE SessionOK(g)'
    <3>1. CASE session'[g] = session[g] /\ session[g] # c
      BY <3>1 DEF TypeInv, TypeOK, OrNone, RelayInv, SessionOK, guildOf
    <3>2. CASE session'[g] = c
      <4>1. session' # session
        BY <3>2, RegistryConstants DEF RelayInv, SessionOK
      <4>. QED
        BY <3>2, <4>1 DEF TypeInv, TypeOK, RelayInv, SessionOK, guildOf
    <3>. QED
      BY <3>1, <3>2 DEF TypeInv, TypeOK
  <2>2. ASSUME NEW d \in Commands PROVE StopTargetOK(d)' /\ TeardownOK(d)'
    BY DEF TypeInv, TypeOK, RequestOK, RelayInv, StopTargetOK, TeardownOK, guildOf, IsGuest
  <2>3. \A s \in Commands, g \in Guilds : AttachedOK(s, g)'
    BY SMTT(30) DEF TypeInv, TypeOK, RegistryTypeOK, OrNone, RelayInv, AttachedOK, guildOf,
       IsHost, IsGuest
  <2>. QED
    BY <2>1, <2>2, <2>3 DEF RelayInv
<1>11. CASE StartPipeline(c)
  <2>. /\ UNCHANGED <<req, target, session>>
       /\ pc' = [pc EXCEPT ![c] = "release"] /\ pc[c] = "start"
    BY <1>11 DEF StartPipeline, Goto, localVars, serviceVars
  <2>. down[c] = "off" /\ IsStart(c) /\ guildOf(c) \in Guilds
    BY DEF TypeInv, RequestOK, StartSteps, RelayInv, TeardownOK
  <2>. relay' = relay \/ relay' = [relay EXCEPT ![c] = "open"]
    BY <1>11 DEF StartPipeline, RegisterHostInputs
  <2>. down' = down \/ (IsGuest(c) /\ down' = [down EXCEPT ![c] = "wait"])
    BY <1>11 DEF StartPipeline
  <2>. \/ outs' = outs
       \/ /\ IsHost(c) /\ outs' = [outs EXCEPT ![c][guildOf(c)] = c]
          /\ relay' = [relay EXCEPT ![c] = "open"]
       \/ /\ IsGuest(c) /\ outs' = [outs EXCEPT ![target[c]][guildOf(c)] = c]
          /\ relay' = [relay EXCEPT ![c] = "open"]
          /\ down' = [down EXCEPT ![c] = "wait"]
    BY <1>11 DEF StartPipeline, RegisterHostInputs, AddGuild, registryVars
  <2>. \A s \in Commands, g \in Guilds : outs'[s][g] # outs[s][g] =>
          /\ g = guildOf(c) /\ outs'[s][g] = c /\ relay' = [relay EXCEPT ![c] = "open"]
          /\ \/ IsHost(c) /\ s = c
             \/ IsGuest(c) /\ s = target[c] /\ down' = [down EXCEPT ![c] = "wait"]
    <3>1. TAKE s \in Commands, g \in Guilds
    <3>2. RegistryTypeOK
      BY DEF TypeInv, TypeOK
    <3>3. ASSUME outs' = [outs EXCEPT ![c][guildOf(c)] = c]
          PROVE  outs'[s][g] = IF s = c /\ g = guildOf(c) THEN c ELSE outs[s][g]
      <4>1. CASE s = c
        BY <3>2, <3>3, <4>1 DEF RegistryTypeOK
      <4>2. CASE s # c
        BY <3>2, <3>3, <4>2 DEF RegistryTypeOK
      <4>. QED
        BY <4>1, <4>2
    <3>4. ASSUME outs' = [outs EXCEPT ![target[c]][guildOf(c)] = c]
          PROVE  outs'[s][g] = IF s = target[c] /\ g = guildOf(c) THEN c ELSE outs[s][g]
      <4>1. CASE s = target[c]
        BY <3>2, <3>4, <4>1 DEF RegistryTypeOK
      <4>2. CASE s # target[c]
        BY <3>2, <3>4, <4>2 DEF RegistryTypeOK
      <4>. QED
        BY <4>1, <4>2
    <3>. QED
      BY <3>3, <3>4
  <2>1. \A g \in Guilds : SessionOK(g)'
    BY DEF TypeInv, TypeOK, OrNone, RelayInv, SessionOK, guildOf
  <2>2. \A d \in Commands : StopTargetOK(d)' /\ TeardownOK(d)'
    BY DEF TypeInv, TypeOK, RequestOK, RelayInv, StopTargetOK, TeardownOK, guildOf, IsGuest
  <2>3. ASSUME NEW s \in Commands, NEW g \in Guilds, outs'[s][g] # c
        PROVE  AttachedOK(s, g)'
    <3>1. outs'[s][g] = outs[s][g]
      BY <2>3
    <3>. QED
      BY <2>3, <3>1 DEF TypeInv, TypeOK, RegistryTypeOK, OrNone, RelayInv, AttachedOK,
         guildOf, IsHost, IsGuest
  <2>4. ASSUME NEW s \in Commands, NEW g \in Guilds, outs'[s][g] = c
        PROVE  AttachedOK(s, g)'
    <3>1. outs[s][g] # c
      BY RegistryConstants DEF RelayInv, AttachedOK
    <3>2. g = guildOf(c) /\ relay' = [relay EXCEPT ![c] = "open"]
      BY <2>4, <3>1
    <3>3. \/ IsHost(c) /\ s = c
          \/ IsGuest(c) /\ s = target[c] /\ down' = [down EXCEPT ![c] = "wait"]
      BY <2>4, <3>1
    <3>. QED
      BY <2>4, <3>2, <3>3 DEF TypeInv, TypeOK, AttachedOK, guildOf, IsHost, IsGuest
  <2>. QED
    BY <2>1, <2>2, <2>3, <2>4 DEF RelayInv
<1>12. CASE Release(c)
  <2>. /\ UNCHANGED <<req, target, session, relay, outs, down>>
       /\ pc' = [pc EXCEPT ![c] = "done"] /\ pc[c] \in {"release", "abort"}
    BY <1>12 DEF Release, Goto, localVars, registryVars
  <2>1. \A g \in Guilds : SessionOK(g)'
    BY DEF TypeInv, TypeOK, OrNone, RelayInv, SessionOK, guildOf
  <2>2. \A d \in Commands : StopTargetOK(d)' /\ TeardownOK(d)'
    BY DEF TypeInv, TypeOK, RequestOK, RelayInv, StopTargetOK, TeardownOK, guildOf, IsGuest
  <2>3. \A s \in Commands, g \in Guilds : AttachedOK(s, g)'
    BY DEF TypeInv, TypeOK, RegistryTypeOK, OrNone, RelayInv, AttachedOK, guildOf,
       IsHost, IsGuest
  <2>. QED
    BY <2>1, <2>2, <2>3 DEF RelayInv
<1>13. CASE Undo(c)
  BY <1>13, RelayFrame DEF TypeInv, TypeOK, StopTargetOK, Undo, Goto,
     serviceVars, registryVars
<1>14. CASE UndoWaited(c)
  BY <1>14, RelayFrame DEF TypeInv, TypeOK, StopTargetOK, UndoWaited, Goto,
     serviceVars, registryVars
<1>15. CASE UndoOwner(c)
  BY <1>15, RelayFrame DEF TypeInv, TypeOK, StopTargetOK, UndoOwner, Goto,
     serviceVars, registryVars
<1>16. CASE UndoRegistry(c)
  BY <1>16, RelayFrame DEF TypeInv, TypeOK, StopTargetOK, UndoRegistry, Goto,
     serviceVars, registryVars, RemoveGuest, RemoveHost
<1>. QED
  BY <1>1, <1>2, <1>3, <1>4, <1>5, <1>6, <1>7, <1>8, <1>9, <1>10, <1>11,
     <1>12, <1>13, <1>14, <1>15, <1>16 DEF StartStep

\* A stop detaches the host's inputs before it closes them.
LEMMA StopStepRelay ==
  ASSUME TypeInv, RelayInv, NEW c \in Commands, StopStep(c)
  PROVE  RelayInv'
<1>. Alone(c)
  BY StopStepRequest
<1>1. CASE StopLook(c)
  <2>1. pc[c] = "look" /\ guildOf(c) \in Guilds /\ UNCHANGED <<relay, outs, down>>
    BY <1>1 DEF StopLook, registryVars, TypeInv, RequestOK
  <2>2. \A g \in Guilds : session'[g] \in {session[g], None}
    BY <1>1 DEF StopLook, TypeInv, TypeOK
  <2>3. pc'[c] \in {"fallback", "cancelStart"}
        \/ (pc'[c] = "cancel" /\ target'[c] = session[guildOf(c)] /\ target'[c] # None)
    BY <1>1 DEF StopLook, Goto, TypeInv, TypeOK, TakesSession
  <2>4. StopTargetOK(c)'
    <3>1. CASE pc'[c] # "cancel"
      BY <2>3, <3>1 DEF StopTargetOK
    <3>2. CASE pc'[c] = "cancel"
      <4>1. target'[c] \in Commands \ {c} /\ guildOf(target'[c]) = guildOf(c)
            /\ pc[target'[c]] \in {"start", "release", "done"}
        BY <2>1, <2>3, <3>2 DEF TypeInv, TypeOK, OrNone, RelayInv, SessionOK
      <4>. QED
        BY <3>2, <4>1 DEF StopTargetOK, Alone, guildOf
    <3>. QED
      BY <3>1, <3>2
  <2>. QED
    BY <2>1, <2>2, <2>4, RelayFrame
<1>2. CASE CancelStart(c)
  BY <1>2, RelayFrame DEF TypeInv, TypeOK, StopTargetOK, CancelStart, Goto,
     StopReturns, serviceVars, registryVars
<1>3. CASE IdleFallback(c)
  BY <1>3, RelayFrame DEF TypeInv, TypeOK, StopTargetOK, IdleFallback, Goto,
     serviceVars, registryVars
<1>4. CASE StopCancel(c)
  <2>1. /\ pc[c] = "cancel" /\ target'[c] = target[c]
        /\ UNCHANGED <<session, relay, outs, down>>
    BY <1>4 DEF StopCancel, localVars, serviceVars, registryVars
  <2>2. StopTargetOK(c)'
    <3>1. target[c] \in Commands \ {c} /\ guildOf(target[c]) = guildOf(c)
          /\ pc[target[c]] \in {"start", "release", "done"}
      BY <2>1 DEF TypeInv, RequestOK, RelayInv, StopTargetOK
    <3>. QED
      BY <2>1, <3>1 DEF StopTargetOK, Alone, guildOf
  <2>. QED
    BY <2>1, <2>2, RelayFrame DEF TypeInv, TypeOK
<1>5. CASE StopDetach(c)
  <2>. DEFINE x == target[c]
  <2>. /\ UNCHANGED <<req, target, session, down>>
       /\ pc' = [pc EXCEPT ![c] = "cleanup"] /\ pc[c] = "detach"
    BY <1>5 DEF StopDetach, Goto, localVars, serviceVars
  <2>. x \in Commands \ {c} /\ guildOf(x) = guildOf(c)
       /\ pc[x] \in {"start", "release", "done"} /\ guildOf(c) \in Guilds
    BY DEF TypeInv, RequestOK, RelayInv, StopTargetOK
  <2>1. \A g \in Guilds : SessionOK(g)'
    BY DEF TypeInv, TypeOK, OrNone, RelayInv, SessionOK, guildOf
  <2>2. \A d \in Commands : StopTargetOK(d)' /\ TeardownOK(d)'
    BY DEF TypeInv, TypeOK, RequestOK, RelayInv, StopTargetOK, TeardownOK, guildOf, IsGuest
  <2>3. ASSUME NEW s \in Commands, NEW g \in Guilds PROVE AttachedOK(s, g)'
    <3>1. outs'[s][g] \in {outs[s][g], None}
      BY <1>5 DEF TypeInv, TypeOK, RegistryTypeOK, StopDetach, RemoveGuild, registryVars
    <3>2. \A d \in Commands \ {x} : relay'[d] = relay[d]
      BY <1>5 DEF TypeInv, TypeOK, StopDetach
    <3>3. CASE outs'[s][g] \notin {None, x}
      BY <3>1, <3>2, <3>3 DEF TypeInv, TypeOK, RegistryTypeOK, OrNone, RelayInv,
         AttachedOK, guildOf, IsHost, IsGuest
    <3>4. CASE outs'[s][g] = x
      <4>1. outs[s][g] = x /\ relay[x] = "open" /\ g = guildOf(x)
            /\ (IsHost(x) => s = x) /\ AttachedOK(s, g)
        BY <3>1, <3>4, RegistryConstants DEF RelayInv, AttachedOK, IsHost, IsGuest
      <4>2. ~IsHost(x)
        <5>1. SUFFICES ASSUME IsHost(x) PROVE FALSE
          OBVIOUS
        <5>2. outs' = [outs EXCEPT ![x][guildOf(c)] = None]
          BY <1>5, <4>1, <5>1 DEF StopDetach, RemoveGuild, IsHost, IsGuest
        <5>3. outs'[x][guildOf(c)] = None
          BY <5>2 DEF TypeInv, TypeOK, RegistryTypeOK
        <5>. QED
          BY <3>4, <4>1, <5>1, <5>3, RegistryConstants
      <4>3. relay' = relay
        BY <1>5, <4>2 DEF StopDetach
      <4>. QED
        BY <3>4, <4>1, <4>3 DEF TypeInv, TypeOK, AttachedOK, guildOf, IsHost, IsGuest
    <3>. QED
      BY <3>3, <3>4 DEF AttachedOK
  <2>. QED
    BY <2>1, <2>2, <2>3 DEF RelayInv
<1>6. CASE StopCleanup(c)
  <2>. /\ UNCHANGED <<req, target, session, outs, down>>
       /\ pc' = [pc EXCEPT ![c] = "cleanupWait"] /\ pc[c] = "cleanup"
    BY <1>6 DEF StopCleanup, Goto, localVars, serviceVars, registryVars
  <2>. \A d \in Commands : relay[d] = "open" => relay'[d] = "open"
    BY <1>6 DEF TypeInv, TypeOK, StopCleanup
  <2>1. \A g \in Guilds : SessionOK(g)'
    BY DEF TypeInv, TypeOK, OrNone, RelayInv, SessionOK, guildOf
  <2>2. \A d \in Commands : StopTargetOK(d)' /\ TeardownOK(d)'
    BY DEF TypeInv, TypeOK, RequestOK, RelayInv, StopTargetOK, TeardownOK, guildOf, IsGuest
  <2>3. \A s \in Commands, g \in Guilds : AttachedOK(s, g)'
    BY DEF TypeInv, TypeOK, RegistryTypeOK, OrNone, RelayInv, AttachedOK, guildOf,
       IsHost, IsGuest
  <2>. QED
    BY <2>1, <2>2, <2>3 DEF RelayInv
<1>7. CASE StopWaited(c)
  BY <1>7, RelayFrame DEF TypeInv, TypeOK, StopTargetOK, StopWaited, Goto,
     serviceVars, registryVars
<1>8. CASE StopLeaveOwner(c)
  BY <1>8, RelayFrame DEF TypeInv, TypeOK, StopTargetOK, StopLeaveOwner, Goto,
     serviceVars, registryVars
<1>9. CASE StopRemoveHost(c)
  BY <1>9, RelayFrame DEF TypeInv, TypeOK, StopTargetOK, StopRemoveHost, Goto,
     serviceVars, registryVars, RemoveHost
<1>10. CASE StopClear(c)
  BY <1>10, RelayFrame DEF TypeInv, TypeOK, StopTargetOK, StopClear, Goto,
     StopReturns, serviceVars, registryVars
<1>11. CASE ForgetDrop(c)
  BY <1>11, RelayFrame DEF TypeInv, TypeOK, StopTargetOK, ForgetDrop, Goto,
     registryVars
<1>. QED
  BY <1>1, <1>2, <1>3, <1>4, <1>5, <1>6, <1>7, <1>8, <1>9, <1>10, <1>11 DEF
     StopStep

\* A guest's teardown detaches its inputs before it closes them.
LEMMA TeardownStepRelay ==
  ASSUME TypeInv, RelayInv, NEW c \in Commands, TeardownStep(c)
  PROVE  RelayInv'
<1>. UNCHANGED <<req, pc, target>>
  BY DEF TeardownStep, TeardownWake, TeardownClear, TeardownSpeakers, TeardownWaited,
     TeardownOwner, TeardownDetach, TeardownClose, TeardownUnlist, TeardownForget, localVars
<1>1. CASE TeardownWake(c)
  BY <1>1, RelayTeardownFrame DEF TypeInv, TypeOK, TeardownWake, DownTo,
     DownSteps, serviceVars, registryVars
<1>2. CASE TeardownClear(c)
  BY <1>2, RelayTeardownFrame DEF TypeInv, TypeOK, TeardownClear, DownTo,
     DownSteps, registryVars
<1>3. CASE TeardownSpeakers(c)
  BY <1>3, RelayTeardownFrame DEF TypeInv, TypeOK, TeardownSpeakers, DownTo,
     DownSteps, serviceVars, registryVars
<1>4. CASE TeardownWaited(c)
  BY <1>4, RelayTeardownFrame DEF TypeInv, TypeOK, TeardownWaited, DownTo,
     DownSteps, serviceVars, registryVars
<1>5. CASE TeardownOwner(c)
  BY <1>5, RelayTeardownFrame DEF TypeInv, TypeOK, TeardownOwner, DownTo,
     DownSteps, serviceVars, registryVars
<1>6. CASE TeardownDetach(c)
  <2>. /\ down[c] = "detach" /\ down' = [down EXCEPT ![c] = "close"]
       /\ UNCHANGED <<session, relay>>
       /\ outs' = [outs EXCEPT ![target[c]][guildOf(c)] = None]
    BY <1>6 DEF TeardownDetach, DownTo, RemoveGuild, serviceVars
  <2>1. \A g \in Guilds : SessionOK(g)'
    BY DEF RelayInv, SessionOK, guildOf
  <2>2. \A d \in Commands : StopTargetOK(d)' /\ TeardownOK(d)'
    BY DEF TypeInv, TypeOK, RelayInv, StopTargetOK, TeardownOK, guildOf, IsGuest
  <2>3. ASSUME NEW s \in Commands, NEW g \in Guilds PROVE AttachedOK(s, g)'
    <3>1. outs'[s][g] = IF s = target[c] /\ g = guildOf(c) THEN None ELSE outs[s][g]
      <4>1. CASE s = target[c]
        BY <4>1 DEF TypeInv, TypeOK, RegistryTypeOK
      <4>2. CASE s # target[c]
        BY <4>2 DEF TypeInv, TypeOK, RegistryTypeOK
      <4>. QED
        BY <4>1, <4>2
    <3>2. IsGuest(c)
      BY DEF RelayInv, TeardownOK
    <3>3. outs'[s][g] # c
      BY <3>1, <3>2, RegistryConstants DEF RelayInv, AttachedOK, IsHost, IsGuest
    <3>. QED
      BY <3>1, <3>3 DEF TypeInv, TypeOK, RegistryTypeOK, OrNone, RelayInv, AttachedOK,
         guildOf, IsHost, IsGuest
  <2>. QED
    BY <2>1, <2>2, <2>3 DEF RelayInv
<1>7. CASE TeardownClose(c)
  <2>. /\ down[c] = "close" /\ down' = [down EXCEPT ![c] = "unlist"]
       /\ UNCHANGED <<session, outs>> /\ relay' = [relay EXCEPT ![c] = "closed"]
    BY <1>7 DEF TeardownClose, DownTo, serviceVars, registryVars
  <2>1. \A g \in Guilds : SessionOK(g)'
    BY DEF RelayInv, SessionOK, guildOf
  <2>2. \A d \in Commands : StopTargetOK(d)' /\ TeardownOK(d)'
    BY DEF TypeInv, TypeOK, RelayInv, StopTargetOK, TeardownOK, guildOf, IsGuest
  <2>3. ASSUME NEW s \in Commands, NEW g \in Guilds PROVE AttachedOK(s, g)'
    <3>1. outs[s][g] # c
      BY RegistryConstants DEF RelayInv, AttachedOK, TeardownOK, IsHost, IsGuest
    <3>. QED
      BY <3>1 DEF TypeInv, TypeOK, RegistryTypeOK, OrNone, RelayInv, AttachedOK,
         guildOf, IsHost, IsGuest
  <2>. QED
    BY <2>1, <2>2, <2>3 DEF RelayInv
<1>8. CASE TeardownUnlist(c)
  BY <1>8, RelayTeardownFrame DEF TypeInv, TypeOK, TeardownUnlist, DownTo,
     DownSteps, serviceVars, RemoveGuest
<1>9. CASE TeardownForget(c)
  BY <1>9, RelayTeardownFrame DEF TypeInv, TypeOK, TeardownForget, DownTo,
     DownSteps, serviceVars, registryVars
<1>. QED
  BY <1>1, <1>2, <1>3, <1>4, <1>5, <1>6, <1>7, <1>8, <1>9 DEF TeardownStep

\* A command that arrives owns no channel yet.
LEMMA ArriveRelay ==
  ASSUME TypeInv, RelayInv, NEW c \in Commands, Arrive(c)
  PROVE  RelayInv'
<1>. PICK kind, g0, arg : Issue(c, kind, g0, arg)
  BY DEF Arrive, IssueStart, IssueJoin, IssueStop, IssueForget, IssueIdleStop
<1>. pc[c] = "idle" /\ pc'[c] \in {"begin", "look"}
  BY DEF TypeInv, TypeOK, Issue, Goto
<1>. \A d \in Commands \ {c} : pc'[d] = pc[d] /\ req'[d] = req[d]
  BY DEF TypeInv, TypeOK, Issue, Goto
<1>. UNCHANGED <<target, session, relay, outs, down>>
  BY DEF Issue, registryVars
<1>1. \A g \in Guilds : SessionOK(g)'
  BY DEF TypeInv, TypeOK, OrNone, RelayInv, SessionOK, guildOf
<1>2. \A d \in Commands : StopTargetOK(d)' /\ TeardownOK(d)'
  BY DEF TypeInv, RequestOK, RelayInv, StopTargetOK, TeardownOK, guildOf, IsGuest
<1>3. ASSUME NEW s \in Commands, NEW g \in Guilds PROVE AttachedOK(s, g)'
  <2>1. CASE outs[s][g] = None
    BY <2>1 DEF AttachedOK
  <2>2. CASE outs[s][g] # None
    <3>1. AttachedOK(s, g) /\ outs[s][g] \in Commands
      BY <2>2 DEF RelayInv, TypeInv, TypeOK, RegistryTypeOK, OrNone
    <3>2. outs[s][g] # c
      BY <2>2, <3>1 DEF AttachedOK
    <3>. QED
      BY <3>1, <3>2 DEF AttachedOK, guildOf, IsHost, IsGuest
  <2>. QED
    BY <2>1, <2>2
<1>. QED
  BY <1>1, <1>2, <1>3 DEF RelayInv

\* Every step of the system keeps RelayInv.
LEMMA RelayInvStep == TypeInv /\ RelayInv /\ [Next]_vars => RelayInv'
<1>. SUFFICES ASSUME TypeInv, RelayInv, [Next]_vars PROVE RelayInv'
  OBVIOUS
<1>1. ASSUME UNCHANGED <<req, pc, target, session, relay, outs, down>> PROVE RelayInv'
  BY <1>1 DEF RelayInv, SessionOK, StopTargetOK, TeardownOK, AttachedOK, guildOf,
     IsHost, IsGuest
<1>2. CASE UNCHANGED vars
  BY <1>1, <1>2 DEF vars
<1>3. CASE \E c \in Commands : SpeakerStep(c)
  BY <1>1, <1>3 DEF SpeakerStep, SpeakerLeave, localVars, serviceVars, registryVars
<1>. QED
  BY <1>2, <1>3, ArriveRelay, StartStepRelay, StopStepRelay, TeardownStepRelay DEF Next

\* However a stop, a late start of a pipeline, a guest's teardown and the other
\* guilds' commands interleave, no attached channel is ever a closed one, so no
\* broadcast can send on a closed channel.
THEOREM BroadcastsAreSafe == Spec => []NoSendOnClosed
<1>1. Init => RelayInv
  BY DEF Init, RegistryInit, RelayInv, SessionOK, StopTargetOK, TeardownOK, AttachedOK
<1>2. TypeInv /\ RelayInv => NoSendOnClosed
  BY DEF RelayInv, AttachedOK, NoSendOnClosed
<1>. QED
  BY <1>1, <1>2, RequestsInv, RelayInvStep, PTL DEF Spec

-----------------------------------------------------------------------------
(* The relay inputs a raid leaves behind *)

\* Where a raid is not yet committed and nothing of it has been undone.
Early == {"idle", "begin", "enlist", "snapshot", "resnapshot", "speakers", "owner",
          "create", "build", "check", "commit", "undo"}

\* Where the goroutine of a guest has still to close the guest's inputs.
BeforeClose == {"wait", "clear", "speakers", "speakersWait", "owner", "detach", "close"}

\* Who is to close the inputs that are open: a stop for a host, its own
\* teardown for a guest.
OwnerOfOpenOK(x) ==
    /\ pc[x] \in Early => x \notin cleaned /\ relay[x] = "none"
    /\ relay[x] = "open" => IsHost(x) \/ down[x] \in BeforeClose

\* A raid that is taken down keeps no input it could have open, and registers
\* none later; a guest that has not noticed is about to.
CleanedOK(x) ==
    x \in cleaned =>
        /\ IsHost(x) => relay[x] # "open"
        /\ IsHost(x) /\ pc[x] = "start" => relay[x] # "none"
        /\ pc[x] = "start" \/ down[x] = "wait" => x \in cancelled

\* A stop has cancelled the raid before it detaches it, and detaches a host
\* before it cleans up after it.
StopOrderOK(c) ==
    /\ pc[c] \in {"detach", "cleanup"} => target[c] \in cancelled
    /\ pc[c] = "cleanup" /\ IsHost(target[c]) => relay[target[c]] \in {"closing", "closed"}

LeakInv == \A c \in Commands : OwnerOfOpenOK(c) /\ CleanedOK(c) /\ StopOrderOK(c)

\* The steps that leave inputs, teardowns and cleanups alone and send their
\* command neither back to the beginning nor to a stop it is not ready for.
LEMMA LeakFrame ==
  ASSUME TypeInv, RelayInv, LeakInv, NEW c \in Commands, Alone(c),
         UNCHANGED <<relay, cleaned>>, cancelled \subseteq cancelled',
         \A d \in Commands : down'[d] = "wait" => d \in cancelled' \/ down[d] = "wait",
         \A d \in Commands : down[d] \in BeforeClose => down'[d] \in BeforeClose,
         pc'[c] \in Early \cup {"start"} => pc[c] \in Early \cup {pc'[c]},
         StopOrderOK(c)'
  PROVE  LeakInv'
<1>1. ASSUME NEW x \in Commands PROVE OwnerOfOpenOK(x)' /\ CleanedOK(x)'
  <2>1. pc'[x] \in Early => pc[x] \in Early
    BY DEF Alone, Early
  <2>2. pc'[x] = "start" => pc[x] \in Early \cup {"start"}
    BY DEF Alone
  <2>. QED
    BY <2>1, <2>2 DEF LeakInv, OwnerOfOpenOK, CleanedOK, Alone, IsHost
<1>2. ASSUME NEW d \in Commands PROVE StopOrderOK(d)'
  BY DEF LeakInv, StopOrderOK, Alone, IsHost
<1>. QED
  BY <1>1, <1>2 DEF LeakInv

\* A start opens its inputs only while nothing has closed them, and undoes only
\* what has none.
LEMMA StartStepLeak ==
  ASSUME TypeInv, RelayInv, LeakInv, NEW c \in Commands, StartStep(c)
  PROVE  LeakInv'
<1>. Alone(c)
  BY StartStepRequest
<1>1. CASE StartPipeline(c)
  <2>. /\ pc[c] = "start" /\ pc' = [pc EXCEPT ![c] = "release"]
       /\ UNCHANGED <<cleaned, cancelled, req>>
    BY <1>1 DEF StartPipeline, Goto, onceVars, localVars
  <2>1. IsHost(c) => down' = down /\ relay' \in {relay, [relay EXCEPT ![c] = "open"]}
                     /\ (relay' # relay => relay[c] = "none")
    BY <1>1 DEF StartPipeline, RegisterHostInputs, IsHost, IsGuest
  <2>2. ~IsHost(c) => /\ relay' = [relay EXCEPT ![c] = "open"]
                      /\ down' = [down EXCEPT ![c] = "wait"]
    BY <1>1 DEF StartPipeline
  <2>3. ASSUME NEW x \in Commands PROVE OwnerOfOpenOK(x)' /\ CleanedOK(x)'
    <3>1. CASE x = c
      BY <2>1, <2>2, <3>1 DEF LeakInv, OwnerOfOpenOK, CleanedOK, TypeInv, TypeOK, Early,
         BeforeClose, IsHost, RelayInv, TeardownOK
    <3>2. CASE x # c
      <4>1. relay'[x] = relay[x] /\ down'[x] = down[x] /\ pc'[x] = pc[x]
        BY <2>1, <2>2, <3>2 DEF TypeInv, TypeOK
      <4>. QED
        BY <4>1 DEF LeakInv, OwnerOfOpenOK, CleanedOK, IsHost
    <3>. QED
      BY <3>1, <3>2
  <2>4. ASSUME NEW d \in Commands PROVE StopOrderOK(d)'
    <3>1. CASE pc'[d] \notin {"detach", "cleanup"}
      BY <3>1 DEF StopOrderOK
    <3>2. CASE pc'[d] \in {"detach", "cleanup"}
      <4>1. d # c /\ pc'[d] = pc[d] /\ target'[d] = target[d] /\ target[d] \in Commands
        BY <3>2 DEF TypeInv, TypeOK, RequestOK, Alone
      <4>2. IsHost(target[d]) /\ pc[d] = "cleanup" => relay'[target[d]] = relay[target[d]]
        <5>1. CASE target[d] # c
          BY <2>1, <2>2, <4>1, <5>1 DEF TypeInv, TypeOK
        <5>2. CASE target[d] = c
          BY <2>1, <4>1, <5>2 DEF LeakInv, StopOrderOK
        <5>. QED
          BY <5>1, <5>2
      <4>. QED
        BY <4>1, <4>2 DEF LeakInv, StopOrderOK, IsHost
    <3>. QED
      BY <3>1, <3>2
  <2>. QED
    BY <2>3, <2>4 DEF LeakInv
<1>2. CASE Undo(c)
  <2>. /\ pc[c] = "undo" /\ pc' = [pc EXCEPT ![c] = "undoWait"]
       /\ cleaned' = cleaned \cup {c} /\ UNCHANGED <<relay, down, cancelled, req, target>>
    BY <1>2 DEF Undo, SpeakerCleanup, onceVars, Goto, localVars
  <2>1. down[c] = "off" /\ relay[c] = "none"
    BY DEF LeakInv, OwnerOfOpenOK, Early, RelayInv, TeardownOK
  <2>2. ASSUME NEW x \in Commands PROVE OwnerOfOpenOK(x)' /\ CleanedOK(x)'
    BY <2>1 DEF LeakInv, OwnerOfOpenOK, CleanedOK, TypeInv, TypeOK, Early, IsHost
  <2>3. ASSUME NEW d \in Commands PROVE StopOrderOK(d)'
    BY DEF LeakInv, StopOrderOK, TypeInv, TypeOK, IsHost
  <2>. QED
    BY <2>2, <2>3 DEF LeakInv
<1>3. CASE StartStep(c) /\ ~StartPipeline(c) /\ ~Undo(c)
  <2>1. UNCHANGED <<relay, cleaned, down>> /\ cancelled \subseteq cancelled'
    BY <1>3 DEF StartStep, StartBegin, Enlist, Snapshot, AttachSpeaker, SpeakersJoined, AttachOwner,
       HostCreate, Build, CtxCheck, Commit, Release, UndoWaited, UndoOwner, UndoRegistry,
       onceVars, Cancel
  <2>2. pc[c] \in {"begin", "enlist", "snapshot", "resnapshot", "speakers", "owner",
                   "create", "build", "check", "commit"}
        \/ pc'[c] \in {"undoWait", "undoOwner", "undoRegistry", "abort", "done"}
    BY <1>3 DEF StartStep, StartBegin, Enlist, Snapshot, AttachSpeaker, SpeakersJoined, AttachOwner,
       HostCreate, Build, CtxCheck, Commit, Release, UndoWaited, UndoOwner, UndoRegistry,
       Goto, TypeInv, TypeOK
  <2>3. pc'[c] \notin {"detach", "cleanup"}
    BY <1>3 DEF StartStep, StartBegin, Enlist, Snapshot, AttachSpeaker, SpeakersJoined, AttachOwner,
       HostCreate, Build, CtxCheck, Commit, Release, UndoWaited, UndoOwner, UndoRegistry,
       Goto, Bail, TypeInv, TypeOK
  <2>. QED
    BY <2>1, <2>2, <2>3, LeakFrame DEF Early, StopOrderOK
<1>. QED
  BY <1>1, <1>2, <1>3

\* A stop cancels, detaches and closes in this order.
LEMMA StopStepLeak ==
  ASSUME TypeInv, RelayInv, LeakInv, NEW c \in Commands, StopStep(c)
  PROVE  LeakInv'
<1>. Alone(c)
  BY StopStepRequest
<1>1. CASE StopDetach(c)
  <2>. DEFINE x == target[c]
  <2>. /\ UNCHANGED <<req, target, cleaned, down, cancelled>>
       /\ pc' = [pc EXCEPT ![c] = "cleanup"] /\ pc[c] = "detach"
    BY <1>1 DEF StopDetach, Goto, localVars, onceVars
  <2>. x \in Commands \ {c} /\ pc[x] \in {"start", "release", "done"} /\ x \in cancelled
    BY DEF TypeInv, RequestOK, RelayInv, StopTargetOK, LeakInv, StopOrderOK
  <2>1. \/ relay' = relay /\ ~IsHost(x)
        \/ relay' = [relay EXCEPT ![x] = "closing"]
        \/ relay' = [relay EXCEPT ![x] = "closed"]
    BY <1>1 DEF StopDetach, IsHost, IsGuest
  <2>2. ASSUME NEW d \in Commands
        PROVE  (d = x /\ relay'[d] \in {"closing", "closed"}) \/ relay'[d] = relay[d]
    BY <2>1 DEF TypeInv, TypeOK
  <2>3. ASSUME NEW d \in Commands PROVE OwnerOfOpenOK(d)' /\ CleanedOK(d)'
    BY <2>2 DEF LeakInv, OwnerOfOpenOK, CleanedOK, TypeInv, TypeOK, Early, IsHost
  <2>4. ASSUME NEW d \in Commands PROVE StopOrderOK(d)'
    <3>1. CASE d = c
      BY <2>1, <3>1 DEF StopOrderOK, TypeInv, TypeOK, IsHost
    <3>2. CASE d # c
      <4>1. pc[d] \in {"detach", "cleanup"} => target[d] \in Commands
        BY DEF TypeInv, RequestOK
      <4>. QED
        BY <2>2, <3>2, <4>1 DEF LeakInv, StopOrderOK, TypeInv, TypeOK, IsHost
    <3>. QED
      BY <3>1, <3>2
  <2>. QED
    BY <2>3, <2>4 DEF LeakInv
<1>2. CASE StopCleanup(c)
  <2>. DEFINE x == target[c]
  <2>. /\ UNCHANGED <<req, target, down, cancelled>> /\ cleaned' = cleaned \cup {x}
       /\ pc' = [pc EXCEPT ![c] = "cleanupWait"] /\ pc[c] = "cleanup"
    BY <1>2 DEF StopCleanup, SpeakerCleanup, Goto, localVars, onceVars
  <2>. x \in Commands \ {c} /\ pc[x] \in {"start", "release", "done"} /\ x \in cancelled
       /\ (IsHost(x) => relay[x] \in {"closing", "closed"})
    BY DEF TypeInv, RequestOK, RelayInv, StopTargetOK, LeakInv, StopOrderOK
  <2>1. ASSUME NEW d \in Commands
        PROVE  relay'[d] = relay[d] \/ (relay[d] = "closing" /\ relay'[d] = "closed")
    BY <1>2 DEF StopCleanup, TypeInv, TypeOK
  <2>2. ASSUME NEW d \in Commands PROVE OwnerOfOpenOK(d)' /\ CleanedOK(d)'
    BY <2>1 DEF LeakInv, OwnerOfOpenOK, CleanedOK, TypeInv, TypeOK, Early, IsHost
  <2>3. ASSUME NEW d \in Commands PROVE StopOrderOK(d)'
    <3>1. pc[d] \in {"detach", "cleanup"} => target[d] \in Commands
      BY DEF TypeInv, RequestOK
    <3>. QED
      BY <2>1, <3>1 DEF LeakInv, StopOrderOK, TypeInv, TypeOK, IsHost
  <2>. QED
    BY <2>2, <2>3 DEF LeakInv
<1>3. CASE StopCancel(c)
  <2>1. /\ UNCHANGED <<relay, cleaned, down>> /\ cancelled' = cancelled \cup {target[c]}
        /\ pc'[c] = "detach" /\ target' = target
    BY <1>3 DEF StopCancel, Cancel, Goto, localVars, onceVars, TypeInv, TypeOK
  <2>. QED
    BY <2>1, LeakFrame DEF Early, StopOrderOK
<1>4. CASE StopStep(c) /\ ~StopDetach(c) /\ ~StopCleanup(c) /\ ~StopCancel(c)
  <2>1. UNCHANGED <<relay, cleaned, down>> /\ cancelled \subseteq cancelled'
    BY <1>4 DEF StopStep, StopLook, CancelStart, IdleFallback, StopWaited, StopLeaveOwner,
       StopRemoveHost, StopClear, ForgetDrop, onceVars, Cancel
  <2>2. pc'[c] \in {"fallback", "cancelStart", "cancel", "drop", "done", "leaveOwner", "removeHost",
                    "clear"}
    BY <1>4 DEF StopStep, StopLook, CancelStart, IdleFallback, StopWaited, StopLeaveOwner,
       StopRemoveHost, StopClear, ForgetDrop, StopReturns, Goto, TypeInv, TypeOK
  <2>. QED
    BY <2>1, <2>2, LeakFrame DEF Early, StopOrderOK
<1>. QED
  BY <1>1, <1>2, <1>3, <1>4

\* A guest's teardown closes its inputs before it ends.
LEMMA TeardownStepLeak ==
  ASSUME TypeInv, RelayInv, LeakInv, NEW c \in Commands, TeardownStep(c)
  PROVE  LeakInv'
<1>0. /\ UNCHANGED <<req, pc, target>> /\ down[c] # "off"
      /\ \A d \in Commands \ {c} : down'[d] = down[d]
  BY DEF TeardownStep, TeardownWake, TeardownClear, TeardownSpeakers, TeardownWaited,
     TeardownOwner, TeardownDetach, TeardownClose, TeardownUnlist, TeardownForget, localVars,
     DownTo, TypeInv, TypeOK
<1>. Alone(c)
  BY <1>0 DEF Alone, TeardownStep, TeardownWake, TeardownClear, TeardownSpeakers, TeardownWaited,
     TeardownOwner, TeardownDetach, TeardownClose, TeardownUnlist, TeardownForget
<1>1. IsGuest(c) /\ pc[c] \in {"release", "done"} /\ ~IsHost(c)
  BY <1>0 DEF RelayInv, TeardownOK, IsGuest, IsHost
<1>2. CASE TeardownSpeakers(c)
  <2>. /\ cleaned' = cleaned \cup {c} /\ UNCHANGED <<relay, cancelled>>
       /\ down' = [down EXCEPT ![c] = "speakersWait"]
    BY <1>2 DEF TeardownSpeakers, SpeakerCleanup, onceVars, DownTo
  <2>1. ASSUME NEW x \in Commands PROVE OwnerOfOpenOK(x)' /\ CleanedOK(x)'
    BY <1>0, <1>1 DEF LeakInv, OwnerOfOpenOK, CleanedOK, TypeInv, TypeOK, Early, BeforeClose, IsHost
  <2>2. ASSUME NEW d \in Commands PROVE StopOrderOK(d)'
    BY <1>0 DEF LeakInv, StopOrderOK, IsHost
  <2>. QED
    BY <2>1, <2>2 DEF LeakInv
<1>3. CASE TeardownClose(c)
  <2>. /\ relay' = [relay EXCEPT ![c] = "closed"] /\ UNCHANGED <<cleaned, cancelled>>
       /\ down' = [down EXCEPT ![c] = "unlist"]
    BY <1>3 DEF TeardownClose, onceVars, DownTo
  <2>1. ASSUME NEW x \in Commands PROVE OwnerOfOpenOK(x)' /\ CleanedOK(x)'
    BY <1>0, <1>1 DEF LeakInv, OwnerOfOpenOK, CleanedOK, TypeInv, TypeOK, Early, BeforeClose, IsHost
  <2>2. ASSUME NEW d \in Commands PROVE StopOrderOK(d)'
    <3>1. pc[d] \in {"detach", "cleanup"} => target[d] \in Commands
      BY DEF TypeInv, RequestOK
    <3>. QED
      BY <1>0, <1>1, <3>1 DEF LeakInv, StopOrderOK, TypeInv, TypeOK, IsHost
  <2>. QED
    BY <2>1, <2>2 DEF LeakInv
<1>4. CASE TeardownStep(c) /\ ~TeardownSpeakers(c) /\ ~TeardownClose(c)
  <2>1. UNCHANGED <<relay, cleaned>> /\ cancelled \subseteq cancelled'
    BY <1>4 DEF TeardownStep, TeardownWake, TeardownClear, TeardownWaited,
       TeardownOwner, TeardownDetach, TeardownUnlist, TeardownForget, onceVars, Cancel
  <2>2. /\ down'[c] # "wait"
        /\ down[c] \in BeforeClose => down'[c] \in BeforeClose
    BY <1>4 DEF TeardownStep, TeardownWake, TeardownClear, TeardownWaited,
       TeardownOwner, TeardownDetach, TeardownUnlist, TeardownForget, DownTo, BeforeClose,
       TypeInv, TypeOK
  <2>3. StopOrderOK(c)'
    BY <1>0, <2>1 DEF LeakInv, StopOrderOK, IsHost
  <2>. QED
    BY <1>0, <2>1, <2>2, <2>3, LeakFrame
<1>. QED
  BY <1>2, <1>3, <1>4

\* A command that arrives has nothing to leave behind.
LEMMA ArriveLeak ==
  ASSUME TypeInv, RelayInv, LeakInv, NEW c \in Commands, Arrive(c)
  PROVE  LeakInv'
<1>. PICK kind, g0, arg : Issue(c, kind, g0, arg)
  BY DEF Arrive, IssueStart, IssueJoin, IssueStop, IssueForget, IssueIdleStop
<1>. pc[c] = "idle" /\ pc'[c] \in {"begin", "look"}
  BY DEF TypeInv, TypeOK, Issue, Goto
<1>. \A d \in Commands \ {c} : pc'[d] = pc[d] /\ req'[d] = req[d]
  BY DEF TypeInv, TypeOK, Issue, Goto
<1>. UNCHANGED <<target, relay, down, cleaned, cancelled>>
  BY DEF Issue, onceVars
<1>1. c \notin cleaned /\ relay[c] = "none"
  BY DEF LeakInv, OwnerOfOpenOK, Early
<1>2. ASSUME NEW x \in Commands PROVE OwnerOfOpenOK(x)' /\ CleanedOK(x)'
  BY <1>1 DEF LeakInv, OwnerOfOpenOK, CleanedOK, IsHost
<1>3. ASSUME NEW d \in Commands PROVE StopOrderOK(d)'
  <2>1. d # c /\ pc[d] \in {"detach", "cleanup"} => target[d] \in Commands \ {c}
    BY DEF TypeInv, RequestOK, RelayInv, StopTargetOK
  <2>. QED
    BY <2>1 DEF LeakInv, StopOrderOK, IsHost
<1>. QED
  BY <1>2, <1>3 DEF LeakInv

\* Every step of the system keeps LeakInv.
LEMMA LeakInvStep == TypeInv /\ RelayInv /\ LeakInv /\ [Next]_vars => LeakInv'
<1>. SUFFICES ASSUME TypeInv, RelayInv, LeakInv, [Next]_vars PROVE LeakInv'
  OBVIOUS
<1>1. ASSUME UNCHANGED <<req, pc, target, relay, down, cleaned, cancelled>> PROVE LeakInv'
  BY <1>1 DEF LeakInv, OwnerOfOpenOK, CleanedOK, StopOrderOK, IsHost
<1>2. CASE UNCHANGED vars
  BY <1>1, <1>2 DEF vars
<1>3. CASE \E c \in Commands : SpeakerStep(c)
  BY <1>1, <1>3 DEF SpeakerStep, SpeakerLeave, localVars
<1>. QED
  BY <1>2, <1>3, ArriveLeak, StartStepLeak, StopStepLeak, TeardownStepLeak DEF Next

\* Once all goroutines have come to rest, no raid that was taken down holds an
\* input open, however its stop, its start and its teardown overlapped
\* (hostRelayInputs.close, JoinSession's teardown).
THEOREM InputsAreClosed == Spec => []NoLeakedInputs
<1>1. Init => RelayInv /\ LeakInv
  BY DEF Init, RegistryInit, RelayInv, SessionOK, StopTargetOK, TeardownOK, AttachedOK,
     LeakInv, OwnerOfOpenOK, CleanedOK, StopOrderOK, IsHost
<1>2. TypeInv /\ LeakInv => NoLeakedInputs
  <2>. SUFFICES ASSUME TypeInv, LeakInv, Settled, NEW x \in cleaned, relay[x] = "open" PROVE FALSE
    BY DEF NoLeakedInputs
  <2>. x \in Commands
    BY DEF TypeInv, TypeOK
  <2>1. down[x] \in BeforeClose
    BY DEF LeakInv, OwnerOfOpenOK, CleanedOK
  <2>2. down[x] = "wait" /\ x \notin cancelled
    BY <2>1 DEF Settled, Busy, Waiting, Wakes, BeforeClose
  <2>. QED
    BY <2>1, <2>2 DEF LeakInv, CleanedOK
<1>. QED
  BY <1>1, <1>2, RequestsInv, RelayInvStep, LeakInvStep, PTL DEF Spec

-----------------------------------------------------------------------------
(* Commands that do not overlap a start or a teardown *)

\* Operators start a raid when the guild is quiet and stop none that is starting.
Orderly == Races = {}

\* Where a stop has taken the raid it ends, and where it has looked for one.
Taking == {"cancel", "detach", "cleanup", "cleanupWait", "leaveOwner", "removeHost"}
AfterLook == Taking \cup {"cancelStart", "clear", "drop"}

\* Where a start has not yet committed, or never will.
Unmade == StartSteps \ {"start", "release"}

\* The raid is its guild's session.
Up(x) == guildOf(x) \in Guilds /\ session[guildOf(x)] = x

TornDown(c) == down[c] \in {"off", "done"}

\* While a start runs, the guild's other commands are at rest, and so are its
\* teardowns; a guild has one guest raid's goroutine at a time.
AloneOK(c, d) ==
    c # d /\ guildOf(c) = guildOf(d) =>
        /\ pc[c] \in StartSteps => ~Busy(d)
        /\ ~TornDown(c) => TornDown(d)

\* When the guild's session is a command's own, and when there is none.
SessionFits(c) ==
    /\ pc[c] \in Unmade \cup AfterLook => session[guildOf(c)] = None
    /\ pc[c] = "start" => session[guildOf(c)] = c
    /\ down[c] \in {"wait", "clear"} => session[guildOf(c)] \in {None, c}
    /\ down[c] \notin {"off", "wait", "clear", "done"} => session[guildOf(c)] = None
    /\ c \in cleaned => \A g \in Guilds : session[g] # c

\* A raid a stop has taken never becomes a session again.
TakenOK(c) ==
    /\ pc[c] = "idle" => target[c] = None
    /\ pc[c] \in StopSteps => ~IsStart(c)
    /\ ~IsStart(c) /\ target[c] # None =>
          /\ pc[target[c]] \in {"start", "release", "done"}
          /\ \A g \in Guilds : session[g] # target[c]
    /\ pc[c] \in Taking =>
          /\ target[c] \in Commands /\ guildOf(target[c]) = guildOf(c)
          /\ pc[c] \in {"leaveOwner", "removeHost"} => IsHost(target[c])
          /\ IsHost(target[c]) =>
                \A e \in Commands : guildOf(e) = guildOf(c) => TornDown(e)

\* Nobody cancels a start, and an idle watcher only a raid that has started.
UncancelledOK(c) ==
    /\ pc[c] \in {"idle"} \cup (StartSteps \ {"release"}) => c \notin cancelled
    /\ c \in watching => pc[c] \in {"release", "done"}
    /\ Aimed(c) => pc[req[c].arg] \in {"release", "done"}

\* The reservation and the session of a guild are of starts of that guild.
GuildOK(g) ==
    /\ inFlight[g] # None => guildOf(inFlight[g]) = g /\ pc[inFlight[g]] \in Reserved
    /\ session[g] # None => IsStart(session[g])

\* Commands of a guild that are not at rest at the same time are a stop and a
\* teardown, or stops, and they agree on whose the session is.
OrderInv ==
    /\ \A c, d \in Commands : AloneOK(c, d)
    /\ \A c \in Commands : SessionFits(c) /\ TakenOK(c) /\ UncancelledOK(c)
    /\ \A g \in Guilds : GuildOK(g)

-----------------------------------------------------------------------------
(* The registry in orderly behaviours *)

\* Where a start has nothing in the registry yet.
BeforeCreate == {"idle", "begin", "enlist", "snapshot", "resnapshot", "speakers",
                 "owner", "create"}

\* A relay session is its creator's, from its creation to the commit and on.
CreatedOK(s) ==
    /\ hostOf[s] # None => IsHost(s) /\ hostOf[s] = guildOf(s)
    /\ s \in done => hostOf[s] # None
    /\ pc[s] \in BeforeCreate => hostOf[s] = None
    /\ pc[s] \in {"create", "check"} => IsHost(s)
    /\ IsHost(s) /\ (pc[s] \in {"build", "check", "commit"} \/ Up(s)) =>
          hostOf[s] # None /\ s \notin done

\* Who keeps a relay session alive: its raid, on its way up, up, or being stopped.
KeptBy(s) ==
    \/ pc[s] \in {"build", "check", "commit", "undo", "undoWait", "undoOwner", "undoRegistry"}
    \/ Up(s)
    \/ \E c \in Commands : pc[c] \in Taking /\ target[c] = s

\* A relay session that nobody has closed is found under its creator's guild.
LiveOK(s) ==
    hostOf[s] # None /\ s \notin done =>
        KeptBy(s) /\ byGuild[hostOf[s]] = s /\ sessions[hostOf[s]] = s

\* A guest of the guild that is in the registry.
Enlisted(g) == \E e \in Commands :
    /\ IsGuest(e) /\ guildOf(e) = g
    /\ \/ pc[e] \in StartSteps \ {"begin", "enlist", "abort", "release"}
       \/ down[e] \notin {"off", "forget", "done"}

\* What the registry's maps hold: codes of relay sessions, and for each guild its own
\* live session or the one it is a guest of.
EntryOK(g) ==
    /\ sessions[g] # None => hostOf[sessions[g]] # None
    /\ byGuild[g] # None =>
          /\ hostOf[byGuild[g]] # None
          /\ (hostOf[byGuild[g]] = g /\ byGuild[g] \notin done) \/ Enlisted(g)

\* A guest's relay session has been created, and its raid is up until it is
\* cancelled or taken.
GuestOK(c) ==
    /\ IsGuest(c) /\ (pc[c] \in StartSteps \ {"begin", "enlist", "undoRegistry", "abort", "release"}
                      \/ down[c] # "off") =>
          target[c] # None /\ hostOf[target[c]] # None
    /\ down[c] = "wait" /\ c \notin cancelled =>
          \/ Up(c)
          \/ \E d \in Commands : pc[d] = "cancel" /\ target[d] = c

\* The registry follows the raids.
RegistryInv ==
    /\ \A c \in Commands : CreatedOK(c) /\ LiveOK(c) /\ GuestOK(c)
    /\ \A g \in Guilds : EntryOK(g)

-----------------------------------------------------------------------------
(* The bots' voice connections in orderly behaviours *)

\* A raid that comes up or is up has the connections of the bots that joined it.
ServedOK(x) ==
    /\ pc[x] \in Joining \/ Up(x) =>
          \A b \in joined[x] : voice[guildOf(x)][b] = x
    /\ /\ pc[x] \in {"create", "build", "check", "commit"} \/ Up(x)
       /\ IsHost(x) \/ x \in ownerUp
       => voice[guildOf(x)][Owner] = x
    /\ pc[x] \in BeforeCreate => x \notin ownerUp
    /\ pc[x] = "speakers" => pending[x] \cap joined[x] = {}

\* Somebody waits for the leaves of a raid's cleanup.
LeavesAwaited(x) ==
    \/ pc[x] = "undoWait"
    \/ down[x] = "speakersWait"
    \/ \E c \in Commands : pc[c] = "cleanupWait" /\ target[c] = x

\* Speakers leave only in a cleanup that somebody waits for.
LeavingOK(x) == leaving[x] # {} => x \in cleaned /\ LeavesAwaited(x)

\* Somebody will yet clean up after the speakers of a raid.
CleanupDue(x) ==
    \/ pc[x] \in Joining \cup {"undo"}
    \/ Up(x)
    \/ down[x] = "speakers"
    \/ \E c \in Commands : pc[c] \in {"cancel", "detach", "cleanup"} /\ target[c] = x

\* A raid that has speakers is cleaned up after.
CleanupDueOK(x) == joined[x] # {} /\ x \notin cleaned => CleanupDue(x)

\* A speaker in voice is one of a raid that has not made it leave.
SpeakerVoiceOK(g, b) ==
    LET x == voice[g][b] IN
    x # None =>
        /\ x \in Commands /\ guildOf(x) = g /\ b \in joined[x]
        /\ x \in cleaned => b \in leaving[x]

\* Somebody will yet make a raid's owner bot leave.
OwnerDue(x) ==
    \/ /\ IsHost(x)
       /\ \/ pc[x] \in {"create", "build", "check", "commit", "undoOwner"}
          \/ pc[x] \in {"undo", "undoWait"} /\ hostOf[x] # None
          \/ Up(x)
          \/ \E c \in Commands : pc[c] \in Taking \ {"removeHost"} /\ target[c] = x
    \/ /\ IsGuest(x) /\ x \in ownerUp
       /\ \/ pc[x] \in {"build", "commit", "start", "undo", "undoWait", "undoOwner"}
          \/ down[x] \in {"wait", "clear", "speakers", "speakersWait", "owner"}

\* An owner bot in voice is one that is yet to leave.
OwnerVoiceOK(g) ==
    LET x == voice[g][Owner] IN
    x # None => x \in Commands /\ guildOf(x) = g /\ OwnerDue(x)

\* The speakers' connections follow the raids.
VoiceInv ==
    /\ \A x \in Commands : ServedOK(x) /\ LeavingOK(x) /\ CleanupDueOK(x)
    /\ \A g \in Guilds, b \in Speakers : SpeakerVoiceOK(g, b)

\* The owner bot that a failed pipeline leaves in voice is nobody's, so this needs
\* installations to succeed.
OwnerInv == \A g \in Guilds : OwnerVoiceOK(g)

-----------------------------------------------------------------------------
(* Commands that do not overlap: every step keeps OrderInv *)

\* A start on its way up to the commit, or undoing itself.
LEMMA StartOrderFrame ==
  ASSUME TypeInv, RelayInv, OrderInv, NEW c \in Commands, Alone(c),
         pc[c] \in Unmade, pc'[c] \in Unmade \ {"begin"}, pc[c] # "begin",
         UNCHANGED <<down, session, inFlight, cancelled, watching>>,
         cleaned' \subseteq cleaned \cup {c}
  PROVE  OrderInv'
<1>. IsStart(c)
  BY DEF TypeInv, RequestOK, Unmade
<1>. \A g \in Guilds : session[g] # c
  BY RegistryConstants DEF RelayInv, SessionOK, Unmade, StartSteps
<1>1. ASSUME NEW d \in Commands, NEW e \in Commands PROVE AloneOK(d, e)'
  BY DEF OrderInv, AloneOK, TornDown, Busy, Alone, guildOf, Unmade, StartSteps
<1>2. ASSUME NEW d \in Commands PROVE SessionFits(d)'
  BY DEF OrderInv, SessionFits, Alone, guildOf, Unmade, AfterLook, Taking, StartSteps
<1>3. ASSUME NEW d \in Commands PROVE TakenOK(d)'
  <2>1. CASE d = c
    BY <2>1 DEF TakenOK, Alone, IsStart, IsHost, IsGuest, Unmade, StartSteps, StopSteps, Taking
  <2>2. CASE d # c
    <3>1. pc'[d] = pc[d] /\ target'[d] = target[d]
      BY <2>2 DEF Alone
    <3>. QED
      BY <2>2, <3>1 DEF OrderInv, TakenOK, Alone, IsStart, IsHost, IsGuest, guildOf, Unmade,
         StartSteps, TornDown, TypeInv, TypeOK, OrNone
  <2>. QED
    BY <2>1, <2>2
<1>4. ASSUME NEW d \in Commands PROVE UncancelledOK(d)'
  BY DEF OrderInv, UncancelledOK, Alone, Aimed, Unmade, StartSteps, TypeInv, RequestOK
<1>5. ASSUME NEW g \in Guilds PROVE GuildOK(g)'
  BY DEF OrderInv, GuildOK, Alone, guildOf, IsStart, IsHost, IsGuest, Unmade, Reserved,
     TypeInv, TypeOK, OrNone
<1>. QED
  BY <1>1, <1>2, <1>3, <1>4, <1>5 DEF OrderInv

\* A stop on its way from the session it found.
LEMMA StopOrderFrame ==
  ASSUME TypeInv, RelayInv, OrderInv, NEW c \in Commands, Alone(c),
         pc[c] \in AfterLook, pc'[c] \in Taking \cup {"clear", "drop", "done"},
         pc'[c] \in Taking => pc[c] \in Taking,
         pc'[c] \in {"leaveOwner", "removeHost"} => IsHost(target[c]),
         UNCHANGED <<target, down, session, inFlight, watching>>,
         \/ pc[c] \in Taking /\ cancelled' \subseteq cancelled \cup {target[c]}
         \/ cancelled' = cancelled,
         \/ pc[c] \in Taking /\ cleaned' \subseteq cleaned \cup {target[c]}
         \/ cleaned' = cleaned
  PROVE  OrderInv'
<1>. DEFINE x == target[c]
<1>. ~IsStart(c)
  BY DEF OrderInv, TakenOK, AfterLook, Taking, StopSteps
<1>. /\ pc[c] \in Taking =>
           /\ x \in Commands /\ x # c /\ guildOf(x) = guildOf(c)
           /\ pc[x] = "done" \/ pc[x] \notin StartSteps \cup {"idle"}
           /\ \A g \in Guilds : session[g] # x
     /\ pc[c] \notin StartSteps \cup {"idle"} /\ Busy(c)
  BY RegistryConstants DEF OrderInv, TakenOK, AloneOK, Busy, AfterLook, Taking, StartSteps
<1>1. ASSUME NEW d \in Commands, NEW e \in Commands PROVE AloneOK(d, e)'
  BY DEF OrderInv, AloneOK, TornDown, Busy, Alone, guildOf, AfterLook, Taking, StartSteps
<1>2. ASSUME NEW d \in Commands PROVE SessionFits(d)'
  BY DEF OrderInv, SessionFits, Alone, guildOf, Unmade, AfterLook, Taking, StartSteps
<1>3. ASSUME NEW d \in Commands PROVE TakenOK(d)'
  <2>1. CASE d = c
    BY <2>1 DEF OrderInv, TakenOK, Alone, IsStart, IsHost, IsGuest, guildOf, TornDown, AfterLook,
       Taking, StartSteps, TypeInv, TypeOK, OrNone
  <2>2. CASE d # c
    <3>1. pc'[d] = pc[d] /\ target'[d] = target[d]
      BY <2>2 DEF Alone
    <3>. QED
      BY <2>2, <3>1 DEF OrderInv, TakenOK, Alone, IsStart, IsHost, IsGuest, guildOf,
         AfterLook, Taking, TornDown, TypeInv, TypeOK, OrNone
  <2>. QED
    BY <2>1, <2>2
<1>4. ASSUME NEW d \in Commands PROVE UncancelledOK(d)'
  BY DEF OrderInv, UncancelledOK, Alone, Aimed, AfterLook, Taking, StartSteps, TypeInv,
     RequestOK
<1>5. ASSUME NEW g \in Guilds PROVE GuildOK(g)'
  BY DEF OrderInv, GuildOK, Alone, guildOf, IsStart, IsHost, IsGuest, Reserved, AfterLook,
     Taking, StartSteps, TypeInv, TypeOK, OrNone
<1>. QED
  BY <1>1, <1>2, <1>3, <1>4, <1>5 DEF OrderInv

\* A guest's teardown.
LEMMA TeardownOrderFrame ==
  ASSUME TypeInv, RelayInv, OrderInv, NEW c \in Commands, UNCHANGED <<req, pc, target>>,
         ~TornDown(c), NEW step \in DownSteps \ {"off", "wait"},
         down' = [down EXCEPT ![c] = step],
         UNCHANGED <<inFlight, watching>>, cancelled' \subseteq cancelled \cup {c},
         step = "clear" => down[c] = "wait",
         step # "clear" => session'[guildOf(c)] = None,
         \/ session' = session
         \/ down[c] = "clear" /\ session' = [session EXCEPT ![guildOf(c)] = None],
         cleaned' = cleaned \/ (step # "clear" /\ cleaned' = cleaned \cup {c})
  PROVE  OrderInv'
<1>. IsGuest(c) /\ ~IsHost(c) /\ pc[c] \in {"release", "done"} /\ guildOf(c) \in Guilds
     /\ down'[c] = step /\ Busy(c)
     /\ \A d \in Commands \ {c} : down'[d] = down[d]
  BY DEF RelayInv, TeardownOK, TornDown, TypeInv, TypeOK, RequestOK, IsGuest, IsHost, Busy
<1>. \A g \in Guilds :
        \/ session'[g] = session[g]
        \/ g = guildOf(c) /\ session'[g] = None /\ session[g] \in {None, c}
  <2>1. down[c] = "clear" => session[guildOf(c)] \in {None, c}
    BY DEF OrderInv, SessionFits
  <2>. QED
    BY <2>1 DEF TypeInv, TypeOK
<1>1. ASSUME NEW d \in Commands, NEW e \in Commands PROVE AloneOK(d, e)'
  BY DEF OrderInv, AloneOK, TornDown, Busy, guildOf
<1>2. ASSUME NEW d \in Commands PROVE SessionFits(d)'
  <2>1. CASE d = c
    BY <2>1, RegistryConstants DEF OrderInv, SessionFits, guildOf, Unmade, AfterLook, Taking,
       StartSteps, RelayInv, SessionOK, DownSteps, TornDown
  <2>2. CASE d # c
    <3>1. pc[d] # "idle" => guildOf(d) \in Guilds
      BY DEF TypeInv, RequestOK
    <3>2. down[d] \notin {"off"} => guildOf(d) \in Guilds
      BY <3>1 DEF RelayInv, TeardownOK
    <3>. QED
      BY <2>2, <3>1, <3>2, RegistryConstants DEF OrderInv, SessionFits, guildOf, Unmade,
         AfterLook, Taking, StartSteps, AloneOK, TornDown
  <2>. QED
    BY <2>1, <2>2
<1>3. ASSUME NEW d \in Commands PROVE TakenOK(d)'
  BY RegistryConstants DEF OrderInv, TakenOK, IsStart, IsHost, IsGuest, guildOf, TornDown,
     TypeInv, TypeOK, OrNone
<1>4. ASSUME NEW d \in Commands PROVE UncancelledOK(d)'
  BY DEF OrderInv, UncancelledOK, Aimed, StartSteps
<1>5. ASSUME NEW g \in Guilds PROVE GuildOK(g)'
  BY DEF OrderInv, GuildOK, guildOf, IsStart, IsHost, IsGuest
<1>. QED
  BY <1>1, <1>2, <1>3, <1>4, <1>5 DEF OrderInv

\* A command arrives where no other of its guild is in its way.
LEMMA ArriveOrder ==
  ASSUME Orderly, TypeInv, RelayInv, LeakInv, OrderInv, NEW c \in Commands, Arrive(c)
  PROVE  OrderInv'
<1>. PICK kind \in AllOffers, g0 \in Guilds, arg \in OrNone(Guilds \cup Commands) :
        /\ Issue(c, kind, g0, arg)
        /\ kind \in {"host", "guest"} => session[g0] = None /\ Quiet(g0)
        /\ kind \notin {"host", "guest"} => NoStartRuns(g0)
        /\ kind = "idle" => arg \in watching
        /\ watching' \subseteq watching
  BY DEF Orderly, Arrive, IssueStart, IssueJoin, IssueStop, IssueForget, IssueIdleStop, MayStart,
     MayStop, AllOffers, OrNone, TypeInv, RequestOK
<1>1. /\ pc[c] = "idle" /\ pc'[c] = IF kind \in {"host", "guest"} THEN "begin" ELSE "look"
      /\ guildOf(c)' = g0 /\ IsStart(c)' = (kind \in {"host", "guest"})
      /\ Aimed(c)' => kind = "idle" /\ req'[c].arg = arg
      /\ \A d \in Commands \ {c} : pc'[d] = pc[d] /\ req'[d] = req[d]
  BY DEF TypeInv, TypeOK, Issue, Goto, guildOf, IsStart, IsHost, IsGuest, Aimed
<1>2. UNCHANGED <<target, session, inFlight, down, cleaned, cancelled>>
  BY DEF Issue, onceVars
<1>3. /\ down[c] = "off" /\ c \notin cleaned /\ target[c] = None /\ c \notin cancelled
      /\ c \notin watching
      /\ \A g \in Guilds : session[g] # c /\ inFlight[g] # c
  BY <1>1, RegistryConstants DEF TypeInv, RequestOK, RelayInv, TeardownOK, SessionOK, LeakInv,
     OwnerOfOpenOK, Early, OrderInv, TakenOK, UncancelledOK, GuildOK, Reserved, StartSteps
<1>9. /\ \A d \in Commands : target[d] # None /\ ~IsStart(d) => target[d] # c
      /\ \A d \in Commands : pc[d] \in Taking => ~IsStart(d) /\ target[d] # None
      /\ \A d \in Commands : Aimed(d) => req[d].arg # c
  BY <1>1, RegistryConstants DEF OrderInv, TakenOK, UncancelledOK, Taking, StopSteps
<1>4. ASSUME NEW d \in Commands, NEW e \in Commands PROVE AloneOK(d, e)'
  <2>1. ASSUME NEW x \in Commands, x # c, guildOf(x) = g0
        PROVE  /\ pc[x] \notin StartSteps
               /\ pc'[c] \in StartSteps => ~Busy(x)
    BY <1>1, <2>1 DEF Quiet, NoStartRuns, Busy, TypeInv, RequestOK, StartSteps
  <2>. QED
    BY <1>1, <1>2, <1>3, <2>1 DEF OrderInv, AloneOK, TornDown, Busy, guildOf
<1>5. ASSUME NEW d \in Commands PROVE SessionFits(d)'
  BY <1>1, <1>2, <1>3 DEF OrderInv, SessionFits, guildOf, Unmade, AfterLook, Taking, StartSteps
<1>6. ASSUME NEW d \in Commands PROVE TakenOK(d)'
  <2>1. CASE d = c
    BY <1>1, <1>2, <1>3, <2>1 DEF TakenOK, Taking, StartSteps, StopSteps
  <2>2. CASE d # c
    BY <1>1, <1>2, <1>3, <1>9, <2>2, SMTT(30) DEF OrderInv, TakenOK, IsStart, IsHost, IsGuest,
       guildOf, TornDown, TypeInv, TypeOK, OrNone
  <2>. QED
    BY <2>1, <2>2
<1>7. ASSUME NEW d \in Commands PROVE UncancelledOK(d)'
  <2>1. CASE d = c
    BY <1>1, <1>2, <1>3, <2>1, SMTT(30) DEF OrderInv, UncancelledOK, TypeInv, TypeOK
  <2>2. CASE d # c
    <3>1. Aimed(d) => req[d].arg \in Commands \ {c}
      BY <1>9 DEF TypeInv, RequestOK
    <3>. QED
      BY <1>1, <1>2, <2>2, <3>1 DEF OrderInv, UncancelledOK, Aimed
  <2>. QED
    BY <2>1, <2>2
<1>8. ASSUME NEW g \in Guilds PROVE GuildOK(g)'
  BY <1>1, <1>2, <1>3 DEF OrderInv, GuildOK, guildOf, IsStart, IsHost, IsGuest, TypeInv, TypeOK,
     OrNone
<1>. QED
  BY <1>4, <1>5, <1>6, <1>7, <1>8 DEF OrderInv

\* A step of a start leaves alone what stops have taken.
LEMMA TakenFrame ==
  ASSUME TypeInv, OrderInv, NEW c \in Commands, Alone(c), IsStart(c),
         pc[c] \in StartSteps, pc'[c] \in StartSteps \cup {"done"},
         pc[c] \in {"start", "release"} => pc'[c] \in {"release", "done"},
         \A g \in Guilds : session'[g] = session[g] \/ (session'[g] = c /\ pc[c] = "commit"),
         \A d \in Commands : d # c => down'[d] = down[d],
         NEW d \in Commands
  PROVE  TakenOK(d)'
<1>1. CASE d = c
  BY <1>1 DEF TakenOK, Alone, IsStart, IsHost, IsGuest, StartSteps, StopSteps, Taking
<1>2. CASE d # c
  <2>1. pc'[d] = pc[d] /\ target'[d] = target[d] /\ req' = req /\ TakenOK(d)
    BY <1>2 DEF Alone, OrderInv
  <2>2. (pc[d] = "idle" => target[d] = None) /\ (pc[d] \in StopSteps => ~IsStart(d))'
    BY <2>1 DEF TakenOK, IsStart, IsHost, IsGuest
  <2>3. ASSUME ~IsStart(d), target[d] # None
        PROVE  /\ pc'[target[d]] \in {"start", "release", "done"}
               /\ \A g \in Guilds : session'[g] # target[d]
    <3>1. /\ pc[target[d]] \in {"start", "release", "done"}
          /\ \A g \in Guilds : session[g] # target[d]
          /\ target[d] \in Commands
      BY <2>1, <2>3 DEF TakenOK, TypeInv, TypeOK, OrNone
    <3>2. CASE target[d] = c
      BY <3>1, <3>2 DEF StartSteps
    <3>3. CASE target[d] # c
      BY <3>1, <3>3 DEF Alone
    <3>. QED
      BY <3>2, <3>3
  <2>4. ASSUME pc[d] \in Taking, IsHost(target[d]), NEW e \in Commands, guildOf(e) = guildOf(d)
        PROVE  TornDown(e)'
    <3>1. TornDown(e)
      BY <2>1, <2>4 DEF TakenOK
    <3>2. e # c
      BY <1>2, <2>4 DEF OrderInv, AloneOK, Busy, Taking
    <3>. QED
      BY <3>1, <3>2 DEF TornDown
  <2>. QED
    BY <2>1, <2>2, <2>3, <2>4 DEF TakenOK, IsStart, IsHost, IsGuest, guildOf
<1>. QED
  BY <1>1, <1>2

\* A start commits where its guild has no session and nobody else is at work.
LEMMA StartStepOrder ==
  ASSUME TypeInv, RelayInv, LeakInv, OrderInv, NEW c \in Commands, StartStep(c)
  PROVE  OrderInv'
<1>. Alone(c)
  BY StartStepRequest
<1>. DEFINE g == guildOf(c)
<1>. pc[c] \in StartSteps /\ IsStart(c) /\ g \in Guilds
  BY DEF TypeInv, RequestOK, StartStep, StartBegin, Enlist, Snapshot, AttachSpeaker,
     SpeakersJoined, AttachOwner, HostCreate, Build, CtxCheck, Commit, StartPipeline, Release,
     Undo, UndoWaited, UndoOwner, UndoRegistry, StartSteps
<1>0. ASSUME NEW d \in Commands, d # c, guildOf(d) = g
      PROVE  pc'[d] \in {"idle", "done"} /\ down[d] \in {"off", "done"}
  <2>1. AloneOK(c, d)
    BY DEF OrderInv
  <2>. QED
    BY <1>0, <2>1 DEF AloneOK, Busy, Alone
<1>1. CASE StartBegin(c)
  <2>. /\ pc[c] = "begin" /\ UNCHANGED <<down, session, watching, cleaned>>
       /\ \/ pc'[c] = "done" /\ cancelled' = cancelled \cup {c} /\ inFlight' = inFlight
          \/ /\ pc'[c] \in {"enlist", "snapshot", "abort"}
             /\ cancelled' = cancelled /\ inFlight' = [inFlight EXCEPT ![g] = c]
    BY <1>1 DEF StartBegin, Goto, Cancel, onceVars, TypeInv, TypeOK
  <2>1. ASSUME NEW d \in Commands, NEW e \in Commands PROVE AloneOK(d, e)'
    BY <1>0 DEF OrderInv, AloneOK, TornDown, Busy, Alone, guildOf, StartSteps
  <2>2. ASSUME NEW d \in Commands PROVE SessionFits(d)'
    BY DEF OrderInv, SessionFits, Alone, guildOf, Unmade, AfterLook, Taking, StartSteps
  <2>3. ASSUME NEW d \in Commands PROVE TakenOK(d)'
    BY TakenFrame DEF StartSteps, TypeInv, TypeOK
  <2>4. ASSUME NEW d \in Commands PROVE UncancelledOK(d)'
    BY DEF OrderInv, UncancelledOK, Alone, Aimed, StartSteps, TypeInv, RequestOK
  <2>5. ASSUME NEW h \in Guilds PROVE GuildOK(h)'
    <3>1. \A k \in Guilds : inFlight[k] # c
      BY RegistryConstants DEF OrderInv, GuildOK, Reserved
    <3>2. \/ inFlight'[h] = inFlight[h]
          \/ h = g /\ inFlight'[h] = c /\ pc'[c] \in Reserved
      BY DEF TypeInv, TypeOK, Reserved, StartSteps
    <3>. QED
      BY <3>1, <3>2 DEF OrderInv, GuildOK, Alone, guildOf, IsStart, IsHost, IsGuest, TypeInv,
         TypeOK, OrNone
  <2>. QED
    BY <2>1, <2>2, <2>3, <2>4, <2>5 DEF OrderInv
<1>2. CASE Commit(c) /\ pc'[c] = "start"
  <2>. /\ pc[c] = "commit" /\ UNCHANGED <<down, inFlight, watching, cleaned, cancelled>>
       /\ session' = [session EXCEPT ![g] = c] /\ c \notin cleaned
    BY <1>2 DEF Commit, Goto, onceVars, TypeInv, TypeOK, LeakInv, OwnerOfOpenOK, Early
  <2>1. ASSUME NEW d \in Commands, NEW e \in Commands PROVE AloneOK(d, e)'
    BY <1>0 DEF OrderInv, AloneOK, TornDown, Busy, Alone, guildOf, StartSteps
  <2>2. ASSUME NEW d \in Commands PROVE SessionFits(d)'
    <3>1. CASE d # c /\ guildOf(d) = g
      BY <1>0, <1>2, <3>1 DEF OrderInv, SessionFits, Alone, guildOf, Unmade, AfterLook, Taking,
         StartSteps, TypeInv, TypeOK
    <3>2. CASE d # c /\ guildOf(d) # g
      BY <1>2, <3>2 DEF OrderInv, SessionFits, Alone, guildOf, TypeInv, TypeOK
    <3>3. CASE d = c
      BY <1>2, <3>3 DEF OrderInv, SessionFits, Alone, guildOf, Unmade, AfterLook, Taking,
         StartSteps, TypeInv, TypeOK, RelayInv, TeardownOK
    <3>. QED
      BY <3>1, <3>2, <3>3
  <2>3. ASSUME NEW d \in Commands PROVE TakenOK(d)'
    BY <1>2, TakenFrame DEF StartSteps, TypeInv, TypeOK
  <2>4. ASSUME NEW d \in Commands PROVE UncancelledOK(d)'
    BY <1>2 DEF OrderInv, UncancelledOK, Alone, Aimed, StartSteps, TypeInv, RequestOK
  <2>5. ASSUME NEW h \in Guilds PROVE GuildOK(h)'
    BY <1>2 DEF OrderInv, GuildOK, Alone, guildOf, IsStart, IsHost, IsGuest, Reserved, StartSteps,
       TypeInv, TypeOK, OrNone
  <2>. QED
    BY <2>1, <2>2, <2>3, <2>4, <2>5 DEF OrderInv
<1>3. CASE StartPipeline(c)
  <2>. /\ pc[c] = "start" /\ UNCHANGED <<session, inFlight, cleaned, cancelled>>
       /\ pc'[c] = "release" /\ watching' = watching \cup {c}
       /\ \A d \in Commands : d # c => down'[d] = down[d]
       /\ down'[c] \in {"off", "wait"}
    BY <1>3 DEF StartPipeline, Goto, onceVars, serviceVars, TypeInv, TypeOK, RelayInv, TeardownOK
  <2>1. ASSUME NEW d \in Commands, NEW e \in Commands PROVE AloneOK(d, e)'
    BY <1>0 DEF OrderInv, AloneOK, TornDown, Busy, Alone, guildOf, StartSteps
  <2>2. ASSUME NEW d \in Commands PROVE SessionFits(d)'
    BY DEF OrderInv, SessionFits, Alone, guildOf, Unmade, AfterLook, Taking, StartSteps
  <2>3. ASSUME NEW d \in Commands PROVE TakenOK(d)'
    BY TakenFrame DEF StartSteps, TypeInv, TypeOK
  <2>4. ASSUME NEW d \in Commands PROVE UncancelledOK(d)'
    BY DEF OrderInv, UncancelledOK, Alone, Aimed, StartSteps, TypeInv, RequestOK
  <2>5. ASSUME NEW h \in Guilds PROVE GuildOK(h)'
    BY SMTT(30) DEF OrderInv, GuildOK, Alone, guildOf, IsStart, IsHost, IsGuest, Reserved,
       StartSteps, TypeInv, TypeOK, OrNone
  <2>. QED
    BY <2>1, <2>2, <2>3, <2>4, <2>5 DEF OrderInv
<1>4. CASE Release(c)
  <2>. /\ pc[c] \in {"release", "abort"} /\ UNCHANGED <<session, cleaned, down, watching>>
       /\ pc'[c] = "done" /\ inFlight' = [inFlight EXCEPT ![g] = None]
       /\ cancelled' \subseteq cancelled \cup {c}
    BY <1>4 DEF Release, Goto, onceVars, Cancel, TypeInv, TypeOK
  <2>1. ASSUME NEW d \in Commands, NEW e \in Commands PROVE AloneOK(d, e)'
    BY <1>0 DEF OrderInv, AloneOK, TornDown, Busy, Alone, guildOf, StartSteps
  <2>2. ASSUME NEW d \in Commands PROVE SessionFits(d)'
    BY DEF OrderInv, SessionFits, Alone, guildOf, Unmade, AfterLook, Taking, StartSteps
  <2>3. ASSUME NEW d \in Commands PROVE TakenOK(d)'
    BY TakenFrame DEF StartSteps, TypeInv, TypeOK
  <2>4. ASSUME NEW d \in Commands PROVE UncancelledOK(d)'
    BY DEF OrderInv, UncancelledOK, Alone, Aimed, StartSteps, TypeInv, RequestOK
  <2>5. ASSUME NEW h \in Guilds PROVE GuildOK(h)'
    BY SMTT(30) DEF OrderInv, GuildOK, Alone, guildOf, IsStart, IsHost, IsGuest, Reserved,
       StartSteps, TypeInv, TypeOK, OrNone
  <2>. QED
    BY <2>1, <2>2, <2>3, <2>4, <2>5 DEF OrderInv
<1>5. CASE StartStep(c) /\ ~StartBegin(c) /\ ~(Commit(c) /\ pc'[c] = "start")
           /\ ~StartPipeline(c) /\ ~Release(c)
  <2>1. UNCHANGED <<down, session, inFlight, cancelled, watching>>
    BY <1>5 DEF StartStep, Enlist, Snapshot, AttachSpeaker, SpeakersJoined, AttachOwner,
       HostCreate, Build, CtxCheck, Commit, Undo, UndoWaited, UndoOwner, UndoRegistry, serviceVars,
       Goto, TypeInv, TypeOK
  <2>2. cleaned' \subseteq cleaned \cup {c}
    BY <1>5 DEF StartStep, Enlist, Snapshot, AttachSpeaker, SpeakersJoined, AttachOwner,
       HostCreate, Build, CtxCheck, Commit, Undo, UndoWaited, UndoOwner, UndoRegistry, onceVars,
       SpeakerCleanup
  <2>3. pc[c] \in Unmade /\ pc'[c] \in Unmade \ {"begin"} /\ pc[c] # "begin"
    BY <1>5 DEF StartStep, Enlist, Snapshot, AttachSpeaker, SpeakersJoined, AttachOwner,
       HostCreate, Build, CtxCheck, Commit, Undo, UndoWaited, UndoOwner, UndoRegistry, Goto, Bail,
       Unmade, StartSteps, TypeInv, TypeOK
  <2>. QED
    BY <2>1, <2>2, <2>3, StartOrderFrame
<1>. QED
  BY <1>1, <1>2, <1>3, <1>4, <1>5

\* A stop takes the guild's session where no start of the guild runs.
LEMMA StopStepOrder ==
  ASSUME TypeInv, RelayInv, OrderInv, NEW c \in Commands, StopStep(c)
  PROVE  OrderInv'
<1>. Alone(c)
  BY StopStepRequest
<1>. DEFINE g == guildOf(c)
<1>. /\ pc[c] \in StopSteps /\ ~IsStart(c) /\ g \in Guilds
     /\ pc[c] \notin StartSteps \cup {"idle", "done"}
  <2>1. pc[c] \in StopSteps
    BY DEF StopStep, StopLook, CancelStart, IdleFallback, StopCancel, StopDetach, StopCleanup,
       StopWaited, StopLeaveOwner, StopRemoveHost, StopClear, ForgetDrop, StopSteps
  <2>. QED
    BY <2>1 DEF OrderInv, TakenOK, TypeInv, RequestOK, StopSteps, StartSteps
<1>0. ASSUME NEW d \in Commands, guildOf(d) = g
      PROVE  pc[d] \notin StartSteps
  BY <1>0 DEF OrderInv, AloneOK, Busy
<1>1. CASE StopLook(c) /\ TakesSession(c)
  <2>. DEFINE x == session[g]
  <2>. /\ pc[c] = "look" /\ UNCHANGED <<down, inFlight, cancelled, watching, cleaned>>
       /\ target'[c] = x /\ session' = [session EXCEPT ![g] = None] /\ pc'[c] = "cancel"
       /\ x # None /\ x \in Commands
    BY <1>1 DEF StopLook, Goto, onceVars, TypeInv, TypeOK, TakesSession, OrNone
  <2>. /\ guildOf(x) = g /\ pc[x] \in {"start", "release", "done"} /\ x # c
       /\ \A h \in Guilds : session'[h] # x
    BY RegistryConstants DEF RelayInv, SessionOK, TypeInv, TypeOK
  <2>. HIDE DEF x
  <2>1. ASSUME NEW d \in Commands, NEW e \in Commands PROVE AloneOK(d, e)'
    BY DEF OrderInv, AloneOK, TornDown, Busy, Alone, guildOf, StartSteps
  <2>2. ASSUME NEW d \in Commands PROVE SessionFits(d)'
    <3>1. CASE guildOf(d) = g
      <4>1. pc'[d] # "start"
        BY <1>0, <3>1 DEF Alone, StartSteps
      <4>. QED
        BY <3>1, <4>1, RegistryConstants DEF OrderInv, SessionFits, Alone, guildOf, TypeInv, TypeOK
    <3>2. CASE guildOf(d) # g
      BY <3>2, RegistryConstants DEF OrderInv, SessionFits, Alone, guildOf, TypeInv, TypeOK
    <3>. QED
      BY <3>1, <3>2
  <2>3. ASSUME NEW d \in Commands PROVE TakenOK(d)'
    <3>1. CASE d = c
      <4>1. ASSUME IsHost(x), NEW e \in Commands, guildOf(e) = g PROVE TornDown(e)
        <5>1. SUFFICES ASSUME ~TornDown(e) PROVE FALSE
          OBVIOUS
        <5>2. session[g] \in {None, e}
          BY <4>1, <5>1 DEF OrderInv, SessionFits, TornDown
        <5>3. e = x
          BY <5>2 DEF x
        <5>. QED
          BY <4>1, <5>1, <5>3 DEF RelayInv, TeardownOK, TornDown, IsHost, IsGuest
      <4>. QED
        BY <3>1, <4>1 DEF TakenOK, Alone, IsStart, IsHost, IsGuest, guildOf, TornDown, StopSteps
    <3>2. CASE d # c
      <4>1. /\ pc'[d] = pc[d] /\ target'[d] = target[d]
            /\ target[d] # None /\ ~IsStart(d) => target[d] # c
        BY <3>2 DEF Alone, OrderInv, TakenOK
      <4>2. \A h \in Guilds : session'[h] \in {session[h], None}
        BY DEF TypeInv, TypeOK
      <4>. QED
        BY <3>2, <4>1, <4>2 DEF OrderInv, TakenOK, Alone, IsStart, IsHost, IsGuest, guildOf,
           TornDown, TypeInv, TypeOK, OrNone
    <3>. QED
      BY <3>1, <3>2
  <2>4. ASSUME NEW d \in Commands PROVE UncancelledOK(d)'
    BY DEF OrderInv, UncancelledOK, Alone, Aimed, StartSteps, TypeInv, RequestOK
  <2>5. ASSUME NEW h \in Guilds PROVE GuildOK(h)'
    BY RegistryConstants DEF OrderInv, GuildOK, Alone, guildOf, IsStart, IsHost, IsGuest,
       Reserved, StartSteps, TypeInv, TypeOK, OrNone
  <2>. QED
    BY <2>1, <2>2, <2>3, <2>4, <2>5 DEF OrderInv
<1>2. CASE \/ StopLook(c) /\ ~TakesSession(c)
           \/ CancelStart(c)
           \/ IdleFallback(c)
           \/ ForgetDrop(c)
  <2>1. UNCHANGED <<down, inFlight, watching, cleaned>>
    BY <1>2 DEF StopLook, CancelStart, IdleFallback, ForgetDrop, onceVars, serviceVars
  <2>2. session' = session
    BY <1>2 DEF StopLook, CancelStart, IdleFallback, ForgetDrop, serviceVars, OrderInv,
       SessionFits, AfterLook, TypeInv, TypeOK
  <2>3. target'[c] \in {target[c], None}
    BY <1>2, <1>0 DEF StopLook, CancelStart, IdleFallback, ForgetDrop, localVars, OrderInv,
       GuildOK, Reserved, TypeInv, TypeOK, OrNone
  <2>4. /\ pc'[c] \in {"fallback", "cancelStart", "drop", "done"}
        /\ pc'[c] \in {"cancelStart", "drop"} => session[g] = None
    BY <1>2 DEF StopLook, CancelStart, IdleFallback, ForgetDrop, StopReturns, Goto, TakesSession,
       OrderInv, SessionFits, AfterLook, TypeInv, TypeOK
  <2>5. \A x \in cancelled' \ cancelled : pc[x] \in {"release", "done"} /\ (x # c => pc'[x] = pc[x])
    <3>1. CASE IdleFallback(c)
      BY <3>1 DEF IdleFallback, Cancel, OrderInv, UncancelledOK, TypeInv, RequestOK, Alone
    <3>2. CASE CancelStart(c)
      <4>1. inFlight[g] = None
        BY <1>0 DEF OrderInv, GuildOK, Reserved, TypeInv, TypeOK, OrNone
      <4>. QED
        BY <3>2, <4>1 DEF CancelStart, Cancel, Aborted
    <3>. QED
      BY <1>2, <3>1, <3>2 DEF StopLook, ForgetDrop
  <2>6. ASSUME NEW d \in Commands, NEW e \in Commands PROVE AloneOK(d, e)'
    BY <2>1, <2>4 DEF OrderInv, AloneOK, TornDown, Busy, Alone, guildOf, StartSteps
  <2>7. ASSUME NEW d \in Commands PROVE SessionFits(d)'
    BY <2>1, <2>2, <2>4 DEF OrderInv, SessionFits, Alone, guildOf, Unmade, AfterLook, Taking,
       StartSteps
  <2>8. ASSUME NEW d \in Commands PROVE TakenOK(d)'
    <3>1. target[d] # None /\ ~IsStart(d) => target[d] # c
      BY DEF OrderInv, TakenOK, StartSteps
    <3>2. CASE d = c
      BY <2>1, <2>2, <2>3, <2>4, <3>1, <3>2 DEF OrderInv, TakenOK, Alone, IsStart, IsHost, IsGuest,
         guildOf, TornDown, TypeInv, TypeOK, OrNone, Taking
    <3>3. CASE d # c
      BY <2>1, <2>2, <3>1, <3>3 DEF OrderInv, TakenOK, Alone, IsStart, IsHost, IsGuest, guildOf,
         TornDown, TypeInv, TypeOK, OrNone
    <3>. QED
      BY <3>2, <3>3
  <2>9. ASSUME NEW d \in Commands PROVE UncancelledOK(d)'
    BY <2>1, <2>4, <2>5 DEF OrderInv, UncancelledOK, Alone, Aimed, StartSteps, TypeInv, RequestOK
  <2>10. ASSUME NEW h \in Guilds PROVE GuildOK(h)'
    <3>1. inFlight[h] # c /\ (inFlight[h] # None => inFlight[h] \in Commands)
      BY RegistryConstants DEF OrderInv, GuildOK, Reserved, TypeInv, TypeOK, OrNone
    <3>. QED
      BY <2>1, <2>2, <3>1 DEF OrderInv, GuildOK, Alone, guildOf, IsStart, IsHost, IsGuest
  <2>. QED
    BY <2>6, <2>7, <2>8, <2>9, <2>10 DEF OrderInv
<1>3. CASE \/ StopCancel(c) \/ StopDetach(c) \/ StopCleanup(c) \/ StopWaited(c)
           \/ StopLeaveOwner(c) \/ StopRemoveHost(c) \/ StopClear(c)
  <2>1. UNCHANGED <<target, down, session, inFlight, watching>>
    BY <1>3 DEF StopCancel, StopDetach, StopCleanup, StopWaited, StopLeaveOwner, StopRemoveHost,
       StopClear, localVars, serviceVars
  <2>2. /\ pc[c] \in AfterLook /\ pc'[c] \in Taking \cup {"clear", "drop", "done"}
        /\ pc'[c] \in Taking => pc[c] \in Taking
        /\ pc'[c] \in {"leaveOwner", "removeHost"} => IsHost(target[c])
    BY <1>3 DEF StopCancel, StopDetach, StopCleanup, StopWaited, StopLeaveOwner, StopRemoveHost,
       StopClear, StopReturns, Goto, TypeInv, TypeOK, AfterLook, Taking, OrderInv, TakenOK
  <2>3. /\ \/ pc[c] \in Taking /\ cancelled' \subseteq cancelled \cup {target[c]}
           \/ cancelled' = cancelled
        /\ \/ pc[c] \in Taking /\ cleaned' \subseteq cleaned \cup {target[c]}
           \/ cleaned' = cleaned
    BY <1>3 DEF StopCancel, StopDetach, StopCleanup, StopWaited, StopLeaveOwner, StopRemoveHost,
       StopClear, Taking, onceVars, SpeakerCleanup, Cancel
  <2>. QED
    BY <2>1, <2>2, <2>3, StopOrderFrame
<1>. QED
  BY <1>1, <1>2, <1>3 DEF StopStep

\* A guest's teardown clears the session only where it is its own.
LEMMA TeardownStepOrder ==
  ASSUME TypeInv, RelayInv, OrderInv, NEW c \in Commands, TeardownStep(c)
  PROVE  OrderInv'
<1>. DEFINE step == down'[c]
<1>1. UNCHANGED <<req, pc, target, inFlight, watching>>
  BY DEF TeardownStep, TeardownWake, TeardownClear, TeardownSpeakers, TeardownWaited,
     TeardownOwner, TeardownDetach, TeardownClose, TeardownUnlist, TeardownForget, localVars,
     serviceVars
<1>2. /\ ~TornDown(c) /\ step \in DownSteps \ {"off", "wait"}
      /\ down' = [down EXCEPT ![c] = step]
      /\ step = "clear" => down[c] = "wait"
  BY DEF TeardownStep, TeardownWake, TeardownClear, TeardownSpeakers, TeardownWaited,
     TeardownOwner, TeardownDetach, TeardownClose, TeardownUnlist, TeardownForget, DownTo,
     TornDown, DownSteps, TypeInv, TypeOK
<1>3. /\ \/ session' = session
         \/ down[c] = "clear" /\ session' = [session EXCEPT ![guildOf(c)] = None]
      /\ step # "clear" => session'[guildOf(c)] = None
  <2>1. guildOf(c) \in Guilds
    BY <1>2 DEF TypeInv, RequestOK, RelayInv, TeardownOK, TornDown
  <2>2. CASE TeardownClear(c)
    BY <2>1, <2>2 DEF TeardownClear, TypeInv, TypeOK
  <2>3. CASE ~TeardownClear(c)
    <3>1. session' = session
      BY <2>3 DEF TeardownStep, TeardownWake, TeardownSpeakers, TeardownWaited, TeardownOwner,
         TeardownDetach, TeardownClose, TeardownUnlist, TeardownForget, serviceVars
    <3>2. step # "clear" => down[c] \notin {"off", "wait", "clear", "done"}
      BY <2>3 DEF TeardownStep, TeardownWake, TeardownSpeakers, TeardownWaited, TeardownOwner,
         TeardownDetach, TeardownClose, TeardownUnlist, TeardownForget, DownTo, TypeInv, TypeOK
    <3>. QED
      BY <3>1, <3>2 DEF OrderInv, SessionFits
  <2>. QED
    BY <2>2, <2>3
<1>4. /\ cancelled' \subseteq cancelled \cup {c}
      /\ cleaned' = cleaned \/ (step # "clear" /\ cleaned' = cleaned \cup {c})
  BY DEF TeardownStep, TeardownWake, TeardownClear, TeardownSpeakers, TeardownWaited,
     TeardownOwner, TeardownDetach, TeardownClose, TeardownUnlist, TeardownForget, onceVars,
     Cancel, SpeakerCleanup, DownTo, TypeInv, TypeOK
<1>. HIDE DEF step
<1>. QED
  BY <1>1, <1>2, <1>3, <1>4, TeardownOrderFrame

\* Every step of an orderly system keeps OrderInv.
LEMMA OrderInvStep ==
  ASSUME Orderly
  PROVE  TypeInv /\ RelayInv /\ LeakInv /\ OrderInv /\ [Next]_vars => OrderInv'
<1>. SUFFICES ASSUME TypeInv, RelayInv, LeakInv, OrderInv, [Next]_vars PROVE OrderInv'
  OBVIOUS
<1>1. ASSUME UNCHANGED <<req, pc, target, session, inFlight, down, cleaned, cancelled, watching>>
      PROVE OrderInv'
  BY <1>1 DEF OrderInv, AloneOK, SessionFits, TakenOK, UncancelledOK, GuildOK, TornDown, Busy,
     guildOf, IsStart, IsHost, IsGuest, Aimed
<1>2. CASE UNCHANGED vars
  BY <1>1, <1>2 DEF vars
<1>3. CASE \E c \in Commands : SpeakerStep(c)
  BY <1>1, <1>3 DEF SpeakerStep, SpeakerLeave, localVars, serviceVars
<1>. QED
  BY <1>2, <1>3, ArriveOrder, StartStepOrder, StopStepOrder, TeardownStepOrder DEF Next

\* Before the first command everything is in order.
LEMMA InitOrderInv == Init => RelayInv /\ LeakInv /\ OrderInv
BY DEF Init, RegistryInit, RelayInv, SessionOK, StopTargetOK, TeardownOK, AttachedOK,
   LeakInv, OwnerOfOpenOK, CleanedOK, StopOrderOK, IsHost, OrderInv, AloneOK, SessionFits, TakenOK,
   UncancelledOK, GuildOK, TornDown, Busy, guildOf, IsStart, IsGuest, Aimed, NoRequest, Unmade,
   AfterLook, Taking, StartSteps, StopSteps

\* In an orderly behaviour a committed raid ends only by a stop that takes it or
\* by its own teardown (stopIdleSession, JoinSession's goroutine).
THEOREM RaidsEndOnlyThemselves == ASSUME Orderly PROVE Spec => OnlyItsOwnEnd
<1>2. TypeInv /\ RelayInv /\ OrderInv /\ [Next]_vars =>
        [\A g \in Guilds :
          session[g] # None /\ session'[g] # session[g] =>
              \/ \E c \in Commands :
                    /\ pc[c] = "look" /\ target'[c] = session[g]
                    /\ Aimed(c) => req[c].arg = session[g]
              \/ down[session[g]] = "clear"]_vars
  <2>. SUFFICES ASSUME TypeInv, RelayInv, OrderInv, Next, NEW g \in Guilds,
                       session[g] # None, session'[g] # session[g],
                       down[session[g]] # "clear"
                PROVE  \E c \in Commands :
                          /\ pc[c] = "look" /\ target'[c] = session[g]
                          /\ Aimed(c) => req[c].arg = session[g]
    OBVIOUS
  <2>. PICK c \in Commands :
          Arrive(c) \/ StartStep(c) \/ StopStep(c) \/ TeardownStep(c) \/ SpeakerStep(c)
    BY DEF Next
  <2>1. ~Arrive(c) /\ ~SpeakerStep(c)
    BY DEF Arrive, IssueStart, IssueJoin, IssueStop, IssueForget, IssueIdleStop, Issue,
       SpeakerStep, SpeakerLeave, serviceVars
  <2>2. ~StartStep(c)
    BY DEF StartStep, StartBegin, Enlist, Snapshot, AttachSpeaker, SpeakersJoined, AttachOwner,
       HostCreate, Build, CtxCheck, Commit, StartPipeline, Release, Undo, UndoWaited, UndoOwner,
       UndoRegistry, serviceVars, TypeInv, TypeOK
  <2>3. ~TeardownStep(c)
    <3>1. TeardownStep(c) => TeardownClear(c)
      BY DEF TeardownStep, TeardownWake, TeardownSpeakers, TeardownWaited, TeardownOwner,
         TeardownDetach, TeardownClose, TeardownUnlist, TeardownForget, serviceVars
    <3>2. ~TeardownClear(c)
      BY DEF TeardownClear, OrderInv, SessionFits, TypeInv, TypeOK
    <3>. QED
      BY <3>1, <3>2
  <2>4. StopLook(c)
    <3>1. StopLook(c) \/ ForgetDrop(c)
      BY <2>1, <2>2, <2>3 DEF StopStep, CancelStart, IdleFallback, StopCancel, StopDetach,
         StopCleanup, StopWaited, StopLeaveOwner, StopRemoveHost, StopClear, serviceVars
    <3>2. ~ForgetDrop(c)
      BY DEF ForgetDrop, OrderInv, SessionFits, AfterLook, TypeInv, TypeOK
    <3>. QED
      BY <3>1, <3>2
  <2>5. /\ pc[c] = "look" /\ TakesSession(c) /\ guildOf(c) = g
        /\ target'[c] = session[guildOf(c)]
    BY <2>4 DEF StopLook, TypeInv, TypeOK
  <2>. QED
    BY <2>5 DEF TakesSession
<1>. QED
  BY <1>2, InitOrderInv, RequestsInv, RelayInvStep, LeakInvStep, OrderInvStep, PTL
     DEF Spec, OnlyItsOwnEnd

-----------------------------------------------------------------------------
(* Commands that do not overlap: every step keeps RegistryInv *)

\* Where a start keeps the relay session it has created.
Making == {"build", "check", "commit", "undo", "undoWait", "undoOwner", "undoRegistry"}

\* Where a guest's start is in the registry.
Listed == StartSteps \ {"begin", "enlist", "abort", "release"}

\* Nobody else is at work in the guild of a relay session that lives.
LEMMA LiveIsAlone ==
  ASSUME TypeInv, RelayInv, OrderInv, RegistryInv,
         NEW s \in Commands, hostOf[s] # None, s \notin done,
         NEW y \in Commands, y # s, guildOf(y) = guildOf(s)
  PROVE  pc[y] \notin Unmade /\ TornDown(y)
<1>1. IsHost(s) /\ down[s] = "off"
  BY DEF RegistryInv, CreatedOK, RelayInv, TeardownOK, IsHost, IsGuest
<1>2. CASE pc[s] \in Making
  <2>1. ~Busy(y)
    BY <1>2 DEF OrderInv, AloneOK, Making, StartSteps
  <2>. QED
    BY <2>1 DEF Busy, TornDown, Unmade, StartSteps
<1>3. CASE Up(s)
  <2>1. session[guildOf(y)] = s
    BY <1>3 DEF Up
  <2>2. pc[y] \notin Unmade
    BY <2>1, RegistryConstants DEF OrderInv, SessionFits
  <2>3. TornDown(y)
    BY <2>1, RegistryConstants DEF OrderInv, SessionFits, TornDown
  <2>. QED
    BY <2>2, <2>3
<1>4. ASSUME NEW d \in Commands, pc[d] \in Taking, target[d] = s
      PROVE  pc[y] \notin Unmade /\ TornDown(y)
  <2>1. guildOf(d) = guildOf(y) /\ TornDown(y)
    BY <1>1, <1>4 DEF OrderInv, TakenOK
  <2>2. pc[y] \notin StartSteps
    BY <1>4, <2>1 DEF OrderInv, AloneOK, Busy, Taking, StartSteps
  <2>. QED
    BY <2>1, <2>2 DEF Unmade
<1>. QED
  BY <1>2, <1>3, <1>4 DEF RegistryInv, LiveOK, KeptBy, Making

\* A step that leaves the registry's maps alone.
LEMMA RegistryFrame ==
  ASSUME TypeInv, RegistryInv, UNCHANGED <<req, sessions, byGuild, hostOf, done>>,
         \A s \in Commands : hostOf[s] # None /\ s \notin done /\ KeptBy(s) => KeptBy(s)',
         \A s \in Commands : IsHost(s) /\ Up(s)' => Up(s) \/ pc[s] = "commit",
         \A s \in Commands : pc'[s] \in BeforeCreate => pc[s] \in BeforeCreate,
         \A s \in Commands : pc'[s] \in {"create", "check"} => IsHost(s),
         \A s \in Commands : IsHost(s) /\ pc'[s] \in {"build", "check", "commit"} =>
                                 pc[s] \in {"build", "check", "commit"},
         \A g \in Guilds : Enlisted(g) => Enlisted(g)',
         \A s \in Commands : GuestOK(s)'
  PROVE  RegistryInv'
<1>1. ASSUME NEW s \in Commands PROVE CreatedOK(s)'
  BY DEF RegistryInv, CreatedOK, IsHost, guildOf
<1>2. ASSUME NEW s \in Commands PROVE LiveOK(s)'
  BY DEF RegistryInv, LiveOK
<1>3. ASSUME NEW g \in Guilds PROVE EntryOK(g)'
  BY DEF RegistryInv, EntryOK
<1>. QED
  BY <1>1, <1>2, <1>3 DEF RegistryInv

\* What a step of a start does to the commands around it: it commits at most
\* itself, and where its guild has no session.
StartEffect(c) ==
    /\ \A g \in Guilds :
          \/ session'[g] = session[g]
          \/ session[g] = None /\ session'[g] = c /\ g = guildOf(c) /\ pc[c] = "commit"
    /\ \A d \in Commands : d # c => down'[d] = down[d]
    /\ cancelled \subseteq cancelled'

\* What it does to a relay session or a guest raid that it is itself.
StartPath(c) ==
    /\ pc[c] \in StartSteps /\ pc'[c] \in StartSteps \cup {"done"}
    /\ pc[c] \in Making /\ hostOf[c] # None => pc'[c] \in Making \/ Up(c)'
    /\ pc'[c] \in BeforeCreate => pc[c] \in BeforeCreate
    /\ pc'[c] \in {"create", "check"} => IsHost(c)
    /\ IsHost(c) /\ pc'[c] \in {"build", "check", "commit"} =>
          pc[c] \in {"build", "check", "commit"}
    /\ pc[c] \in Listed => pc'[c] \in Listed \/ down'[c] = "wait" \/ IsHost(c)
    /\ down'[c] = down[c] \/ (down'[c] = "wait" /\ pc[c] = "start" /\ pc'[c] = "release")
    /\ pc'[c] \in Listed \ {"undoRegistry"} /\ IsGuest(c) => pc[c] \in Listed \ {"undoRegistry"}
    /\ target'[c] = target[c]

\* A step of a start that leaves the registry's maps alone.
LEMMA StartRegistryFrame ==
  ASSUME TypeInv, RelayInv, OrderInv, RegistryInv, NEW c \in Commands, Alone(c),
         IsStart(c), StartEffect(c), StartPath(c),
         UNCHANGED <<sessions, byGuild, hostOf, done>>
  PROVE  RegistryInv'
<1>. pc[c] \notin Taking /\ pc'[c] \notin Taking \cup {"idle"}
  BY DEF StartPath, StartSteps, Taking
<1>1. ASSUME NEW s \in Commands, Up(s) PROVE Up(s)'
  BY <1>1, RegistryConstants DEF Up, StartEffect, Alone, guildOf
<1>2. ASSUME NEW s \in Commands, hostOf[s] # None, s \notin done, KeptBy(s) PROVE KeptBy(s)'
  <2>1. CASE pc[s] \in Making
    BY <1>2, <2>1 DEF KeptBy, Making, StartPath, Alone
  <2>2. CASE \E d \in Commands : pc[d] \in Taking /\ target[d] = s
    BY <2>2 DEF KeptBy, Alone
  <2>. QED
    BY <1>1, <1>2, <2>1, <2>2 DEF KeptBy, Making
<1>3. ASSUME NEW s \in Commands, Up(s)' PROVE Up(s) \/ pc[s] = "commit"
  BY <1>3 DEF Up, StartEffect, Alone, guildOf
<1>4. ASSUME NEW s \in Commands
      PROVE  /\ pc'[s] \in BeforeCreate => pc[s] \in BeforeCreate
             /\ pc'[s] \in {"create", "check"} => IsHost(s)
             /\ IsHost(s) /\ pc'[s] \in {"build", "check", "commit"} =>
                    pc[s] \in {"build", "check", "commit"}
  BY DEF StartPath, Alone, RegistryInv, CreatedOK
<1>5. ASSUME NEW g \in Guilds, Enlisted(g) PROVE Enlisted(g)'
  <2>1. PICK e \in Commands : /\ IsGuest(e) /\ guildOf(e) = g
                              /\ pc[e] \in Listed \/ down[e] \notin {"off", "forget", "done"}
    BY <1>5 DEF Enlisted, Listed
  <2>2. /\ IsGuest(e)' /\ guildOf(e)' = g
        /\ pc'[e] \in Listed \/ down'[e] \notin {"off", "forget", "done"}
    BY <2>1 DEF StartPath, StartEffect, Alone, IsGuest, IsHost, guildOf
  <2>. QED
    BY <2>2 DEF Enlisted, Listed
<1>6. ASSUME NEW d \in Commands PROVE GuestOK(d)'
  <2>1. ASSUME IsGuest(d), pc'[d] \in Listed \ {"undoRegistry"} \/ down'[d] # "off"
        PROVE  target'[d] # None /\ hostOf[target'[d]] # None
    <3>1. pc[d] \in Listed \ {"undoRegistry"} \/ down[d] # "off"
      BY <2>1 DEF StartPath, StartEffect, Alone, Listed, StartSteps
    <3>. QED
      BY <2>1, <3>1 DEF RegistryInv, GuestOK, Listed, Alone, StartPath
  <2>2. ASSUME down'[d] = "wait", d \notin cancelled'
        PROVE  Up(d)' \/ \E e \in Commands : pc'[e] = "cancel" /\ target'[e] = d
    <3>1. CASE down[d] = "wait"
      <4>1. Up(d) \/ \E e \in Commands : pc[e] = "cancel" /\ target[e] = d
        BY <2>2, <3>1 DEF RegistryInv, GuestOK, StartEffect
      <4>. QED
        BY <1>1, <4>1 DEF Alone, Taking
    <3>2. CASE down[d] # "wait"
      <4>1. d = c /\ pc[d] = "start"
        BY <2>2, <3>2 DEF StartPath, StartEffect
      <4>2. Up(d)
        BY <4>1 DEF OrderInv, SessionFits, Up, TypeInv, RequestOK
      <4>. QED
        BY <1>1, <4>2
    <3>. QED
      BY <3>1, <3>2
  <2>. QED
    BY <2>1, <2>2 DEF GuestOK, Listed, Alone, IsGuest
<1>. QED
  BY <1>2, <1>3, <1>4, <1>5, <1>6, RegistryFrame DEF Alone

\* Manager.RemoveHost, called for a raid of the guild that no other raid of the
\* guild can follow yet, closes at most that raid's own relay session.
LEMMA RemoveHostRegistry ==
  ASSUME TypeInv, RelayInv, OrderInv, RegistryInv, NEW c \in Commands, Alone(c),
         NEW g \in Guilds, guildOf(c) = g, RemoveHost(g), ~IsGuest(c),
         pc[c] \in {"undoRegistry", "removeHost"}, pc'[c] \in {"abort", "clear"},
         UNCHANGED <<session, down, cancelled, target>>, session[g] = None,
         \A e \in Commands : guildOf(e) = g => TornDown(e) /\ (e # c => pc[e] \notin StartSteps),
         NEW x \in Commands, IsHost(x), guildOf(x) = g,
         \/ pc[c] = "undoRegistry" /\ x = c
         \/ pc[c] = "removeHost" /\ x = target[c]
  PROVE  RegistryInv'
<1>. DEFINE s0 == byGuild[g]
<1>1. ASSUME NEW s \in Commands PROVE Up(s)' <=> Up(s)
  BY DEF Up, Alone, guildOf
<1>2. ASSUME NEW s \in Commands, KeptBy(s), s # x PROVE KeptBy(s)'
  <2>1. CASE pc[s] \in Making
    <3>1. s # c
      BY <1>2, <2>1 DEF Making
    <3>. QED
      BY <2>1, <3>1 DEF KeptBy, Making, Alone
  <2>2. ASSUME NEW d \in Commands, pc[d] \in Taking, target[d] = s PROVE KeptBy(s)'
    <3>1. d # c
      BY <1>2, <2>2 DEF Taking
    <3>. QED
      BY <2>2, <3>1 DEF KeptBy, Alone
  <2>. QED
    BY <1>1, <1>2, <2>1, <2>2 DEF KeptBy, Making
<1>3. ASSUME NEW e \in Commands
      PROVE  /\ pc'[e] \in BeforeCreate => pc[e] \in BeforeCreate
             /\ pc'[e] \in {"create", "check", "build", "commit"} => pc[e] = pc'[e]
             /\ pc'[e] \in Listed /\ IsGuest(e) => pc[e] = pc'[e]
  BY DEF Alone, BeforeCreate, Listed, StartSteps
<1>4. ASSUME NEW h \in Guilds, Enlisted(h) PROVE Enlisted(h)'
  <2>1. PICK e \in Commands : /\ IsGuest(e) /\ guildOf(e) = h
                              /\ pc[e] \in Listed \/ down[e] \notin {"off", "forget", "done"}
    BY <1>4 DEF Enlisted, Listed
  <2>. QED
    BY <2>1 DEF Enlisted, Listed, Alone, IsGuest, guildOf
<1>5. ASSUME NEW d \in Commands PROVE GuestOK(d)'
  <2>1. hostOf' = hostOf
    BY DEF RemoveHost, registryVars
  <2>. QED
    BY <1>1, <1>3, <2>1 DEF RegistryInv, GuestOK, Listed, Alone, IsGuest
<1>6. ~Enlisted(g)
  BY DEF Enlisted, TornDown
<1>7. CASE s0 = None
  <2>1. UNCHANGED <<sessions, byGuild, hostOf, done>>
    BY <1>7 DEF RemoveHost, registryVars
  <2>2. hostOf[x] # None /\ x \notin done => FALSE
    BY <1>7, RegistryConstants DEF RegistryInv, LiveOK, CreatedOK
  <2>. QED
    BY <1>1, <1>2, <1>3, <1>4, <1>5, <2>1, <2>2, RegistryFrame DEF Alone, RegistryInv, CreatedOK
<1>8. CASE s0 # None
  <2>1. s0 \in Commands /\ hostOf[s0] = g /\ s0 \notin done /\ IsHost(s0) /\ guildOf(s0) = g
    BY <1>6, <1>8 DEF RegistryInv, EntryOK, CreatedOK, TypeInv, TypeOK, RegistryTypeOK, OrNone
  <2>2. /\ done' = done \cup {s0} /\ hostOf' = hostOf
        /\ sessions' = [sessions EXCEPT ![g] = None]
        /\ byGuild' = [k \in Guilds |->
                         IF k \in GuestGuildIDs(s0) \cup {g} THEN None ELSE byGuild[k]]
    BY <1>8, <2>1 DEF RemoveHost
  <2>. HIDE DEF s0
  <2>3. ASSUME NEW s \in Commands, hostOf[s] # None, s \notin done, s # s0
        PROVE  hostOf[s] \in Guilds \ (GuestGuildIDs(s0) \cup {g})
    <3>1. hostOf[s] \in Guilds /\ hostOf[s] = guildOf(s) /\ IsHost(s) /\ byGuild[hostOf[s]] = s
      BY <2>3 DEF RegistryInv, CreatedOK, LiveOK, TypeInv, TypeOK, RegistryTypeOK, OrNone
    <3>2. hostOf[s] # g
      BY <2>3, <3>1 DEF s0
    <3>3. ASSUME hostOf[s] \in GuestGuildIDs(s0) PROVE FALSE
      <4>. DEFINE y == outs[s0][hostOf[s]]
      <4>1. y # None /\ hostOf[s] # hostOf[s0] /\ y \in Commands
        BY <2>1, <3>1, <3>3 DEF GuestGuildIDs, TypeInv, TypeOK, RegistryTypeOK, OrNone
      <4>2. AttachedOK(s0, hostOf[s])
        BY <2>1, <3>1 DEF RelayInv
      <4>3. guildOf(y) = guildOf(s) /\ ~TornDown(y) /\ y # s
        BY <2>1, <3>1, <4>1, <4>2 DEF AttachedOK, TornDown, IsHost, IsGuest
      <4>. QED
        BY <2>3, <4>1, <4>3, LiveIsAlone
    <3>. QED
      BY <3>1, <3>2, <3>3
  <2>4. ~Up(s0) /\ pc'[s0] \notin {"build", "check", "commit"}
    BY <2>1, RegistryConstants DEF Up, Alone, StartSteps
  <2>5. ASSUME NEW s \in Commands PROVE CreatedOK(s)'
    BY <1>1, <1>3, <2>1, <2>2, <2>4, RegistryConstants DEF RegistryInv, CreatedOK, IsHost,
       guildOf, Alone
  <2>6. ASSUME NEW s \in Commands PROVE LiveOK(s)'
    <3>. SUFFICES ASSUME hostOf[s] # None, s \notin done, s # s0
                  PROVE  KeptBy(s)' /\ byGuild'[hostOf[s]] = s /\ sessions'[hostOf[s]] = s
      BY <2>2 DEF LiveOK
    <3>1. KeptBy(s) /\ byGuild[hostOf[s]] = s /\ sessions[hostOf[s]] = s
      BY DEF RegistryInv, LiveOK
    <3>2. s # x
      BY <2>3 DEF RegistryInv, CreatedOK
    <3>. QED
      BY <1>2, <2>2, <2>3, <3>1, <3>2 DEF TypeInv, TypeOK, RegistryTypeOK
  <2>7. ASSUME NEW h \in Guilds PROVE EntryOK(h)'
    <3>1. /\ sessions'[h] \in {sessions[h], None} /\ byGuild'[h] \in {byGuild[h], None}
          /\ byGuild'[g] = None
      BY <2>2 DEF TypeInv, TypeOK, RegistryTypeOK
    <3>. QED
      BY <1>4, <2>1, <2>2, <3>1 DEF RegistryInv, EntryOK
  <2>. QED
    BY <1>5, <2>5, <2>6, <2>7 DEF RegistryInv
<1>. QED
  BY <1>7, <1>8

\* Every step of a start commits at most its own raid.
LEMMA StartStepEffect ==
  ASSUME TypeInv, NEW c \in Commands, StartStep(c)
  PROVE  StartEffect(c) /\ pc[c] \in StartSteps /\ pc'[c] \in StartSteps \cup {"done"}
<1>1. \A d \in Commands : d # c => down'[d] = down[d]
  BY DEF StartStep, StartBegin, Enlist, Snapshot, AttachSpeaker,
     SpeakersJoined, AttachOwner, HostCreate, Build, CtxCheck, Commit, StartPipeline, Release,
     Undo, UndoWaited, UndoOwner, UndoRegistry, TypeInv, TypeOK
<1>2. cancelled \subseteq cancelled'
  BY DEF StartStep, StartBegin, Enlist, Snapshot, AttachSpeaker,
     SpeakersJoined, AttachOwner, HostCreate, Build, CtxCheck, Commit, StartPipeline, Release,
     Undo, UndoWaited, UndoOwner, UndoRegistry, Cancel
<1>3. pc[c] \in StartSteps /\ pc'[c] \in StartSteps \cup {"done"}
  BY DEF StartStep, StartBegin, Enlist, Snapshot, AttachSpeaker,
     SpeakersJoined, AttachOwner, HostCreate, Build, CtxCheck, Commit, StartPipeline, Release,
     Undo, UndoWaited, UndoOwner, UndoRegistry, Goto, Bail, StartSteps, TypeInv, TypeOK
<1>4. CASE Commit(c)
  BY <1>1, <1>2, <1>3, <1>4 DEF StartEffect, Commit, TypeInv, TypeOK, RequestOK
<1>5. CASE ~Commit(c)
  <2>1. session' = session
    BY <1>5 DEF StartStep, StartBegin, Enlist, Snapshot, AttachSpeaker,
       SpeakersJoined, AttachOwner, HostCreate, Build, CtxCheck, StartPipeline, Release,
       Undo, UndoWaited, UndoOwner, UndoRegistry, serviceVars
  <2>. QED
    BY <1>1, <1>2, <1>3, <2>1 DEF StartEffect
<1>. QED
  BY <1>4, <1>5

\* A start's steps keep RegistryInv.
LEMMA StartStepRegistry ==
  ASSUME TypeInv, RelayInv, OrderInv, RegistryInv, NEW c \in Commands, StartStep(c)
  PROVE  RegistryInv'
<1>. Alone(c)
  BY StartStepRequest
<1>. StartEffect(c) /\ pc[c] \in StartSteps /\ pc'[c] \in StartSteps \cup {"done"}
  BY StartStepEffect
<1>. DEFINE g == guildOf(c)
<1>. IsStart(c) /\ g \in Guilds /\ pc'[c] \notin Taking /\ pc[c] \notin Taking
  BY DEF TypeInv, RequestOK, StartSteps, Taking
<1>0. ASSUME NEW s \in Commands, pc'[s] = pc[s], session' = session, KeptBy(s) PROVE KeptBy(s)'
  BY <1>0 DEF KeptBy, Up, Alone, guildOf
<1>1. ASSUME NEW code \in Guilds, Enlist(c), CanJoin(code, g), Join(code, g),
             pc'[c] \in {"snapshot", "undoRegistry"},
             pc'[c] = "snapshot" => target'[c] = sessions[code]
      PROVE  RegistryInv'
  <2>. /\ pc[c] = "enlist" /\ IsGuest(c) /\ ~IsHost(c) /\ UNCHANGED <<down, session, cancelled>>
       /\ byGuild[g] = None /\ sessions[code] # None /\ hostOf[sessions[code]] # None
       /\ byGuild' = [byGuild EXCEPT ![g] = sessions[code]]
       /\ UNCHANGED <<sessions, hostOf, done>>
    BY <1>1 DEF Enlist, CanJoin, Join, TypeInv, RequestOK, IsGuest, IsHost, serviceVars,
       RegistryInv, EntryOK
  <2>1. ASSUME NEW s \in Commands PROVE CreatedOK(s)'
    BY <1>1 DEF RegistryInv, CreatedOK, Alone, IsHost, Up, guildOf, BeforeCreate
  <2>2. ASSUME NEW s \in Commands PROVE LiveOK(s)'
    <3>. SUFFICES ASSUME hostOf[s] # None, s \notin done
                  PROVE  KeptBy(s)' /\ byGuild'[hostOf[s]] = s /\ sessions'[hostOf[s]] = s
      BY DEF LiveOK
    <3>1. KeptBy(s) /\ byGuild[hostOf[s]] = s /\ sessions[hostOf[s]] = s /\ s # c
      BY DEF RegistryInv, LiveOK, CreatedOK
    <3>2. hostOf[s] # g
      BY <3>1, RegistryConstants
    <3>. QED
      BY <1>0, <3>1, <3>2 DEF Alone, TypeInv, TypeOK, RegistryTypeOK
  <2>3. ASSUME NEW h \in Guilds PROVE EntryOK(h)'
    <3>1. CASE h = g
      <4>1. Enlisted(h)'
        BY <1>1, <3>1 DEF Enlisted, StartSteps, Alone, IsGuest, guildOf
      <4>. QED
        BY <3>1, <4>1 DEF EntryOK, RegistryInv, TypeInv, TypeOK, RegistryTypeOK
    <3>2. CASE h # g
      <4>1. Enlisted(h) => Enlisted(h)'
        BY <3>2 DEF Enlisted, Alone, IsGuest, guildOf
      <4>. QED
        BY <3>2, <4>1 DEF EntryOK, RegistryInv, TypeInv, TypeOK, RegistryTypeOK
    <3>. QED
      BY <3>1, <3>2
  <2>4. ASSUME NEW d \in Commands PROVE GuestOK(d)'
    <3>1. CASE d = c
      BY <1>1, <3>1 DEF GuestOK, RelayInv, TeardownOK
    <3>2. CASE d # c
      BY <3>2 DEF RegistryInv, GuestOK, Alone, IsGuest, guildOf, Up
    <3>. QED
      BY <3>1, <3>2
  <2>. QED
    BY <2>1, <2>2, <2>3, <2>4 DEF RegistryInv
<1>2. CASE HostCreate(c)
  <2>. /\ pc[c] = "create" /\ pc'[c] = "build" /\ IsHost(c) /\ hostOf[c] = None /\ c \notin done
       /\ UNCHANGED <<down, session, cancelled, target, done>>
       /\ sessions' = [sessions EXCEPT ![g] = c] /\ byGuild' = [byGuild EXCEPT ![g] = c]
       /\ hostOf' = [hostOf EXCEPT ![c] = g]
    BY <1>2 DEF HostCreate, Create, Goto, localVars, serviceVars, TypeInv, TypeOK, RegistryInv,
       CreatedOK, BeforeCreate
  <2>0. \A d \in Commands : hostOf'[d] = IF d = c THEN g ELSE hostOf[d]
    BY DEF TypeInv, TypeOK, RegistryTypeOK
  <2>1. ASSUME NEW s \in Commands PROVE CreatedOK(s)'
    BY <2>0, RegistryConstants DEF RegistryInv, CreatedOK, Alone, IsHost, Up, guildOf, BeforeCreate
  <2>2. ASSUME NEW s \in Commands PROVE LiveOK(s)'
    <3>1. CASE s = c
      BY <2>0, <3>1 DEF LiveOK, KeptBy, TypeInv, TypeOK, RegistryTypeOK
    <3>2. CASE s # c /\ hostOf[s] # None /\ s \notin done
      <4>1. KeptBy(s) /\ byGuild[hostOf[s]] = s /\ sessions[hostOf[s]] = s /\ hostOf[s] = guildOf(s)
        BY <3>2 DEF RegistryInv, LiveOK, CreatedOK
      <4>2. hostOf[s] # g
        BY <3>2, <4>1, LiveIsAlone DEF Unmade, StartSteps
      <4>. QED
        BY <1>0, <2>0, <3>2, <4>1, <4>2 DEF LiveOK, Alone, TypeInv, TypeOK, RegistryTypeOK
    <3>. QED
      BY <2>0, <3>1, <3>2 DEF LiveOK
  <2>3. ASSUME NEW h \in Guilds PROVE EntryOK(h)'
    <3>1. Enlisted(h) => Enlisted(h)'
      BY DEF Enlisted, Alone, IsGuest, IsHost, guildOf
    <3>2. CASE h = g
      BY <2>0, <3>2, RegistryConstants DEF EntryOK, TypeInv, TypeOK, RegistryTypeOK
    <3>3. CASE h # g
      <4>1. /\ sessions[h] # None => sessions[h] \in Commands /\ hostOf'[sessions[h]] # None
            /\ byGuild[h] # None => byGuild[h] \in Commands /\ byGuild[h] # c
        BY <2>0, RegistryConstants DEF RegistryInv, EntryOK, TypeInv, TypeOK, RegistryTypeOK, OrNone
      <4>. QED
        BY <2>0, <3>1, <3>3, <4>1 DEF EntryOK, RegistryInv, TypeInv, TypeOK, RegistryTypeOK
    <3>. QED
      BY <3>2, <3>3
  <2>4. ASSUME NEW d \in Commands PROVE GuestOK(d)'
    <3>1. CASE d = c
      BY <3>1 DEF GuestOK, RelayInv, TeardownOK, Alone, IsGuest, IsHost
    <3>2. CASE d # c
      <4>1. target[d] # None /\ hostOf[target[d]] # None => hostOf'[target[d]] # None
        BY <2>0, RegistryConstants DEF TypeInv, TypeOK, OrNone
      <4>. QED
        BY <3>2, <4>1 DEF RegistryInv, GuestOK, Alone, IsGuest, guildOf, Up
    <3>. QED
      BY <3>1, <3>2
  <2>. QED
    BY <2>1, <2>2, <2>3, <2>4 DEF RegistryInv
<1>3. CASE UndoRegistry(c) /\ IsHost(c)
  <2>1. /\ pc[c] = "undoRegistry" /\ pc'[c] = "abort" /\ RemoveHost(g)
        /\ UNCHANGED <<down, session, cancelled, target>>
    BY <1>3 DEF UndoRegistry, Goto, localVars, serviceVars, TypeInv, TypeOK
  <2>2. session[g] = None
    BY <2>1 DEF OrderInv, SessionFits, Unmade, StartSteps
  <2>3. ASSUME NEW e \in Commands, guildOf(e) = g
        PROVE  TornDown(e) /\ (e # c => pc[e] \notin StartSteps)
    <3>1. CASE e = c
      BY <2>1, <3>1 DEF TornDown, RelayInv, TeardownOK
    <3>2. CASE e # c
      BY <2>3, <3>2 DEF OrderInv, AloneOK, Busy, TornDown, StartSteps
    <3>. QED
      BY <3>1, <3>2
  <2>. QED
    BY <1>3, <2>1, <2>2, <2>3, RemoveHostRegistry DEF IsHost, IsGuest
<1>4. CASE UndoRegistry(c) /\ ~IsHost(c)
  <2>. /\ pc[c] = "undoRegistry" /\ pc'[c] = "abort" /\ IsGuest(c)
       /\ UNCHANGED <<down, session, cancelled, target, sessions, hostOf, done>>
       /\ byGuild' = [byGuild EXCEPT ![g] = None]
    BY <1>4 DEF UndoRegistry, RemoveGuest, Goto, localVars, serviceVars, TypeInv, TypeOK, IsStart
  <2>1. ASSUME NEW s \in Commands PROVE CreatedOK(s)'
    BY DEF RegistryInv, CreatedOK, Alone, IsHost, Up, guildOf, BeforeCreate
  <2>2. ASSUME NEW s \in Commands PROVE LiveOK(s)'
    <3>. SUFFICES ASSUME hostOf[s] # None, s \notin done
                  PROVE  KeptBy(s)' /\ byGuild'[hostOf[s]] = s /\ sessions'[hostOf[s]] = s
      BY DEF LiveOK
    <3>1. /\ KeptBy(s) /\ byGuild[hostOf[s]] = s /\ sessions[hostOf[s]] = s /\ s # c
          /\ hostOf[s] = guildOf(s)
      BY <1>4 DEF RegistryInv, LiveOK, CreatedOK
    <3>2. hostOf[s] # g
      BY <3>1, LiveIsAlone DEF Unmade, StartSteps
    <3>. QED
      BY <1>0, <3>1, <3>2 DEF Alone, TypeInv, TypeOK, RegistryTypeOK
  <2>3. ASSUME NEW h \in Guilds PROVE EntryOK(h)'
    <3>1. CASE h = g
      BY <3>1 DEF EntryOK, RegistryInv, TypeInv, TypeOK, RegistryTypeOK
    <3>2. CASE h # g
      <4>1. Enlisted(h) => Enlisted(h)'
        BY <3>2 DEF Enlisted, Alone, IsGuest, guildOf
      <4>. QED
        BY <3>2, <4>1 DEF EntryOK, RegistryInv, TypeInv, TypeOK, RegistryTypeOK
    <3>. QED
      BY <3>1, <3>2
  <2>4. ASSUME NEW d \in Commands PROVE GuestOK(d)'
    <3>1. CASE d = c
      BY <3>1 DEF GuestOK, RelayInv, TeardownOK
    <3>2. CASE d # c
      BY <3>2 DEF RegistryInv, GuestOK, Alone, IsGuest, guildOf, Up
    <3>. QED
      BY <3>1, <3>2
  <2>. QED
    BY <2>1, <2>2, <2>3, <2>4 DEF RegistryInv
<1>5. ASSUME UNCHANGED <<sessions, byGuild, hostOf, done>>, StartPath(c) PROVE RegistryInv'
  BY <1>5, StartRegistryFrame
<1>6. CASE Enlist(c)
  <2>1. CASE byGuild' = byGuild /\ pc'[c] = "abort"
    <3>1. UNCHANGED <<sessions, byGuild, hostOf, done, down, target>>
      BY <1>6, <2>1, <1>1 DEF Enlist, Goto, TypeInv, TypeOK, registryVars, Join
    <3>2. StartPath(c)
      BY <1>6, <2>1, <3>1 DEF Enlist, StartPath, Making, Listed, BeforeCreate
    <3>. QED
      BY <3>1, <3>2, <1>5
  <2>. QED
    BY <1>6, <1>1, <2>1 DEF Enlist, Goto, TypeInv, TypeOK, RequestOK, registryVars
<1>7. CASE \/ StartBegin(c) \/ Snapshot(c) \/ SpeakersJoined(c)
           \/ \E b \in Speakers : AttachSpeaker(c, b)
           \/ AttachOwner(c)
  <2>1. UNCHANGED <<sessions, byGuild, hostOf, done, down, target>>
    BY <1>7 DEF StartBegin, Snapshot, AttachSpeaker, SpeakersJoined, AttachOwner, registryVars,
       localVars
  <2>2. StartPath(c)
    BY <1>7, <2>1 DEF StartBegin, Snapshot, AttachSpeaker, SpeakersJoined, AttachOwner,
       Goto, Bail, StartPath, Making, Listed, BeforeCreate, StartSteps, TypeInv, TypeOK, IsStart,
       IsHost, IsGuest
  <2>. QED
    BY <2>1, <2>2, <1>5
<1>8. CASE \/ Build(c) \/ CtxCheck(c) \/ Commit(c) \/ Release(c)
           \/ Undo(c) \/ UndoWaited(c) \/ UndoOwner(c)
  <2>1. UNCHANGED <<sessions, byGuild, hostOf, done, down, target>>
    BY <1>8 DEF Build, CtxCheck, Commit, Release, Undo, UndoWaited, UndoOwner, registryVars,
       localVars
  <2>2. pc[c] = "commit" /\ pc'[c] = "start" => Up(c)'
    BY <1>8 DEF Build, CtxCheck, Commit, Release, Undo, UndoWaited, UndoOwner, Goto, Up, Alone,
       guildOf, TypeInv, TypeOK
  <2>3. StartPath(c)
    BY <1>8, <2>1, <2>2 DEF Build, CtxCheck, Commit, Release, Undo, UndoWaited, UndoOwner,
       Goto, StartPath, Making, Listed, BeforeCreate, StartSteps, TypeInv, TypeOK, IsStart,
       IsHost, IsGuest
  <2>. QED
    BY <2>1, <2>3, <1>5
<1>9. CASE StartPipeline(c)
  <2>1. UNCHANGED <<sessions, byGuild, hostOf, done, target>>
    BY <1>9 DEF StartPipeline, RegisterHostInputs, AddGuild, registryVars, localVars
  <2>2. StartPath(c)
    BY <1>9, <2>1 DEF StartPipeline, Goto, StartPath, Making, Listed, BeforeCreate, StartSteps,
       TypeInv, TypeOK, IsHost, IsGuest
  <2>. QED
    BY <2>1, <2>2, <1>5
<1>. QED
  BY <1>2, <1>3, <1>4, <1>6, <1>7, <1>8, <1>9 DEF StartStep

\* A stop keeps RegistryInv: the relay session it ends is its raid's, and lives
\* until RemoveHost.
LEMMA StopStepRegistry ==
  ASSUME TypeInv, RelayInv, OrderInv, RegistryInv, NEW c \in Commands, StopStep(c)
  PROVE  RegistryInv'
<1>. Alone(c)
  BY StopStepRequest
<1>. DEFINE g == guildOf(c)
<1>. /\ pc[c] \in StopSteps /\ ~IsHost(c) /\ ~IsGuest(c) /\ g \in Guilds
     /\ pc'[c] \in StopSteps \cup {"done"}
  <2>1. pc[c] \in StopSteps /\ pc'[c] \in StopSteps \cup {"done"}
    BY DEF StopStep, StopLook, CancelStart, IdleFallback, StopCancel, StopDetach, StopCleanup,
       StopWaited, StopLeaveOwner, StopRemoveHost, StopClear, ForgetDrop, StopReturns, Goto,
       StopSteps, TypeInv, TypeOK
  <2>. QED
    BY <2>1 DEF OrderInv, TakenOK, IsStart, TypeInv, RequestOK, StopSteps
<1>. down' = down /\ cancelled \subseteq cancelled'
  BY DEF StopStep, StopLook, CancelStart, IdleFallback, StopCancel, StopDetach, StopCleanup,
     StopWaited, StopLeaveOwner, StopRemoveHost, StopClear, ForgetDrop, Cancel
<1>1. CASE StopRemoveHost(c)
  <2>. DEFINE x == target[c]
  <2>1. /\ pc[c] = "removeHost" /\ pc'[c] = "clear" /\ RemoveHost(g)
        /\ UNCHANGED <<session, cancelled, target>>
    BY <1>1 DEF StopRemoveHost, Goto, localVars, serviceVars, TypeInv, TypeOK
  <2>2. x \in Commands /\ guildOf(x) = g /\ IsHost(x)
    BY <2>1 DEF OrderInv, TakenOK, Taking
  <2>3. session[g] = None
    BY <2>1 DEF OrderInv, SessionFits, AfterLook, Taking
  <2>4. ASSUME NEW e \in Commands, guildOf(e) = g PROVE TornDown(e) /\ pc[e] \notin StartSteps
    BY <2>1, <2>2, <2>4 DEF OrderInv, TakenOK, AloneOK, Busy, Taking, StartSteps
  <2>. HIDE DEF x
  <2>. QED
    BY <2>1, <2>2, <2>3, <2>4, RemoveHostRegistry DEF x
<1>2. CASE ~StopRemoveHost(c)
  <2>1. UNCHANGED <<req, sessions, byGuild, hostOf, done>>
    BY <1>2 DEF Alone, StopStep, StopLook, CancelStart, IdleFallback, StopCancel, StopDetach,
       StopCleanup, StopWaited, StopLeaveOwner, StopClear, ForgetDrop, registryVars, RemoveGuild
  <2>2. \/ session' = session
        \/ /\ pc[c] = "look" /\ pc'[c] = "cancel" /\ target'[c] = session[g] /\ session[g] # None
           /\ session' = [session EXCEPT ![g] = None]
    <3>1. CASE ForgetDrop(c)
      BY <3>1 DEF ForgetDrop, OrderInv, SessionFits, AfterLook, TypeInv, TypeOK
    <3>2. CASE StopLook(c)
      BY <3>2 DEF StopLook, TakesSession, Goto, TypeInv, TypeOK
    <3>. QED
      BY <1>2, <3>1, <3>2 DEF StopStep, CancelStart, IdleFallback, StopCancel, StopDetach,
         StopCleanup, StopWaited, StopLeaveOwner, StopClear, serviceVars
  <2>3. pc[c] \in Taking =>
            /\ target'[c] = target[c]
            /\ IsHost(target[c]) => pc'[c] \in Taking
            /\ pc[c] = "cancel" => target[c] \in cancelled'
    BY <1>2 DEF StopStep, StopLook, CancelStart, IdleFallback, StopCancel, StopDetach, StopCleanup,
       StopWaited, StopLeaveOwner, StopClear, ForgetDrop, Taking, Goto, Cancel, localVars, TypeInv,
       TypeOK
  <2>4. ASSUME NEW s \in Commands, Up(s)' PROVE Up(s)
    BY <2>2, <2>4, RegistryConstants DEF Up, Alone, guildOf, TypeInv, TypeOK
  <2>5. ASSUME NEW s \in Commands, Up(s)
        PROVE  Up(s)' \/ (pc'[c] = "cancel" /\ target'[c] = s)
    <3>1. CASE session' = session
      BY <2>5, <3>1 DEF Up, Alone, guildOf
    <3>2. CASE session' # session /\ guildOf(s) = g
      BY <2>2, <2>5, <3>2 DEF Up
    <3>3. CASE session' # session /\ guildOf(s) # g
      BY <2>2, <2>5, <3>3 DEF Up, Alone, guildOf, TypeInv, TypeOK
    <3>. QED
      BY <3>1, <3>2, <3>3
  <2>6. ASSUME NEW s \in Commands, hostOf[s] # None, s \notin done, KeptBy(s) PROVE KeptBy(s)'
    <3>1. IsHost(s) /\ s # c
      BY <2>6 DEF RegistryInv, CreatedOK
    <3>2. CASE pc[s] \in Making
      BY <3>1, <3>2 DEF KeptBy, Making, Alone
    <3>3. CASE Up(s)
      BY <2>5, <3>3 DEF KeptBy, Taking
    <3>4. CASE \E d \in Commands : pc[d] \in Taking /\ target[d] = s
      BY <2>3, <3>1, <3>4 DEF KeptBy, Alone
    <3>. QED
      BY <2>6, <3>2, <3>3, <3>4 DEF KeptBy, Making
  <2>7. ASSUME NEW s \in Commands
        PROVE  /\ pc'[s] \in BeforeCreate \cup {"check", "commit", "build"} => pc[s] = pc'[s]
               /\ pc'[s] \in Listed => pc[s] = pc'[s]
    BY DEF Alone, BeforeCreate, Listed, StartSteps, StopSteps
  <2>8. ASSUME NEW h \in Guilds, Enlisted(h) PROVE Enlisted(h)'
    <3>1. PICK e \in Commands : /\ IsGuest(e) /\ guildOf(e) = h
                                /\ pc[e] \in Listed \/ down[e] \notin {"off", "forget", "done"}
      BY <2>8 DEF Enlisted, Listed
    <3>. QED
      BY <3>1 DEF Enlisted, Listed, Alone, IsGuest, guildOf
  <2>9. ASSUME NEW d \in Commands PROVE GuestOK(d)'
    <3>1. ASSUME IsGuest(d), pc'[d] \in Listed \ {"undoRegistry"} \/ down[d] # "off"
          PROVE  target'[d] # None /\ hostOf[target'[d]] # None
      BY <2>7, <3>1 DEF RegistryInv, GuestOK, Listed, Alone
    <3>2. ASSUME down[d] = "wait", d \notin cancelled'
          PROVE  Up(d)' \/ \E e \in Commands : pc'[e] = "cancel" /\ target'[e] = d
      <4>1. Up(d) \/ \E e \in Commands : pc[e] = "cancel" /\ target[e] = d
        BY <3>2 DEF RegistryInv, GuestOK
      <4>. QED
        BY <2>3, <2>5, <3>2, <4>1 DEF Alone, Taking
    <3>. QED
      BY <2>1, <3>1, <3>2 DEF GuestOK, Listed, Alone, IsGuest
  <2>. QED
    BY <2>1, <2>4, <2>6, <2>7, <2>8, <2>9, RegistryFrame DEF RegistryInv, CreatedOK, BeforeCreate
<1>. QED
  BY <1>1, <1>2

\* A guest's teardown gives back only the guild's own entry.
LEMMA TeardownStepRegistry ==
  ASSUME TypeInv, RelayInv, OrderInv, RegistryInv, NEW c \in Commands, TeardownStep(c)
  PROVE  RegistryInv'
<1>. DEFINE g == guildOf(c)
<1>1. /\ UNCHANGED <<req, pc, target, sessions, hostOf, done>> /\ cancelled \subseteq cancelled'
      /\ \A d \in Commands : d # c => down'[d] = down[d]
      /\ ~TornDown(c) /\ down'[c] \notin {"off", "wait"}
  BY DEF TeardownStep, TeardownWake, TeardownClear, TeardownSpeakers, TeardownWaited,
     TeardownOwner, TeardownDetach, TeardownClose, TeardownUnlist, TeardownForget, localVars,
     registryVars, RemoveGuild, RemoveGuest, Cancel, DownTo, TornDown, TypeInv, TypeOK
<1>2. IsGuest(c) /\ ~IsHost(c) /\ g \in Guilds /\ down[c] \notin {"off", "done"}
  BY <1>1 DEF TornDown, RelayInv, TeardownOK, IsGuest, IsHost, TypeInv, RequestOK
<1>3. \A h \in Guilds :
          \/ session'[h] = session[h]
          \/ h = g /\ session[h] \in {None, c} /\ session'[h] = None
  <2>1. CASE TeardownClear(c)
    BY <2>1 DEF TeardownClear, OrderInv, SessionFits, TypeInv, TypeOK
  <2>2. CASE ~TeardownClear(c)
    BY <2>2 DEF TeardownStep, TeardownWake, TeardownSpeakers, TeardownWaited, TeardownOwner,
       TeardownDetach, TeardownClose, TeardownUnlist, TeardownForget, serviceVars
  <2>. QED
    BY <2>1, <2>2
<1>4. ASSUME NEW s \in Commands PROVE (Up(s)' => Up(s)) /\ (s # c => (Up(s)' <=> Up(s)))
  BY <1>1, <1>3, RegistryConstants DEF Up, guildOf
<1>5. ASSUME NEW s \in Commands, hostOf[s] # None PROVE s # c /\ (KeptBy(s)' <=> KeptBy(s))
  <2>1. s # c
    BY <1>2, <1>5 DEF RegistryInv, CreatedOK
  <2>. QED
    BY <1>1, <1>4, <2>1 DEF KeptBy
<1>6. ASSUME NEW d \in Commands PROVE GuestOK(d)'
  <2>1. IsGuest(d)' <=> IsGuest(d)
    BY <1>1 DEF IsGuest
  <2>2. CASE d = c
    BY <1>1, <1>2, <2>1, <2>2 DEF RegistryInv, GuestOK
  <2>3. CASE d # c
    BY <1>1, <1>4, <2>1, <2>3 DEF RegistryInv, GuestOK
  <2>. QED
    BY <2>2, <2>3
<1>7. CASE TeardownUnlist(c)
  <2>. byGuild' = [byGuild EXCEPT ![g] = None]
    BY <1>7 DEF TeardownUnlist, RemoveGuest
  <2>1. ASSUME NEW s \in Commands PROVE CreatedOK(s)'
    BY <1>1, <1>4 DEF RegistryInv, CreatedOK, IsHost, guildOf
  <2>2. ASSUME NEW s \in Commands PROVE LiveOK(s)'
    <3>. SUFFICES ASSUME hostOf[s] # None, s \notin done
                  PROVE  KeptBy(s)' /\ byGuild'[hostOf[s]] = s /\ sessions'[hostOf[s]] = s
      BY <1>1 DEF LiveOK
    <3>1. /\ KeptBy(s) /\ byGuild[hostOf[s]] = s /\ sessions[hostOf[s]] = s /\ s # c
          /\ hostOf[s] = guildOf(s)
      BY <1>5 DEF RegistryInv, LiveOK, CreatedOK
    <3>2. hostOf[s] # g
      BY <1>1, <3>1, LiveIsAlone
    <3>. QED
      BY <1>1, <1>5, <3>1, <3>2 DEF TypeInv, TypeOK, RegistryTypeOK
  <2>3. ASSUME NEW h \in Guilds PROVE EntryOK(h)'
    <3>1. CASE h = g
      BY <1>1, <3>1 DEF EntryOK, RegistryInv, TypeInv, TypeOK, RegistryTypeOK
    <3>2. CASE h # g
      <4>1. Enlisted(h) => Enlisted(h)'
        BY <1>1, <3>2 DEF Enlisted, IsGuest, guildOf
      <4>. QED
        BY <1>1, <3>2, <4>1 DEF EntryOK, RegistryInv, TypeInv, TypeOK, RegistryTypeOK
    <3>. QED
      BY <3>1, <3>2
  <2>. QED
    BY <1>6, <2>1, <2>2, <2>3 DEF RegistryInv
<1>8. CASE ~TeardownUnlist(c)
  <2>1. /\ byGuild' = byGuild
        /\ down[c] \notin {"off", "forget", "done"} => down'[c] \notin {"off", "forget", "done"}
    BY <1>8 DEF TeardownStep, TeardownWake, TeardownClear, TeardownSpeakers, TeardownWaited,
       TeardownOwner, TeardownDetach, TeardownClose, TeardownForget, registryVars, RemoveGuild,
       DownTo, TypeInv, TypeOK
  <2>2. ASSUME NEW h \in Guilds, Enlisted(h) PROVE Enlisted(h)'
    <3>1. PICK e \in Commands : /\ IsGuest(e) /\ guildOf(e) = h
                                /\ pc[e] \in Listed \/ down[e] \notin {"off", "forget", "done"}
      BY <2>2 DEF Enlisted, Listed
    <3>2. pc'[e] \in Listed \/ down'[e] \notin {"off", "forget", "done"}
      BY <1>1, <2>1, <3>1
    <3>. QED
      BY <1>1, <3>1, <3>2 DEF Enlisted, Listed, IsGuest, guildOf
  <2>. QED
    BY <1>1, <1>4, <1>5, <1>6, <2>1, <2>2, RegistryFrame DEF RegistryInv, CreatedOK
<1>. QED
  BY <1>7, <1>8

\* A command that arrives has nothing in the registry.
LEMMA ArriveRegistry ==
  ASSUME TypeInv, RelayInv, OrderInv, RegistryInv, NEW c \in Commands, Arrive(c)
  PROVE  RegistryInv'
<1>. PICK kind, g0, arg : Issue(c, kind, g0, arg)
  BY DEF Arrive, IssueStart, IssueJoin, IssueStop, IssueForget, IssueIdleStop
<1>1. /\ pc[c] = "idle" /\ pc'[c] \in {"begin", "look"}
      /\ \A d \in Commands : d # c => pc'[d] = pc[d] /\ req'[d] = req[d]
      /\ UNCHANGED <<target, session, down, cancelled, sessions, byGuild, hostOf, done>>
  BY DEF TypeInv, TypeOK, Issue, Goto, registryVars
<1>2. down[c] = "off" /\ hostOf[c] = None /\ c \notin done /\ \A g \in Guilds : session[g] # c
  BY <1>1, RegistryConstants DEF RelayInv, TeardownOK, SessionOK, RegistryInv, CreatedOK,
     BeforeCreate
<1>3. ASSUME NEW s \in Commands PROVE Up(s)' <=> (Up(s) /\ s # c)
  BY <1>1, <1>2 DEF Up, guildOf
<1>4. ASSUME NEW s \in Commands PROVE CreatedOK(s)'
  BY <1>1, <1>2, <1>3, RegistryConstants DEF RegistryInv, CreatedOK, IsHost, guildOf, BeforeCreate
<1>5. ASSUME NEW s \in Commands PROVE LiveOK(s)'
  <2>1. s # c /\ KeptBy(s) => KeptBy(s)'
    BY <1>1, <1>3 DEF KeptBy, Taking
  <2>. QED
    BY <1>1, <1>2, <2>1 DEF RegistryInv, LiveOK
<1>6. ASSUME NEW g \in Guilds PROVE EntryOK(g)'
  <2>1. Enlisted(g) => Enlisted(g)'
    BY <1>1, <1>2 DEF Enlisted, IsGuest, guildOf, StartSteps
  <2>. QED
    BY <1>1, <2>1 DEF RegistryInv, EntryOK
<1>7. ASSUME NEW d \in Commands PROVE GuestOK(d)'
  <2>1. CASE d = c
    BY <1>1, <1>2, <2>1 DEF GuestOK, StartSteps
  <2>2. CASE d # c
    BY <1>1, <1>2, <1>3, <2>2 DEF RegistryInv, GuestOK, IsGuest, guildOf
  <2>. QED
    BY <2>1, <2>2
<1>. QED
  BY <1>4, <1>5, <1>6, <1>7 DEF RegistryInv

\* Every step of an orderly system keeps RegistryInv.
LEMMA RegistryInvStep ==
  TypeInv /\ RelayInv /\ OrderInv /\ RegistryInv /\ [Next]_vars => RegistryInv'
<1>. SUFFICES ASSUME TypeInv, RelayInv, OrderInv, RegistryInv, [Next]_vars PROVE RegistryInv'
  OBVIOUS
<1>1. ASSUME UNCHANGED <<req, pc, target, session, down, cancelled, sessions, byGuild, hostOf,
                         done>>
      PROVE RegistryInv'
  BY <1>1 DEF RegistryInv, CreatedOK, LiveOK, EntryOK, GuestOK, KeptBy, Enlisted, Up, guildOf,
     IsHost, IsGuest
<1>2. CASE UNCHANGED vars
  BY <1>1, <1>2 DEF vars
<1>3. CASE \E c \in Commands : SpeakerStep(c)
  BY <1>1, <1>3 DEF SpeakerStep, SpeakerLeave, localVars, serviceVars, registryVars
<1>. QED
  BY <1>2, <1>3, ArriveRegistry, StartStepRegistry, StopStepRegistry, TeardownStepRegistry DEF Next

\* Before the first command the registry is empty.
LEMMA InitRegistryInv == Init => RegistryInv
BY DEF Init, RegistryInit, RegistryInv, CreatedOK, LiveOK, EntryOK, GuestOK, Up, guildOf, IsHost,
   IsGuest, NoRequest, StartSteps

\* In an orderly behaviour a guild whose raid is up as a host can be joined: its
\* code leads to that raid's relay session, which nobody has closed
\* (StartVoiceRaid: "guests can always join via the relay code").
THEOREM HostsAreJoinable == ASSUME Orderly PROVE Spec => []RaidJoinable
<1>1. TypeInv /\ RelayInv /\ RegistryInv => RaidJoinable
  <2>. SUFFICES ASSUME TypeInv, RelayInv, RegistryInv, NEW g \in Guilds, session[g] # None,
                       IsHost(session[g])
                PROVE  /\ sessions[g] = session[g] /\ byGuild[g] = session[g]
                       /\ session[g] \notin done
    BY DEF RaidJoinable
  <2>1. session[g] \in Commands /\ guildOf(session[g]) = g
    BY DEF TypeInv, TypeOK, OrNone, RelayInv, SessionOK
  <2>. QED
    BY <2>1 DEF RegistryInv, CreatedOK, LiveOK, Up
<1>. QED
  BY <1>1, InitOrderInv, InitRegistryInv, RequestsInv, RelayInvStep, LeakInvStep, OrderInvStep,
     RegistryInvStep, PTL DEF Spec

\* In an orderly behaviour every guest that is left when all has come to rest
\* belongs to a host's raid that is up (README: "When Guild A runs `/stop`, all
\* guest sessions are torn down automatically").
THEOREM GuestsEndWithTheirHost == ASSUME Orderly PROVE Spec => []NoOrphanGuest
<1>1. TypeInv /\ RelayInv /\ RegistryInv => NoOrphanGuest
  <2>. SUFFICES ASSUME TypeInv, RelayInv, RegistryInv, Settled, NEW c \in Commands, Waiting(c)
                PROVE  session[hostOf[target[c]]] = target[c]
    BY DEF NoOrphanGuest
  <2>. DEFINE s == target[c]
  <2>1. s # None /\ hostOf[s] # None /\ s \in Commands /\ s \notin done
    BY DEF Waiting, Wakes, RelayInv, TeardownOK, RegistryInv, GuestOK, TypeInv, TypeOK, OrNone
  <2>2. \A d \in Commands : pc[d] \in {"idle", "done"}
    BY DEF Settled, Busy
  <2>3. Up(s) /\ hostOf[s] = guildOf(s)
    BY <2>1, <2>2 DEF RegistryInv, LiveOK, KeptBy, CreatedOK, Taking
  <2>. QED
    BY <2>3 DEF Up
<1>. QED
  BY <1>1, InitOrderInv, InitRegistryInv, RequestsInv, RelayInvStep, LeakInvStep, OrderInvStep,
     RegistryInvStep, PTL DEF Spec

-----------------------------------------------------------------------------
(* Commands that do not overlap: every step keeps VoiceInv and OwnerInv *)

\* What SetVoice does to one connection.
LEMMA SetVoiceAt ==
  ASSUME TypeOK, NEW g \in Guilds, NEW b \in Bots, NEW v, SetVoice(g, b, v),
         NEW h \in Guilds, NEW d \in Bots
  PROVE  voice'[h][d] = IF h = g /\ d = b THEN v ELSE voice[h][d]
<1>1. CASE h = g
  BY <1>1 DEF TypeOK, SetVoice
<1>2. CASE h # g
  BY <1>2 DEF TypeOK, SetVoice
<1>. QED
  BY <1>1, <1>2

\* The bots a step of a start moves: its own guild's, and while the guild has
\* no session.
LEMMA StartStepVoice ==
  ASSUME TypeInv, LeakInv, OrderInv, NEW c \in Commands, StartStep(c)
  PROVE  /\ \A h \in Guilds : h # guildOf(c) => \A d \in Bots : voice'[h][d] = voice[h][d]
         /\ pc[c] \in {"start", "release"} => voice' = voice
         /\ \A x \in Commands : x # c =>
                joined'[x] = joined[x] /\ pending'[x] = pending[x] /\ leaving'[x] = leaving[x]
         /\ ownerUp' \in {ownerUp, ownerUp \cup {c}}
         /\ \/ cleaned' = cleaned /\ leaving' = leaving
            \/ /\ pc[c] = "undo" /\ pc'[c] = "undoWait"
               /\ cleaned' = cleaned \cup {c} /\ leaving'[c] = joined[c]
         /\ pc[c] = "undoWait" => leaving[c] = {}
<1>. DEFINE g == guildOf(c)
<1>. g \in Guilds
  BY StartStepEffect DEF TypeInv, RequestOK, StartSteps
<1>1. ASSUME NEW h \in Guilds, h # g, NEW d \in Bots PROVE voice'[h][d] = voice[h][d]
  <2>1. voice' = voice \/ \E b \in Bots : \E v : SetVoice(g, b, v)
    BY DEF StartStep, StartBegin, Enlist, Snapshot, AttachSpeaker,
       SpeakersJoined, AttachOwner, HostCreate, Build, CtxCheck, Commit, StartPipeline, Release,
       Undo, UndoWaited, UndoOwner, UndoRegistry, voiceVars, Bots
  <2>. QED
    BY <1>1, <2>1, SetVoiceAt DEF TypeInv
<1>2. pc[c] \in {"start", "release"} => voice' = voice
  BY DEF StartStep, StartBegin, Enlist, Snapshot, AttachSpeaker,
     SpeakersJoined, AttachOwner, HostCreate, Build, CtxCheck, Commit, StartPipeline, Release,
     Undo, UndoWaited, UndoOwner, UndoRegistry, voiceVars
<1>3. \A x \in Commands : x # c =>
          joined'[x] = joined[x] /\ pending'[x] = pending[x] /\ leaving'[x] = leaving[x]
  BY DEF StartStep, StartBegin, Enlist, Snapshot, AttachSpeaker,
     SpeakersJoined, AttachOwner, HostCreate, Build, CtxCheck, Commit, StartPipeline, Release,
     Undo, UndoWaited, UndoOwner, UndoRegistry, onceVars, localVars, SpeakerCleanup, TypeInv, TypeOK
<1>4. ownerUp' \in {ownerUp, ownerUp \cup {c}}
  BY DEF StartStep, StartBegin, Enlist, Snapshot, AttachSpeaker,
     SpeakersJoined, AttachOwner, HostCreate, Build, CtxCheck, Commit, StartPipeline, Release,
     Undo, UndoWaited, UndoOwner, UndoRegistry, localVars
<1>5. \/ cleaned' = cleaned /\ leaving' = leaving
      \/ /\ pc[c] = "undo" /\ pc'[c] = "undoWait"
         /\ cleaned' = cleaned \cup {c} /\ leaving'[c] = joined[c]
  <2>1. CASE Undo(c)
    BY <2>1 DEF Undo, SpeakerCleanup, Goto, LeakInv, OwnerOfOpenOK, Early, TypeInv, TypeOK
  <2>2. CASE ~Undo(c)
    BY <2>2 DEF StartStep, StartBegin, Enlist, Snapshot, AttachSpeaker,
       SpeakersJoined, AttachOwner, HostCreate, Build, CtxCheck, Commit, StartPipeline, Release,
       UndoWaited, UndoOwner, UndoRegistry, onceVars
  <2>. QED
    BY <2>1, <2>2
<1>6. pc[c] = "undoWait" => leaving[c] = {}
  BY DEF StartStep, StartBegin, Enlist, Snapshot, AttachSpeaker,
     SpeakersJoined, AttachOwner, HostCreate, Build, CtxCheck, Commit, StartPipeline, Release,
     Undo, UndoWaited, UndoOwner, UndoRegistry, SpeakersLeft
<1>. QED
  BY <1>1, <1>2, <1>3, <1>4, <1>5, <1>6

\* A raid that is not the start at work is up after its step only if it was.
LEMMA OtherUp ==
  ASSUME NEW c \in Commands, Alone(c), StartEffect(c), NEW x \in Commands, x # c
  PROVE  /\ Up(x)' => Up(x)
         /\ x # None /\ Up(x) => Up(x)'
BY DEF Up, Alone, StartEffect, guildOf

\* Before its speakers join and once they are cleaned up after, a start has none.
LEMMA NoSpeakersYet ==
  ASSUME TypeInv, RelayInv, OrderInv, VoiceInv, NEW c \in Commands, pc[c] \in StartSteps,
         pc[c] \notin Joining \cup {"undo", "start", "release"}
  PROVE  joined[c] = {} \/ c \in cleaned
<1>1. down[c] = "off" /\ ~Up(c)
  BY RegistryConstants DEF RelayInv, TeardownOK, SessionOK, Up, StartSteps
<1>2. \A d \in Commands : pc[d] \in Taking => target[d] # c
  BY RegistryConstants DEF OrderInv, TakenOK, Taking, StopSteps, StartSteps
<1>. QED
  BY <1>1, <1>2 DEF VoiceInv, CleanupDueOK, CleanupDue, Taking

\* A start's steps leave a cleanup due where speakers have joined.
LEMMA StartStepCleanup ==
  ASSUME TypeInv, RelayInv, LeakInv, OrderInv, VoiceInv, NEW c \in Commands, StartStep(c),
         NEW x \in Commands
  PROVE  LeavingOK(x)' /\ CleanupDueOK(x)'
<1>. Alone(c)
  BY StartStepRequest
<1>. StartEffect(c) /\ pc[c] \in StartSteps /\ pc'[c] \in StartSteps \cup {"done"}
  BY StartStepEffect
<1>. pc[c] \notin {"cancel", "detach", "cleanup", "cleanupWait"}
  BY DEF StartSteps
<1>0. /\ cleaned \subseteq cleaned'
      /\ x # c => /\ joined'[x] = joined[x] /\ leaving'[x] = leaving[x]
                  /\ x \in cleaned' <=> x \in cleaned
  BY StartStepVoice
<1>1. CASE x # c
  <2>1. LeavesAwaited(x) => LeavesAwaited(x)'
    BY <1>1 DEF LeavesAwaited, Alone, StartEffect
  <2>2. CleanupDue(x) => CleanupDue(x)'
    BY <1>1, OtherUp, RegistryConstants DEF CleanupDue, Alone, StartEffect
  <2>. QED
    BY <1>0, <1>1, <2>1, <2>2 DEF VoiceInv, LeavingOK, CleanupDueOK
<1>2. CASE x = c
  <2>1. LeavingOK(c)'
    <3>1. leaving[c] # {} => LeavesAwaited(c) /\ pc[c] # "undoWait" /\ c \in cleaned
      BY StartStepVoice DEF VoiceInv, LeavingOK
    <3>2. pc[c] # "undoWait" /\ LeavesAwaited(c) => LeavesAwaited(c)'
      <4>1. down[c] = "speakersWait" => down'[c] = "speakersWait"
        BY DEF StartStep, StartBegin, Enlist, Snapshot, AttachSpeaker, SpeakersJoined,
           AttachOwner, HostCreate, Build, CtxCheck, Commit, StartPipeline, Release,
           Undo, UndoWaited, UndoOwner, UndoRegistry, RelayInv, TeardownOK
      <4>. QED
        BY <4>1 DEF LeavesAwaited, Alone
    <3>. QED
      BY <3>1, <3>2, StartStepVoice DEF LeavingOK, LeavesAwaited
  <2>2. CleanupDueOK(c)'
    <3>1. CASE pc[c] \in {"start", "release"}
      <4>1. joined' = joined /\ cleaned' = cleaned
            /\ (down[c] = "speakers" => down'[c] = "speakers")
        BY <3>1 DEF StartStep, StartBegin, Enlist, Snapshot, AttachSpeaker, SpeakersJoined,
           AttachOwner, HostCreate, Build, CtxCheck, Commit, StartPipeline, Release,
           Undo, UndoWaited, UndoOwner, UndoRegistry, RelayInv, TeardownOK, localVars, onceVars
      <4>2. Up(c) => Up(c)'
        BY <3>1 DEF Up, StartEffect, Alone, guildOf
      <4>3. joined[c] # {} /\ c \notin cleaned => CleanupDue(c)
        BY DEF VoiceInv, CleanupDueOK
      <4>4. CleanupDue(c) => CleanupDue(c)'
        BY <3>1, <4>1, <4>2 DEF CleanupDue, Alone, Joining
      <4>. QED
        BY <4>1, <4>3, <4>4 DEF CleanupDueOK
    <3>2. CASE pc[c] \in Joining \cup {"undo"}
      <4>1. \/ pc'[c] \in Joining \cup {"undo"} \/ joined'[c] = {} \/ c \in cleaned'
            \/ (pc'[c] = "start" /\ Commit(c))
        <5>1. CASE Undo(c)
          BY <5>1, StartStepVoice DEF Undo, SpeakerCleanup
        <5>2. CASE SpeakersJoined(c)
          BY <5>2 DEF SpeakersJoined, localVars, Goto, Joining, TypeInv, TypeOK
        <5>3. CASE Commit(c)
          BY <5>3 DEF Commit, Goto, TypeInv, TypeOK
        <5>4. CASE ~Undo(c) /\ ~SpeakersJoined(c) /\ ~Commit(c)
          BY <3>2, <5>4 DEF StartStep, StartBegin, Enlist, Snapshot, AttachSpeaker, AttachOwner,
             HostCreate, Build, CtxCheck, StartPipeline, Release, UndoWaited, UndoOwner,
             UndoRegistry, Joining, Goto, TypeInv, TypeOK
        <5>. QED
          BY <5>1, <5>2, <5>3, <5>4
      <4>2. pc'[c] = "start" /\ Commit(c) => Up(c)'
        BY DEF Commit, Goto, Up, Alone, guildOf, TypeInv, TypeOK, RequestOK
      <4>. QED
        BY <4>1, <4>2 DEF CleanupDueOK, CleanupDue
    <3>3. CASE pc[c] \notin Joining \cup {"undo", "start", "release"}
      <4>1. joined' = joined
        BY <3>3 DEF StartStep, StartBegin, Enlist, Snapshot, AttachSpeaker, SpeakersJoined,
           AttachOwner, HostCreate, Build, CtxCheck, Commit, StartPipeline, Release,
           Undo, UndoWaited, UndoOwner, UndoRegistry, localVars, Joining
      <4>. QED
        BY <1>0, <3>3, <4>1, NoSpeakersYet DEF CleanupDueOK
    <3>. QED
      BY <3>1, <3>2, <3>3
  <2>. QED
    BY <1>2, <2>1, <2>2
<1>. QED
  BY <1>1, <1>2

\* A start's steps disturb no raid that serves, and bring up one that does.
LEMMA StartStepServed ==
  ASSUME TypeInv, RelayInv, LeakInv, OrderInv, VoiceInv, NEW c \in Commands, StartStep(c),
         NEW x \in Commands
  PROVE  ServedOK(x)'
<1>. Alone(c)
  BY StartStepRequest
<1>. StartEffect(c) /\ pc[c] \in StartSteps /\ pc'[c] \in StartSteps \cup {"done"}
  BY StartStepEffect
<1>. DEFINE g == guildOf(c)
<1>. /\ g \in Guilds /\ IsStart(c)
     /\ Owner \in Bots /\ Speakers \subseteq Bots /\ Owner \notin Speakers
  BY LifecycleConstants DEF TypeInv, RequestOK, StartSteps, Bots
<1>. joined[x] \subseteq Speakers /\ joined[c] \subseteq Speakers /\ pending[c] \subseteq Speakers
  BY DEF TypeInv, TypeOK
<1>. ServedOK(x) /\ ServedOK(c)
  BY DEF VoiceInv
<1>1. CASE x # c
  <2>1. /\ joined'[x] = joined[x] /\ pending'[x] = pending[x] /\ pc'[x] = pc[x]
        /\ guildOf(x)' = guildOf(x) /\ (x \in ownerUp' <=> x \in ownerUp)
        /\ IsHost(x)' = IsHost(x) /\ (Up(x)' => Up(x))
    BY <1>1, OtherUp, StartStepVoice DEF Alone, guildOf, IsHost
  <2>2. ASSUME pc[x] \in Joining \/ Up(x), NEW d \in Bots
        PROVE  voice'[guildOf(x)][d] = voice[guildOf(x)][d]
    <3>0. guildOf(x) \in Guilds
      BY <2>2 DEF Up, TypeInv, RequestOK, Joining
    <3>1. CASE guildOf(x) # g
      BY <3>0, <3>1, StartStepVoice
    <3>2. CASE guildOf(x) = g
      <4>1. ~Busy(x)
        BY <1>1, <3>2 DEF OrderInv, AloneOK
      <4>2. Up(x)
        BY <2>2, <4>1 DEF Busy, Joining
      <4>3. pc[c] \notin Unmade
        BY <3>2, <4>2, RegistryConstants DEF OrderInv, SessionFits, Up
      <4>. QED
        BY <4>3, StartStepVoice DEF Unmade
    <3>. QED
      BY <3>1, <3>2
  <2>. QED
    BY <2>1, <2>2 DEF ServedOK, Joining
<1>2. CASE x = c /\ \E b \in Speakers : AttachSpeaker(c, b)
  <2>. PICK b \in Speakers : AttachSpeaker(c, b)
    BY <1>2
  <2>1. /\ pc[c] = "speakers" /\ b \in pending[c] /\ pc'[c] = "speakers"
        /\ pending'[c] = pending[c] \ {b} /\ ownerUp' = ownerUp /\ guildOf(c)' = g /\ ~Up(c)'
    <3>1. pc[c] = "speakers" /\ pc' = pc /\ req' = req /\ session' = session
      BY DEF AttachSpeaker, serviceVars
    <3>2. ~Up(c)'
      BY <3>1, RegistryConstants DEF Up, guildOf, RelayInv, SessionOK
    <3>. QED
      BY <3>1, <3>2 DEF AttachSpeaker, TypeInv, TypeOK, guildOf
  <2>2. \/ joined'[c] = joined[c] \cup {b} /\ SetVoice(g, b, c)
        \/ joined'[c] = joined[c] /\ \E v : SetVoice(g, b, v)
    BY DEF AttachSpeaker, TypeInv, TypeOK
  <2>3. b \notin joined[c] /\ \A d \in joined[c] : voice[g][d] = c
    BY <2>1 DEF ServedOK, Joining
  <2>4. \A d \in joined'[c] : voice'[g][d] = c
    BY <2>2, <2>3, SetVoiceAt DEF TypeInv
  <2>. QED
    BY <1>2, <2>1, <2>2, <2>3, <2>4 DEF ServedOK, BeforeCreate
<1>3. CASE x = c /\ AttachOwner(c)
  <2>1. /\ pc[c] = "owner" /\ pc'[c] \in {"create", "build", "undo"}
        /\ UNCHANGED <<pending, joined>>
        /\ c \notin ownerUp /\ ~Up(c)' /\ guildOf(c)' = g
    <3>1. pc[c] = "owner" /\ req' = req /\ session' = session
      BY <1>3 DEF AttachOwner, serviceVars
    <3>2. ~Up(c)'
      BY <3>1, RegistryConstants DEF Up, guildOf, RelayInv, SessionOK
    <3>. QED
      BY <1>3, <3>1, <3>2 DEF AttachOwner, Goto, TypeInv, TypeOK, guildOf, ServedOK, BeforeCreate
  <2>2. \A d \in Speakers : voice'[g][d] = voice[g][d]
    BY <1>3, SetVoiceAt DEF AttachOwner, TypeInv, voiceVars
  <2>3. \/ /\ SetVoice(g, Owner, c) /\ pc'[c] = IF IsHost(c) THEN "create" ELSE "build"
           /\ ownerUp' = IF IsGuest(c) THEN ownerUp \cup {c} ELSE ownerUp
        \/ ownerUp' = ownerUp /\ pc'[c] = IF IsHost(c) THEN "undo" ELSE "build"
    BY <1>3 DEF AttachOwner, Goto, TypeInv, TypeOK
  <2>4. SetVoice(g, Owner, c) => voice'[g][Owner] = c
    BY SetVoiceAt DEF TypeInv
  <2>5. IsHost(c)' = IsHost(c) /\ (IsHost(c) => ~IsGuest(c))
    BY DEF Alone, IsHost, IsGuest
  <2>. QED
    BY <1>3, <2>1, <2>2, <2>3, <2>4, <2>5 DEF ServedOK, Joining, BeforeCreate
<1>4. CASE x = c /\ Snapshot(c)
  <2>1. joined[c] = {}
    BY <1>4, NoSpeakersYet DEF Snapshot, Joining, StartSteps, LeakInv, OwnerOfOpenOK, Early
  <2>2. /\ joined'[c] = {} /\ ownerUp' = ownerUp /\ session' = session
        /\ pc[c] \in {"snapshot", "resnapshot"}
        /\ pc'[c] \notin {"create", "build", "check", "commit"}
    BY <1>4, <2>1 DEF Snapshot, Goto, Bail, TypeInv, TypeOK
  <2>3. ~Up(c)'
    BY <2>2, RegistryConstants DEF Up, Alone, guildOf, RelayInv, SessionOK
  <2>. QED
    BY <1>4, <2>2, <2>3 DEF ServedOK, BeforeCreate
<1>5. CASE x = c /\ ~AttachOwner(c) /\ ~Snapshot(c) /\ ~\E b \in Speakers : AttachSpeaker(c, b)
  <2>1. UNCHANGED <<joined, pending, ownerUp>>
    BY <1>5 DEF StartStep, StartBegin, Enlist, SpeakersJoined, HostCreate, Build, CtxCheck, Commit,
       StartPipeline, Release, Undo, UndoWaited, UndoOwner, UndoRegistry, localVars
  <2>2. UndoOwner(c) \/ voice' = voice
    BY <1>5 DEF StartStep, StartBegin, Enlist, SpeakersJoined, HostCreate, Build, CtxCheck, Commit,
       StartPipeline, Release, Undo, UndoWaited, UndoRegistry, voiceVars
  <2>3. /\ pc'[c] \in Joining => pc[c] \in Joining
        /\ pc'[c] \in {"create", "build", "check", "commit"} =>
               pc[c] \in {"create", "build", "check", "commit"}
        /\ pc'[c] \in BeforeCreate => pc[c] \in BeforeCreate
        /\ pc'[c] # "speakers"
        /\ pc[c] = "undoOwner" => pc'[c] = "undoRegistry"
    BY <1>5 DEF StartStep, StartBegin, Enlist, SpeakersJoined, HostCreate, Build, CtxCheck, Commit,
       StartPipeline, Release, Undo, UndoWaited, UndoOwner, UndoRegistry, Goto, Bail, Joining,
       BeforeCreate, TypeInv, TypeOK
  <2>4. Up(c)' => Up(c) \/ pc[c] = "commit"
    BY DEF Up, Alone, StartEffect, guildOf
  <2>5. UndoOwner(c) => pc'[c] \notin Joining /\ ~Up(c)'
    BY <2>3, <2>4, RegistryConstants DEF UndoOwner, Up, Joining, RelayInv, SessionOK
  <2>. QED
    BY <1>5, <2>1, <2>2, <2>3, <2>4, <2>5 DEF ServedOK, Joining, Alone, IsHost, guildOf
<1>. QED
  BY <1>1, <1>2, <1>3, <1>4, <1>5

\* A start's steps put a speaker into voice only as one that joined.
LEMMA StartStepSpeakers ==
  ASSUME TypeInv, RelayInv, LeakInv, OrderInv, VoiceInv, NEW c \in Commands, StartStep(c),
         NEW g \in Guilds, NEW b \in Speakers
  PROVE  SpeakerVoiceOK(g, b)'
<1>. Alone(c)
  BY StartStepRequest
<1>. b \in Bots /\ b # Owner /\ guildOf(c) \in Guilds /\ Owner \in Bots
  BY StartStepEffect, LifecycleConstants DEF Bots, TypeInv, RequestOK, StartSteps
<1>1. \A x \in Commands : joined[x] \subseteq joined'[x]
  BY DEF StartStep, StartBegin, Enlist, Snapshot, AttachSpeaker, SpeakersJoined,
     AttachOwner, HostCreate, Build, CtxCheck, Commit, StartPipeline, Release,
     Undo, UndoWaited, UndoOwner, UndoRegistry, localVars, TypeInv, TypeOK
<1>2. \/ voice'[g][b] = voice[g][b]
      \/ voice'[g][b] = None
      \/ /\ g = guildOf(c) /\ voice'[g][b] = c /\ b \in joined'[c] /\ c \notin cleaned'
  <2>1. CASE \E s \in Speakers : AttachSpeaker(c, s)
    <3>. PICK s \in Speakers : AttachSpeaker(c, s)
      BY <2>1
    <3>. s \in Bots
      BY DEF Bots
    <3>1. \/ SetVoice(guildOf(c), s, None)
          \/ SetVoice(guildOf(c), s, c) /\ joined'[c] = joined[c] \cup {s}
      BY DEF AttachSpeaker, VoiceAfterLeave, OrderInv, UncancelledOK, StartSteps, TypeInv, TypeOK
    <3>2. c \notin cleaned'
      BY DEF AttachSpeaker, LeakInv, OwnerOfOpenOK, Early, onceVars
    <3>. QED
      BY <3>1, <3>2, SetVoiceAt DEF TypeInv
  <2>2. CASE ~\E s \in Speakers : AttachSpeaker(c, s)
    <3>1. voice' = voice \/ \E v : SetVoice(guildOf(c), Owner, v)
      BY <2>2 DEF StartStep, StartBegin, Enlist, Snapshot, SpeakersJoined,
         AttachOwner, HostCreate, Build, CtxCheck, Commit, StartPipeline, Release,
         Undo, UndoWaited, UndoOwner, UndoRegistry, voiceVars
    <3>. QED
      BY <3>1, SetVoiceAt DEF TypeInv
  <2>. QED
    BY <2>1, <2>2
<1>3. CASE voice'[g][b] = voice[g][b] /\ voice[g][b] # None
  <2>. DEFINE x == voice[g][b]
  <2>1. x \in Commands /\ guildOf(x) = g /\ b \in joined[x] /\ (x \in cleaned => b \in leaving[x])
    BY <1>3 DEF VoiceInv, SpeakerVoiceOK
  <2>2. x \in cleaned' => b \in leaving'[x]
    BY <2>1, StartStepVoice
  <2>. QED
    BY <1>1, <1>3, <2>1, <2>2 DEF SpeakerVoiceOK, Alone, guildOf
<1>. QED
  BY <1>2, <1>3 DEF SpeakerVoiceOK, Alone, guildOf

\* A raid whose owner bot is to leave: no start is one before it has the bot.
LEMMA NoOwnerYet ==
  ASSUME TypeInv, RelayInv, OrderInv, VoiceInv, NEW c \in Commands,
         pc[c] \in BeforeCreate \ {"create"}
  PROVE  ~OwnerDue(c)
<1>1. down[c] = "off" /\ ~Up(c)
  BY RegistryConstants DEF RelayInv, TeardownOK, SessionOK, Up, BeforeCreate
<1>2. \A d \in Commands : pc[d] \in Taking /\ target[d] # None => target[d] # c
  BY DEF OrderInv, TakenOK, Taking, StopSteps, BeforeCreate
<1>3. c \notin ownerUp
  BY DEF VoiceInv, ServedOK
<1>. QED
  BY <1>1, <1>2, <1>3, RegistryConstants DEF OwnerDue, BeforeCreate, Taking

\* A start's steps put the owner bot into voice only for itself, and take it out
\* again unless the raid comes up.
LEMMA StartStepOwner ==
  ASSUME TypeInv, RelayInv, LeakInv, OrderInv, RegistryInv, VoiceInv, OwnerInv,
         "apply" \notin Faults, NEW c \in Commands, StartStep(c), NEW g \in Guilds
  PROVE  OwnerVoiceOK(g)'
<1>. Alone(c)
  BY StartStepRequest
<1>. StartEffect(c) /\ pc[c] \in StartSteps /\ pc'[c] \in StartSteps \cup {"done"}
  BY StartStepEffect
<1>. /\ pc[c] \notin Taking /\ IsStart(c) /\ guildOf(c) \in Guilds /\ Owner \in Bots
     /\ Owner \notin Speakers /\ c # None
  BY LifecycleConstants, RegistryConstants
     DEF TypeInv, RequestOK, StartSteps, Taking, Bots
<1>1. ASSUME NEW x \in Commands, x # c, OwnerDue(x) PROVE OwnerDue(x)'
  <2>1. hostOf'[x] = hostOf[x]
    BY <1>1 DEF StartStep, StartBegin, Enlist, Snapshot, AttachSpeaker,
       SpeakersJoined, AttachOwner, HostCreate, Build, CtxCheck, Commit, StartPipeline, Release,
       Undo, UndoWaited, UndoOwner, UndoRegistry, registryVars, Join, Create, AddGuild,
       RemoveHost, RemoveGuest, RegisterHostInputs, TypeInv, TypeOK, RegistryTypeOK
  <2>2. (x \in ownerUp => x \in ownerUp') /\ down'[x] = down[x] /\ pc'[x] = pc[x]
    BY <1>1, StartStepVoice DEF Alone, StartEffect
  <2>3. Up(x) => Up(x)'
    BY <1>1, OtherUp, RegistryConstants
  <2>4. IsHost(x)' = IsHost(x) /\ IsGuest(x)' = IsGuest(x)
    BY DEF Alone, IsHost, IsGuest
  <2>5. ASSUME NEW e \in Commands, pc[e] \in Taking, target[e] = x
        PROVE  pc'[e] = pc[e] /\ target'[e] = x
    BY <2>5 DEF Alone
  <2>. QED
    BY <1>1, <2>1, <2>2, <2>3, <2>4, <2>5 DEF OwnerDue
<1>2. CASE AttachOwner(c)
  <2>1. pc[c] = "owner" /\ c \notin cancelled /\ ~OwnerDue(c)
    BY <1>2, NoOwnerYet DEF AttachOwner, BeforeCreate, OrderInv, UncancelledOK, StartSteps
  <2>2. \/ /\ SetVoice(guildOf(c), Owner, c)
           /\ pc'[c] = IF IsHost(c) THEN "create" ELSE "build"
           /\ IsGuest(c) => c \in ownerUp'
        \/ SetVoice(guildOf(c), Owner, None)
        \/ voice' = voice
    BY <1>2, <2>1 DEF AttachOwner, ApplyFails, Goto, voiceVars, TypeInv, TypeOK
  <2>3. \/ voice'[g][Owner] = voice[g][Owner]
        \/ voice'[g][Owner] = None
        \/ voice'[g][Owner] = c /\ g = guildOf(c) /\ OwnerDue(c)'
    <3>1. CASE voice' = voice \/ SetVoice(guildOf(c), Owner, None)
      BY <3>1, SetVoiceAt DEF TypeInv
    <3>2. CASE /\ SetVoice(guildOf(c), Owner, c)
               /\ pc'[c] = IF IsHost(c) THEN "create" ELSE "build"
               /\ IsGuest(c) => c \in ownerUp'
      <4>1. voice'[g][Owner] = IF g = guildOf(c) THEN c ELSE voice[g][Owner]
        BY <3>2, SetVoiceAt DEF TypeInv
      <4>2. OwnerDue(c)'
        BY <3>2 DEF OwnerDue, Alone, IsHost, IsGuest, IsStart
      <4>. QED
        BY <4>1, <4>2
    <3>. QED
      BY <2>2, <3>1, <3>2
  <2>4. voice[g][Owner] # None => /\ voice[g][Owner] \in Commands /\ voice[g][Owner] # c
                                  /\ OwnerDue(voice[g][Owner]) /\ guildOf(voice[g][Owner]) = g
    BY <2>1 DEF OwnerInv, OwnerVoiceOK
  <2>. QED
    BY <1>1, <2>3, <2>4 DEF OwnerVoiceOK, Alone, guildOf
<1>3. CASE ~AttachOwner(c)
  <2>1. \/ voice'[g][Owner] = None
        \/ voice'[g][Owner] = voice[g][Owner] /\ (UndoOwner(c) => IsGuest(c) /\ c \notin ownerUp)
        \/ voice'[g][Owner] = voice[g][Owner] /\ g # guildOf(c)
    <3>1. CASE UndoOwner(c)
      <4>1. c \notin cancelled
        BY <3>1 DEF UndoOwner, OrderInv, UncancelledOK, StartSteps
      <4>2. \/ SetVoice(guildOf(c), Owner, None)
            \/ IsGuest(c) /\ c \notin ownerUp /\ voice' = voice
        BY <3>1, <4>1 DEF UndoOwner, VoiceAfterLeave
      <4>3. SetVoice(guildOf(c), Owner, None) =>
                voice'[g][Owner] = IF g = guildOf(c) THEN None ELSE voice[g][Owner]
        BY SetVoiceAt DEF TypeInv
      <4>. QED
        BY <4>2, <4>3
    <3>2. CASE \E b \in Speakers : AttachSpeaker(c, b)
      <4>. PICK b \in Speakers : AttachSpeaker(c, b)
        BY <3>2
      <4>1. \E v : SetVoice(guildOf(c), b, v)
        BY DEF AttachSpeaker
      <4>2. b # Owner /\ b \in Bots /\ ~UndoOwner(c)
        BY DEF Bots, AttachSpeaker, UndoOwner
      <4>. QED
        BY <4>1, <4>2, SetVoiceAt DEF TypeInv
    <3>3. CASE ~UndoOwner(c) /\ ~\E b \in Speakers : AttachSpeaker(c, b)
      <4>1. voice' = voice
        BY <1>3, <3>3 DEF StartStep, StartBegin, Enlist, Snapshot, SpeakersJoined, HostCreate,
           Build, CtxCheck, Commit, StartPipeline, Release, Undo, UndoWaited, UndoRegistry,
           voiceVars
      <4>. QED
        BY <3>3, <4>1
    <3>. QED
      BY <3>1, <3>2, <3>3
  <2>2. ASSUME OwnerDue(c), ~UndoOwner(c) \/ (IsGuest(c) /\ c \notin ownerUp)
        PROVE  OwnerDue(c)'
    <3>1. CASE IsHost(c)
      <4>0. IsHost(c)' /\ ~IsGuest(c) /\ ~UndoOwner(c)
        BY <2>2, <3>1 DEF Alone, IsHost, IsGuest
      <4>1. CASE \E d \in Commands : pc[d] \in Taking \ {"removeHost"} /\ target[d] = c
        BY <4>0, <4>1 DEF OwnerDue, Alone
      <4>2. CASE Up(c)
        BY <4>0, <4>2, RegistryConstants DEF OwnerDue, Up, Alone, StartEffect, guildOf
      <4>3. CASE pc[c] = "create"
        BY <4>0, <4>3, <1>3 DEF OwnerDue, StartStep, StartBegin, Enlist, Snapshot, AttachSpeaker,
           SpeakersJoined, HostCreate, Build, CtxCheck, Commit, StartPipeline,
           Release, Undo, UndoWaited, UndoRegistry, Goto, TypeInv, TypeOK
      <4>4. CASE \/ pc[c] \in {"build", "check", "commit"}
                 \/ pc[c] \in {"undo", "undoWait"} /\ hostOf[c] # None
        <5>1. hostOf[c] # None /\ hostOf' = hostOf
          <6>1. hostOf[c] # None
            BY <3>1, <4>4 DEF RegistryInv, CreatedOK
          <6>2. hostOf' = hostOf
            BY <4>4 DEF StartStep, StartBegin, Enlist, Snapshot, AttachSpeaker,
               SpeakersJoined, AttachOwner, HostCreate, Build, CtxCheck, Commit, StartPipeline,
               Release, Undo, UndoWaited, UndoOwner, UndoRegistry, registryVars
          <6>. QED
            BY <6>1, <6>2
        <5>2. \/ pc'[c] \in {"build", "check", "commit", "undo", "undoWait", "undoOwner"}
              \/ pc'[c] = "start" /\ Commit(c)
          <6>1. CASE Commit(c)
            BY <6>1 DEF Commit, Goto, TypeInv, TypeOK
          <6>2. CASE ~Commit(c)
            BY <3>1, <4>0, <4>4, <5>1, <6>2 DEF StartStep, StartBegin, Enlist, Snapshot,
               AttachSpeaker, SpeakersJoined, AttachOwner, HostCreate, Build, CtxCheck,
               StartPipeline, Release, Undo, UndoWaited, UndoRegistry, Goto, TypeInv,
               TypeOK
          <6>. QED
            BY <6>1, <6>2
        <5>3. pc'[c] = "start" /\ Commit(c) => Up(c)'
          BY DEF Commit, Goto, Up, Alone, guildOf, TypeInv, TypeOK, RequestOK
        <5>. QED
          BY <4>0, <5>1, <5>2, <5>3 DEF OwnerDue
      <4>5. pc[c] # "undoOwner"
        BY <1>3, <4>0 DEF StartStep, StartBegin, Enlist, Snapshot, AttachSpeaker,
           SpeakersJoined, HostCreate, Build, CtxCheck, Commit, StartPipeline,
           Release, Undo, UndoWaited, UndoRegistry
      <4>. QED
        BY <2>2, <3>1, <4>0, <4>1, <4>2, <4>3, <4>4, <4>5 DEF OwnerDue
    <3>2. CASE IsGuest(c)
      <4>0. /\ IsGuest(c)' /\ ~IsHost(c) /\ c \in ownerUp /\ c \in ownerUp' /\ ~UndoOwner(c)
            /\ pc[c] \in {"build", "commit", "start", "undo", "undoWait", "undoOwner"} \/
               down[c] \in {"wait", "clear", "speakers", "speakersWait", "owner"}
        <5>1. IsGuest(c)' /\ ~IsHost(c)
          BY <3>2 DEF Alone, IsHost, IsGuest
        <5>. QED
          BY <2>2, <5>1, StartStepVoice DEF OwnerDue
      <4>1. \/ pc'[c] \in {"build", "commit", "start", "undo", "undoWait", "undoOwner"}
            \/ down'[c] \in {"wait", "clear", "speakers", "speakersWait", "owner"}
        <5>1. CASE pc[c] \in {"build", "commit", "start", "undo", "undoWait", "undoOwner"}
          BY <1>3, <4>0, <5>1 DEF StartStep, StartBegin, Enlist, Snapshot, AttachSpeaker,
             SpeakersJoined, HostCreate, Build, CtxCheck, Commit, StartPipeline,
             Release, Undo, UndoWaited, UndoRegistry, Goto, TypeInv, TypeOK
        <5>2. CASE pc[c] \notin {"build", "commit", "start", "undo", "undoWait", "undoOwner"}
          <6>1. down' = down
            BY <5>2 DEF StartStep, StartBegin, Enlist, Snapshot, AttachSpeaker,
               SpeakersJoined, AttachOwner, HostCreate, Build, CtxCheck, Commit, StartPipeline,
               Release, Undo, UndoWaited, UndoOwner, UndoRegistry
          <6>. QED
            BY <4>0, <5>2, <6>1
        <5>. QED
          BY <5>1, <5>2
      <4>. QED
        BY <4>0, <4>1 DEF OwnerDue
    <3>. QED
      BY <3>1, <3>2 DEF IsStart
  <2>3. CASE voice'[g][Owner] # None /\ voice'[g][Owner] = voice[g][Owner]
    <3>1. PICK x \in Commands : voice[g][Owner] = x /\ guildOf(x) = g /\ OwnerDue(x)
      BY <2>3 DEF OwnerInv, OwnerVoiceOK
    <3>2. OwnerDue(x)'
      <4>1. CASE x # c
        BY <1>1, <3>1, <4>1
      <4>2. CASE x = c
        BY <2>1, <2>2, <2>3, <3>1, <4>2
      <4>. QED
        BY <4>1, <4>2
    <3>. QED
      BY <2>3, <3>1, <3>2 DEF OwnerVoiceOK, Alone, guildOf
  <2>. QED
    BY <2>1, <2>3 DEF OwnerVoiceOK
<1>. QED
  BY <1>2, <1>3

\* What a step of a stop does to the raids and their bots: it takes the session,
\* cleans up after the raid it has taken, or makes the guild's owner bot leave.
StopEffect(c) ==
    LET g == guildOf(c) IN
    /\ pc[c] \in StopSteps /\ pc'[c] \in StopSteps \cup {"done"} /\ ~IsStart(c) /\ g \in Guilds
    /\ UNCHANGED <<down, joined, pending, ownerUp, hostOf>>
    /\ \/ session' = session
       \/ /\ pc[c] = "look" /\ pc'[c] = "cancel" /\ target'[c] = session[g] /\ session[g] # None
          /\ session' = [session EXCEPT ![g] = None]
    /\ \/ voice' = voice
       \/ pc[c] = "leaveOwner" /\ SetVoice(g, Owner, None)
    /\ \/ UNCHANGED <<cleaned, leaving>> /\ (pc[c] = "cleanup" => target[c] \in cleaned)
       \/ /\ pc[c] = "cleanup" /\ target[c] \notin cleaned
          /\ cleaned' = cleaned \cup {target[c]}
          /\ leaving' = [leaving EXCEPT ![target[c]] = joined[target[c]]]
    /\ pc[c] \in Taking => target'[c] = target[c]
    /\ pc[c] = "cancel" => pc'[c] = "detach"
    /\ pc[c] = "detach" => pc'[c] = "cleanup"
    /\ pc[c] = "cleanup" => pc'[c] = "cleanupWait"
    /\ pc[c] = "cleanupWait" =>
          leaving[target[c]] = {} /\ (IsHost(target[c]) => pc'[c] = "leaveOwner")
    /\ pc[c] = "leaveOwner" => SetVoice(g, Owner, None)

\* No step of a stop does more.
LEMMA StopStepEffect ==
  ASSUME TypeInv, OrderInv, NEW c \in Commands, StopStep(c)
  PROVE  StopEffect(c)
<1>. DEFINE g == guildOf(c)
<1>1. pc[c] \in StopSteps /\ pc'[c] \in StopSteps \cup {"done"}
  BY DEF StopStep, StopLook, CancelStart, IdleFallback, StopCancel, StopDetach, StopCleanup,
     StopWaited, StopLeaveOwner, StopRemoveHost, StopClear, ForgetDrop, StopReturns, Goto,
     StopSteps, TypeInv, TypeOK
<1>2. ~IsStart(c) /\ g \in Guilds
  BY <1>1 DEF OrderInv, TakenOK, TypeInv, RequestOK, StopSteps
<1>3. UNCHANGED <<down, joined, pending, ownerUp, hostOf>>
  BY DEF StopStep, StopLook, CancelStart, IdleFallback, StopCancel, StopDetach, StopCleanup,
     StopWaited, StopLeaveOwner, StopRemoveHost, StopClear, ForgetDrop, localVars, registryVars,
     RemoveHost, RemoveGuild
<1>4. \/ session' = session
      \/ /\ pc[c] = "look" /\ pc'[c] = "cancel" /\ target'[c] = session[g] /\ session[g] # None
         /\ session' = [session EXCEPT ![g] = None]
  <2>1. CASE ForgetDrop(c)
    BY <2>1 DEF ForgetDrop, OrderInv, SessionFits, AfterLook, TypeInv, TypeOK
  <2>2. CASE StopLook(c)
    BY <2>2 DEF StopLook, TakesSession, Goto, TypeInv, TypeOK
  <2>. QED
    BY <2>1, <2>2 DEF StopStep, CancelStart, IdleFallback, StopCancel, StopDetach,
       StopCleanup, StopWaited, StopLeaveOwner, StopRemoveHost, StopClear, serviceVars
<1>5. /\ voice' = voice \/ (pc[c] = "leaveOwner" /\ SetVoice(g, Owner, None))
      /\ pc[c] = "leaveOwner" => SetVoice(g, Owner, None)
  BY DEF StopStep, StopLook, CancelStart, IdleFallback, StopCancel, StopDetach, StopCleanup,
     StopWaited, StopLeaveOwner, StopRemoveHost, StopClear, ForgetDrop, voiceVars
<1>6. \/ UNCHANGED <<cleaned, leaving>> /\ (pc[c] = "cleanup" => target[c] \in cleaned)
      \/ /\ pc[c] = "cleanup" /\ target[c] \notin cleaned
         /\ cleaned' = cleaned \cup {target[c]}
         /\ leaving' = [leaving EXCEPT ![target[c]] = joined[target[c]]]
  BY DEF StopStep, StopLook, CancelStart, IdleFallback, StopCancel, StopDetach, StopCleanup,
     StopWaited, StopLeaveOwner, StopRemoveHost, StopClear, ForgetDrop, onceVars, SpeakerCleanup
<1>7. pc[c] \in Taking => target'[c] = target[c]
  BY DEF StopStep, StopLook, CancelStart, IdleFallback, StopCancel, StopDetach, StopCleanup,
     StopWaited, StopLeaveOwner, StopRemoveHost, StopClear, ForgetDrop, Taking, localVars
<1>8. /\ pc[c] = "cancel" => pc'[c] = "detach"
      /\ pc[c] = "detach" => pc'[c] = "cleanup"
      /\ pc[c] = "cleanup" => pc'[c] = "cleanupWait"
  BY DEF StopStep, StopLook, CancelStart, IdleFallback, StopCancel, StopDetach, StopCleanup,
     StopWaited, StopLeaveOwner, StopRemoveHost, StopClear, ForgetDrop, Goto, TypeInv, TypeOK
<1>9. pc[c] = "cleanupWait" =>
          leaving[target[c]] = {} /\ (IsHost(target[c]) => pc'[c] = "leaveOwner")
  BY DEF StopStep, StopLook, CancelStart, IdleFallback, StopCancel, StopDetach, StopCleanup,
     StopWaited, StopLeaveOwner, StopRemoveHost, StopClear, ForgetDrop, Goto, SpeakersLeft,
     TypeInv, TypeOK
<1>. QED
  BY <1>1, <1>2, <1>3, <1>4, <1>5, <1>6, <1>7, <1>8, <1>9 DEF StopEffect

\* A raid is up after a stop's step if it was and the stop has not taken it.
LEMMA StopUp ==
  ASSUME TypeInv, NEW c \in Commands, Alone(c), StopEffect(c), NEW x \in Commands
  PROVE  /\ Up(x)' => Up(x)
         /\ Up(x) => Up(x)' \/ (pc'[c] = "cancel" /\ target'[c] = x)
<1>1. CASE session' = session
  BY <1>1 DEF Up, Alone, guildOf
<1>2. CASE session' # session /\ guildOf(x) = guildOf(c)
  BY <1>2, RegistryConstants DEF StopEffect, Up, Alone, guildOf, TypeInv, TypeOK
<1>3. CASE session' # session /\ guildOf(x) # guildOf(c)
  BY <1>3 DEF StopEffect, Up, Alone, guildOf, TypeInv, TypeOK
<1>. QED
  BY <1>1, <1>2, <1>3

\* A stop keeps VoiceInv: it takes a raid's session before it makes its bots
\* leave, and waits until they have left.
LEMMA StopStepVoice ==
  ASSUME TypeInv, RelayInv, LeakInv, OrderInv, VoiceInv, NEW c \in Commands, StopStep(c)
  PROVE  VoiceInv'
<1>. Alone(c) /\ StopEffect(c)
  BY StopStepRequest, StopStepEffect
<1>. DEFINE g == guildOf(c)
<1>. Owner \in Bots /\ Speakers \subseteq Bots /\ Owner \notin Speakers
  BY LifecycleConstants DEF Bots
<1>1. ASSUME NEW x \in Commands PROVE ServedOK(x)'
  <2>1. CASE x = c
    <3>1. ~Up(c)' /\ pc'[c] \notin Joining \cup BeforeCreate \cup {"speakers"}
      BY StopUp, RegistryConstants
         DEF Up, StopEffect, RelayInv, SessionOK, StopSteps, Joining, BeforeCreate
    <3>. QED
      BY <2>1, <3>1 DEF ServedOK, Joining
  <2>2. CASE x # c
    <3>1. /\ joined'[x] = joined[x] /\ pending'[x] = pending[x] /\ pc'[x] = pc[x]
          /\ guildOf(x)' = guildOf(x) /\ ownerUp' = ownerUp /\ IsHost(x)' = IsHost(x)
      BY <2>2 DEF Alone, StopEffect, guildOf, IsHost
    <3>2. Up(x)' => Up(x)
      BY StopUp
    <3>3. ASSUME pc[x] \in Joining \/ Up(x)', NEW d \in Bots
          PROVE  voice'[guildOf(x)][d] = voice[guildOf(x)][d]
      <4>1. guildOf(x) \in Guilds
        BY <3>2, <3>3 DEF Up, TypeInv, RequestOK, Joining
      <4>2. pc[c] = "leaveOwner" => guildOf(x) # g
        <5>1. pc[c] = "leaveOwner" => session[g] = None /\ Busy(c)
          BY DEF OrderInv, SessionFits, AfterLook, Taking, Busy
        <5>2. pc[x] \in Joining /\ guildOf(x) = g => ~Busy(c)
          BY <2>2 DEF OrderInv, AloneOK, Joining, StartSteps
        <5>. QED
          BY <3>2, <3>3, <5>1, <5>2, RegistryConstants DEF Up
      <4>. QED
        BY <4>1, <4>2, SetVoiceAt DEF StopEffect, TypeInv
    <3>4. ServedOK(x) /\ joined[x] \subseteq Bots
      BY DEF VoiceInv, TypeInv, TypeOK
    <3>5. pc'[x] \in Joining \/ Up(x)' =>
              \A b \in joined'[x] : voice'[guildOf(x)'][b] = x
      BY <3>1, <3>2, <3>3, <3>4 DEF ServedOK
    <3>6. /\ pc'[x] \in {"create", "build", "check", "commit"} \/ Up(x)'
          /\ IsHost(x)' \/ x \in ownerUp'
          => voice'[guildOf(x)'][Owner] = x
      BY <3>1, <3>2, <3>3, <3>4 DEF ServedOK, Joining
    <3>. QED
      BY <3>1, <3>4, <3>5, <3>6 DEF ServedOK
  <2>. QED
    BY <2>1, <2>2
<1>2. ASSUME NEW x \in Commands PROVE LeavingOK(x)'
  <2>1. CASE leaving'[x] # leaving[x]
    <3>1. pc[c] = "cleanup" /\ target[c] = x /\ x \in cleaned' /\ pc'[c] = "cleanupWait"
          /\ target'[c] = x
      BY <2>1 DEF StopEffect, Taking, TypeInv, TypeOK
    <3>. QED
      BY <3>1 DEF LeavingOK, LeavesAwaited
  <2>2. CASE leaving'[x] = leaving[x]
    <3>1. leaving[x] # {} => x \in cleaned' /\ LeavesAwaited(x)
      BY DEF VoiceInv, LeavingOK, StopEffect
    <3>2. leaving[x] # {} /\ LeavesAwaited(x) => LeavesAwaited(x)'
      BY DEF LeavesAwaited, Alone, StopEffect, StopSteps
    <3>. QED
      BY <2>2, <3>1, <3>2 DEF LeavingOK
  <2>. QED
    BY <2>1, <2>2
<1>3. ASSUME NEW x \in Commands PROVE CleanupDueOK(x)'
  <2>. SUFFICES ASSUME joined[x] # {}, x \notin cleaned' PROVE CleanupDue(x)'
    BY DEF CleanupDueOK, StopEffect
  <2>1. CleanupDue(x) /\ x \notin cleaned
    BY DEF VoiceInv, CleanupDueOK, StopEffect
  <2>2. CASE pc[x] \in Joining \cup {"undo"} \/ down[x] = "speakers"
    BY <2>2 DEF CleanupDue, Alone, StopEffect, StopSteps, Joining
  <2>3. CASE Up(x)
    BY <2>3, StopUp DEF CleanupDue
  <2>4. CASE \E d \in Commands : pc[d] \in {"cancel", "detach", "cleanup"} /\ target[d] = x
    <3>. PICK d \in Commands : pc[d] \in {"cancel", "detach", "cleanup"} /\ target[d] = x
      BY <2>4
    <3>1. CASE d # c
      BY <3>1 DEF CleanupDue, Alone
    <3>2. CASE d = c
      BY <2>1, <3>2 DEF CleanupDue, StopEffect, Taking
    <3>. QED
      BY <3>1, <3>2
  <2>. QED
    BY <2>1, <2>2, <2>3, <2>4 DEF CleanupDue
<1>4. ASSUME NEW h \in Guilds, NEW b \in Speakers PROVE SpeakerVoiceOK(h, b)'
  <2>1. voice'[h][b] = voice[h][b]
    BY SetVoiceAt DEF StopEffect, TypeInv
  <2>2. CASE voice[h][b] # None
    <3>1. PICK x \in Commands : /\ voice[h][b] = x /\ guildOf(x) = h /\ b \in joined[x]
                                /\ x \in cleaned => b \in leaving[x]
      BY <2>2 DEF VoiceInv, SpeakerVoiceOK
    <3>2. x \in cleaned' => b \in leaving'[x]
      BY <3>1 DEF StopEffect, TypeInv, TypeOK
    <3>. QED
      BY <2>1, <3>1, <3>2 DEF SpeakerVoiceOK, Alone, StopEffect, guildOf
  <2>. QED
    BY <2>1, <2>2 DEF SpeakerVoiceOK
<1>. QED
  BY <1>1, <1>2, <1>3, <1>4 DEF VoiceInv

\* A stop makes the owner bot of the raid it has taken leave.
LEMMA StopStepOwner ==
  ASSUME TypeInv, OrderInv, OwnerInv, NEW c \in Commands, StopStep(c)
  PROVE  OwnerInv'
<1>. Alone(c) /\ StopEffect(c)
  BY StopStepRequest, StopStepEffect
<1>. Owner \in Bots
  BY DEF Bots
<1>. SUFFICES ASSUME NEW h \in Guilds, voice'[h][Owner] # None PROVE OwnerVoiceOK(h)'
  BY DEF OwnerInv, OwnerVoiceOK
<1>1. voice'[h][Owner] = voice[h][Owner] /\ (pc[c] = "leaveOwner" => h # guildOf(c))
  BY SetVoiceAt DEF StopEffect, TypeInv
<1>2. PICK x \in Commands : voice[h][Owner] = x /\ guildOf(x) = h /\ OwnerDue(x)
  BY <1>1 DEF OwnerInv, OwnerVoiceOK
<1>3. OwnerDue(x)'
  <2>0. IsHost(x)' = IsHost(x) /\ IsGuest(x)' = IsGuest(x)
    BY DEF Alone, IsHost, IsGuest
  <2>1. CASE IsHost(x)
    <3>1. pc'[x] = pc[x] /\ hostOf'[x] = hostOf[x]
      BY <2>1 DEF StopEffect, IsStart, Alone
    <3>2. CASE \E d \in Commands : pc[d] \in Taking \ {"removeHost"} /\ target[d] = x
      <4>. PICK d \in Commands : pc[d] \in Taking \ {"removeHost"} /\ target[d] = x
        BY <3>2
      <4>1. CASE d # c
        BY <2>0, <2>1, <4>1 DEF OwnerDue, Alone
      <4>2. CASE d = c
        <5>1. pc[c] # "leaveOwner"
          BY <1>1, <1>2, <4>2 DEF OrderInv, TakenOK
        <5>2. pc'[c] \in Taking \ {"removeHost"} /\ target'[c] = x
          BY <2>1, <4>2, <5>1 DEF StopEffect, Taking
        <5>. QED
          BY <2>0, <2>1, <5>2 DEF OwnerDue
      <4>. QED
        BY <4>1, <4>2
    <3>3. CASE Up(x)
      BY <2>0, <2>1, <3>3, StopUp DEF OwnerDue, Taking
    <3>. QED
      BY <1>2, <2>0, <2>1, <3>1, <3>2, <3>3 DEF OwnerDue, IsHost, IsGuest
  <2>2. CASE ~IsHost(x)
    <3>1. pc'[x] = pc[x] /\ IsGuest(x)
      BY <1>2, <2>2 DEF OwnerDue, StopEffect, IsStart, Alone
    <3>. QED
      BY <1>2, <2>0, <2>2, <3>1 DEF OwnerDue, StopEffect
  <2>. QED
    BY <2>1, <2>2
<1>. QED
  BY <1>1, <1>2, <1>3 DEF OwnerVoiceOK, Alone, guildOf

\* What a step of a guest's teardown does to its raid and its bots.
TeardownEffect(c) ==
    LET g == guildOf(c) IN
    /\ UNCHANGED <<req, pc, target, joined, pending, ownerUp, hostOf>>
    /\ ~TornDown(c) /\ IsGuest(c) /\ ~IsHost(c) /\ g \in Guilds
    /\ pc[c] \in {"release", "done"}
    /\ \A d \in Commands : d # c => down'[d] = down[d]
    /\ \/ session' = session
       \/ /\ session[g] \in {None, c} /\ down'[c] = "speakers"
          /\ session' = [session EXCEPT ![g] = None]
    /\ \/ voice' = voice
       \/ down[c] = "owner" /\ SetVoice(g, Owner, None)
    /\ \/ UNCHANGED <<cleaned, leaving>> /\ (down[c] = "speakers" => c \in cleaned)
       \/ /\ down[c] = "speakers" /\ c \notin cleaned /\ down'[c] = "speakersWait"
          /\ cleaned' = cleaned \cup {c}
          /\ leaving' = [leaving EXCEPT ![c] = joined[c]]
    /\ down[c] = "speakersWait" => leaving[c] = {}
    /\ down[c] = "owner" /\ c \in ownerUp => SetVoice(g, Owner, None)
    /\ down[c] \in {"wait", "clear", "speakers", "speakersWait"} =>
          down'[c] \in {"clear", "speakers", "speakersWait", "owner"}

\* No step of a teardown does more.
LEMMA TeardownStepEffect ==
  ASSUME TypeInv, RelayInv, OrderInv, NEW c \in Commands, TeardownStep(c)
  PROVE  TeardownEffect(c)
<1>. DEFINE g == guildOf(c)
<1>1. /\ UNCHANGED <<req, pc, target, joined, pending, ownerUp, hostOf>> /\ ~TornDown(c)
      /\ \A d \in Commands : d # c => down'[d] = down[d]
  BY DEF TeardownStep, TeardownWake, TeardownClear, TeardownSpeakers, TeardownWaited,
     TeardownOwner, TeardownDetach, TeardownClose, TeardownUnlist, TeardownForget, localVars,
     registryVars, RemoveGuild, RemoveGuest, DownTo, TornDown, TypeInv, TypeOK
<1>2. IsGuest(c) /\ ~IsHost(c) /\ g \in Guilds /\ pc[c] \in {"release", "done"}
  BY <1>1 DEF TornDown, RelayInv, TeardownOK, IsGuest, IsHost, TypeInv, RequestOK
<1>3. \/ session' = session
      \/ /\ session[g] \in {None, c} /\ down'[c] = "speakers"
         /\ session' = [session EXCEPT ![g] = None]
  <2>1. CASE TeardownClear(c)
    BY <2>1 DEF TeardownClear, DownTo, OrderInv, SessionFits, TypeInv, TypeOK
  <2>2. CASE ~TeardownClear(c)
    BY <2>2 DEF TeardownStep, TeardownWake, TeardownSpeakers, TeardownWaited, TeardownOwner,
       TeardownDetach, TeardownClose, TeardownUnlist, TeardownForget, serviceVars
  <2>. QED
    BY <2>1, <2>2
<1>4. /\ voice' = voice \/ (down[c] = "owner" /\ SetVoice(g, Owner, None))
      /\ down[c] = "owner" /\ c \in ownerUp => SetVoice(g, Owner, None)
      /\ down[c] = "speakersWait" => leaving[c] = {}
  BY DEF TeardownStep, TeardownWake, TeardownClear, TeardownSpeakers, TeardownWaited,
     TeardownOwner, TeardownDetach, TeardownClose, TeardownUnlist, TeardownForget, voiceVars,
     SpeakersLeft
<1>5. \/ UNCHANGED <<cleaned, leaving>> /\ (down[c] = "speakers" => c \in cleaned)
      \/ /\ down[c] = "speakers" /\ c \notin cleaned /\ down'[c] = "speakersWait"
         /\ cleaned' = cleaned \cup {c}
         /\ leaving' = [leaving EXCEPT ![c] = joined[c]]
  BY DEF TeardownStep, TeardownWake, TeardownClear, TeardownSpeakers, TeardownWaited,
     TeardownOwner, TeardownDetach, TeardownClose, TeardownUnlist, TeardownForget, onceVars,
     SpeakerCleanup, DownTo, TypeInv, TypeOK
<1>6. down[c] \in {"wait", "clear", "speakers", "speakersWait"} =>
          down'[c] \in {"clear", "speakers", "speakersWait", "owner"}
  BY DEF TeardownStep, TeardownWake, TeardownClear, TeardownSpeakers, TeardownWaited,
     TeardownOwner, TeardownDetach, TeardownClose, TeardownUnlist, TeardownForget, DownTo,
     TypeInv, TypeOK
<1>. QED
  BY <1>1, <1>2, <1>3, <1>4, <1>5, <1>6 DEF TeardownEffect

\* A raid is up after a teardown's step if it was, unless it is the guest's own.
LEMMA TeardownUp ==
  ASSUME TypeInv, NEW c \in Commands, TeardownEffect(c), NEW x \in Commands
  PROVE  /\ Up(x)' => Up(x)
         /\ Up(x) => Up(x)' \/ (x = c /\ down'[c] = "speakers")
<1>1. CASE session' = session
  BY <1>1 DEF TeardownEffect, Up, guildOf
<1>2. CASE session' # session /\ guildOf(x) = guildOf(c)
  BY <1>2, RegistryConstants DEF TeardownEffect, Up, guildOf, TypeInv, TypeOK
<1>3. CASE session' # session /\ guildOf(x) # guildOf(c)
  BY <1>3 DEF TeardownEffect, Up, guildOf, TypeInv, TypeOK
<1>. QED
  BY <1>1, <1>2, <1>3

\* A guest's teardown keeps VoiceInv: it ends the session before its bots leave.
LEMMA TeardownStepVoice ==
  ASSUME TypeInv, RelayInv, LeakInv, OrderInv, VoiceInv, NEW c \in Commands, TeardownStep(c)
  PROVE  VoiceInv'
<1>. TeardownEffect(c)
  BY TeardownStepEffect
<1>. DEFINE g == guildOf(c)
<1>. /\ Owner \in Bots /\ Speakers \subseteq Bots /\ Owner \notin Speakers
     /\ UNCHANGED <<req, pc, target, joined, pending, ownerUp, hostOf>>
  BY LifecycleConstants DEF Bots, TeardownEffect
<1>1. ASSUME NEW x \in Commands PROVE ServedOK(x)'
  <2>1. Up(x)' => Up(x)
    BY TeardownUp
  <2>2. ASSUME pc[x] \in Joining \/ Up(x), NEW d \in Bots
        PROVE  voice'[guildOf(x)][d] = voice[guildOf(x)][d]
    <3>1. guildOf(x) \in Guilds
      BY <2>2 DEF Up, TypeInv, RequestOK, Joining
    <3>2. down[c] = "owner" => guildOf(x) # g
      <4>1. down[c] = "owner" => session[g] = None /\ Busy(c) /\ pc[c] \notin Joining
        BY DEF OrderInv, SessionFits, Busy, TeardownEffect, Joining
      <4>2. pc[x] \in Joining /\ guildOf(x) = g /\ x # c => ~Busy(c)
        BY DEF OrderInv, AloneOK, Joining, StartSteps
      <4>. QED
        BY <2>2, <4>1, <4>2, RegistryConstants DEF Up
    <3>. QED
      BY <3>1, <3>2, SetVoiceAt DEF TeardownEffect, TypeInv
  <2>3. ServedOK(x) /\ joined[x] \subseteq Bots
    BY DEF VoiceInv, TypeInv, TypeOK
  <2>4. pc[x] \in Joining \/ Up(x)' => \A b \in joined[x] : voice'[guildOf(x)][b] = x
    BY <2>1, <2>2, <2>3 DEF ServedOK
  <2>5. /\ pc[x] \in {"create", "build", "check", "commit"} \/ Up(x)'
        /\ IsHost(x) \/ x \in ownerUp
        => voice'[guildOf(x)][Owner] = x
    BY <2>1, <2>2, <2>3 DEF ServedOK, Joining
  <2>. QED
    BY <2>3, <2>4, <2>5 DEF ServedOK, guildOf, IsHost
<1>2. ASSUME NEW x \in Commands PROVE LeavingOK(x)'
  <2>1. CASE leaving'[x] # leaving[x]
    <3>1. x = c /\ c \in cleaned' /\ down'[c] = "speakersWait"
      BY <2>1 DEF TeardownEffect, TypeInv, TypeOK
    <3>. QED
      BY <3>1 DEF LeavingOK, LeavesAwaited
  <2>2. CASE leaving'[x] = leaving[x]
    <3>1. leaving[x] # {} => x \in cleaned' /\ LeavesAwaited(x)
      BY DEF VoiceInv, LeavingOK, TeardownEffect
    <3>2. leaving[x] # {} /\ LeavesAwaited(x) => LeavesAwaited(x)'
      BY DEF LeavesAwaited, TeardownEffect
    <3>. QED
      BY <2>2, <3>1, <3>2 DEF LeavingOK
  <2>. QED
    BY <2>1, <2>2
<1>3. ASSUME NEW x \in Commands PROVE CleanupDueOK(x)'
  <2>. SUFFICES ASSUME joined[x] # {}, x \notin cleaned' PROVE CleanupDue(x)'
    BY DEF CleanupDueOK
  <2>1. CleanupDue(x) /\ x \notin cleaned
    BY DEF VoiceInv, CleanupDueOK, TeardownEffect
  <2>2. down[x] = "speakers" => down'[x] = "speakers"
    BY <2>1 DEF TeardownEffect
  <2>3. Up(x) => Up(x)' \/ down'[x] = "speakers"
    BY TeardownUp
  <2>. QED
    BY <2>1, <2>2, <2>3 DEF CleanupDue
<1>4. ASSUME NEW h \in Guilds, NEW b \in Speakers PROVE SpeakerVoiceOK(h, b)'
  <2>1. voice'[h][b] = voice[h][b]
    BY SetVoiceAt DEF TeardownEffect, TypeInv
  <2>2. CASE voice[h][b] # None
    <3>1. PICK x \in Commands : /\ voice[h][b] = x /\ guildOf(x) = h /\ b \in joined[x]
                                /\ x \in cleaned => b \in leaving[x]
      BY <2>2 DEF VoiceInv, SpeakerVoiceOK
    <3>2. x \in cleaned' => b \in leaving'[x]
      BY <3>1 DEF TeardownEffect, TypeInv, TypeOK
    <3>. QED
      BY <2>1, <3>1, <3>2 DEF SpeakerVoiceOK, guildOf
  <2>. QED
    BY <2>1, <2>2 DEF SpeakerVoiceOK
<1>. QED
  BY <1>1, <1>2, <1>3, <1>4 DEF VoiceInv

\* A guest's teardown makes its owner bot leave.
LEMMA TeardownStepOwner ==
  ASSUME TypeInv, RelayInv, OrderInv, OwnerInv, NEW c \in Commands, TeardownStep(c)
  PROVE  OwnerInv'
<1>. TeardownEffect(c)
  BY TeardownStepEffect
<1>. /\ Owner \in Bots
     /\ UNCHANGED <<req, pc, target, joined, pending, ownerUp, hostOf>>
  BY DEF Bots, TeardownEffect
<1>. SUFFICES ASSUME NEW h \in Guilds, voice'[h][Owner] # None PROVE OwnerVoiceOK(h)'
  BY DEF OwnerInv, OwnerVoiceOK
<1>1. /\ voice'[h][Owner] = voice[h][Owner]
      /\ down[c] = "owner" /\ c \in ownerUp => h # guildOf(c)
  BY SetVoiceAt DEF TeardownEffect, TypeInv
<1>2. PICK x \in Commands : voice[h][Owner] = x /\ guildOf(x) = h /\ OwnerDue(x)
  BY <1>1 DEF OwnerInv, OwnerVoiceOK
<1>3. OwnerDue(x)'
  <2>1. CASE x # c
    BY <1>2, <2>1, TeardownUp DEF OwnerDue, TeardownEffect, IsHost, IsGuest
  <2>2. CASE x = c
    <3>1. /\ IsGuest(c)' /\ c \in ownerUp /\ down[c] # "owner"
          /\ down[c] \in {"wait", "clear", "speakers", "speakersWait"}
      BY <1>1, <1>2, <2>2 DEF OwnerDue, TeardownEffect, IsGuest
    <3>. QED
      BY <2>2, <3>1 DEF OwnerDue, TeardownEffect
  <2>. QED
    BY <2>1, <2>2
<1>. QED
  BY <1>1, <1>2, <1>3 DEF OwnerVoiceOK, guildOf

\* While a raid's speakers leave, nobody else serves the guild.
LEMMA NobodyServed ==
  ASSUME TypeInv, RelayInv, OrderInv, NEW x \in Commands, LeavesAwaited(x), NEW y \in Commands,
         guildOf(y) = guildOf(x)
  PROVE  guildOf(x) \in Guilds /\ pc[y] \notin Joining /\ ~Up(y)
<1>1. CASE pc[x] = "undoWait"
  <2>1. guildOf(x) \in Guilds /\ session[guildOf(x)] = None
    BY <1>1 DEF TypeInv, RequestOK, OrderInv, SessionFits, Unmade, StartSteps
  <2>2. pc[y] \notin Joining
    BY <1>1 DEF OrderInv, AloneOK, Busy, StartSteps, Joining
  <2>. QED
    BY <2>1, <2>2, RegistryConstants DEF Up
<1>2. CASE down[x] = "speakersWait"
  <2>1. /\ guildOf(x) \in Guilds /\ session[guildOf(x)] = None
        /\ pc[x] \in {"release", "done"}
    BY <1>2 DEF TypeInv, RequestOK, OrderInv, SessionFits, RelayInv, TeardownOK
  <2>2. pc[y] \notin Joining
    BY <1>2, <2>1 DEF OrderInv, AloneOK, Busy, StartSteps, Joining
  <2>. QED
    BY <2>1, <2>2, RegistryConstants DEF Up
<1>3. ASSUME NEW d \in Commands, pc[d] = "cleanupWait", target[d] = x
      PROVE  guildOf(x) \in Guilds /\ pc[y] \notin Joining /\ ~Up(y)
  <2>1. guildOf(x) = guildOf(d) /\ guildOf(x) \in Guilds /\ session[guildOf(x)] = None
    BY <1>3 DEF TypeInv, RequestOK, OrderInv, SessionFits, TakenOK, Taking, AfterLook
  <2>2. pc[y] \notin Joining
    BY <1>3, <2>1 DEF OrderInv, AloneOK, Busy, StartSteps, Joining
  <2>. QED
    BY <2>1, <2>2, RegistryConstants DEF Up
<1>. QED
  BY <1>1, <1>2, <1>3 DEF LeavesAwaited

\* The leave of a speaker hits no raid that serves.
LEMMA SpeakerStepVoice ==
  ASSUME TypeInv, RelayInv, OrderInv, VoiceInv, NEW c \in Commands, SpeakerStep(c)
  PROVE  VoiceInv' /\ (OwnerInv => OwnerInv')
<1>. PICK b \in Speakers : SpeakerLeave(c, b)
  BY DEF SpeakerStep
<1>. /\ b \in Bots /\ b # Owner /\ Owner \in Bots
     /\ UNCHANGED <<req, pc, target, pending, joined, ownerUp, session, down, cleaned, hostOf>>
     /\ b \in leaving[c]
     /\ \A y \in Commands : leaving'[y] = IF y = c THEN leaving[c] \ {b} ELSE leaving[y]
  BY LifecycleConstants DEF Bots, SpeakerLeave, localVars, serviceVars, registryVars, TypeInv,
     TypeOK
<1>1. LeavesAwaited(c) /\ c \in cleaned
  BY DEF VoiceInv, LeavingOK
<1>2. guildOf(c) \in Guilds
  BY <1>1, NobodyServed
<1>3. ASSUME NEW h \in Guilds, NEW d \in Bots
      PROVE  voice'[h][d] = IF h = guildOf(c) /\ d = b THEN None ELSE voice[h][d]
  BY <1>2, SetVoiceAt DEF SpeakerLeave, TypeInv
<1>4. ASSUME NEW x \in Commands PROVE ServedOK(x)'
  <2>1. ASSUME pc[x] \in Joining \/ Up(x), NEW d \in Bots
        PROVE  voice'[guildOf(x)][d] = voice[guildOf(x)][d]
    <3>1. guildOf(x) \in Guilds
      BY <2>1 DEF Up, TypeInv, RequestOK, Joining
    <3>2. guildOf(x) # guildOf(c)
      BY <1>1, <2>1, NobodyServed
    <3>. QED
      BY <1>3, <3>1, <3>2
  <2>2. ServedOK(x) /\ joined[x] \subseteq Bots
    BY DEF VoiceInv, TypeInv, TypeOK, Bots
  <2>3. pc[x] \in Joining \/ Up(x) => \A e \in joined[x] : voice'[guildOf(x)][e] = x
    BY <2>1, <2>2 DEF ServedOK
  <2>4. /\ pc[x] \in {"create", "build", "check", "commit"} \/ Up(x)
        /\ IsHost(x) \/ x \in ownerUp
        => voice'[guildOf(x)][Owner] = x
    BY <2>1, <2>2 DEF ServedOK, Joining
  <2>. QED
    BY <2>2, <2>3, <2>4 DEF ServedOK, guildOf, IsHost, Up
<1>5. ASSUME NEW x \in Commands PROVE LeavingOK(x)' /\ CleanupDueOK(x)'
  <2>1. LeavesAwaited(x)' = LeavesAwaited(x) /\ CleanupDue(x)' = CleanupDue(x)
    BY DEF LeavesAwaited, CleanupDue, Up, guildOf
  <2>. QED
    BY <2>1 DEF VoiceInv, LeavingOK, CleanupDueOK
<1>6. ASSUME NEW h \in Guilds, NEW d \in Speakers PROVE SpeakerVoiceOK(h, d)'
  <2>. d \in Bots
    BY DEF Bots
  <2>1. CASE voice'[h][d] = None
    BY <2>1 DEF SpeakerVoiceOK
  <2>2. CASE voice'[h][d] # None
    <3>1. voice'[h][d] = voice[h][d] /\ ~(h = guildOf(c) /\ d = b)
      BY <1>3, <2>2
    <3>2. PICK x \in Commands : /\ voice[h][d] = x /\ guildOf(x) = h /\ d \in joined[x]
                                /\ x \in cleaned => d \in leaving[x]
      BY <2>2, <3>1 DEF VoiceInv, SpeakerVoiceOK
    <3>3. x \in cleaned => d \in leaving'[x]
      BY <3>1, <3>2
    <3>. QED
      BY <3>1, <3>2, <3>3 DEF SpeakerVoiceOK, guildOf
  <2>. QED
    BY <2>1, <2>2
<1>7. OwnerInv => OwnerInv'
  <2>1. ASSUME NEW x PROVE OwnerDue(x)' = OwnerDue(x)
    BY DEF OwnerDue, Up, guildOf, IsHost, IsGuest
  <2>2. \A h \in Guilds : voice'[h][Owner] = voice[h][Owner]
    BY <1>3
  <2>. QED
    BY <2>1, <2>2 DEF OwnerInv, OwnerVoiceOK, guildOf
<1>. QED
  BY <1>4, <1>5, <1>6, <1>7 DEF VoiceInv

\* A command that arrives has no bots.
LEMMA ArriveVoice ==
  ASSUME TypeInv, RelayInv, LeakInv, OrderInv, VoiceInv, NEW c \in Commands, Arrive(c)
  PROVE  VoiceInv' /\ (OwnerInv => OwnerInv')
<1>. PICK kind, g0, arg : Issue(c, kind, g0, arg)
  BY DEF Arrive, IssueStart, IssueJoin, IssueStop, IssueForget, IssueIdleStop
<1>1. /\ pc[c] = "idle" /\ pc'[c] \in {"begin", "look"}
      /\ \A d \in Commands : d # c => pc'[d] = pc[d] /\ req'[d] = req[d]
      /\ UNCHANGED <<target, pending, joined, ownerUp, session, down, cleaned, leaving, voice,
                     hostOf>>
  BY DEF TypeInv, TypeOK, Issue, Goto, registryVars, onceVars, voiceVars
<1>2. /\ c \notin cleaned /\ joined[c] = {} /\ leaving[c] = {} /\ c \notin ownerUp
      /\ \A g \in Guilds : session[g] # c
      /\ ~OwnerDue(c)
  <2>1. /\ c \notin cleaned /\ \A g \in Guilds : session[g] # c
        /\ down[c] = "off" /\ c \notin ownerUp
    BY <1>1, RegistryConstants DEF LeakInv, OwnerOfOpenOK, Early, RelayInv, TeardownOK, SessionOK,
       VoiceInv, ServedOK, BeforeCreate
  <2>2. \A d \in Commands : pc[d] \in {"cancel", "detach", "cleanup"} => target[d] # c
    BY <1>1, RegistryConstants DEF OrderInv, TakenOK, Taking, StopSteps
  <2>3. joined[c] = {}
    BY <1>1, <2>1, <2>2 DEF VoiceInv, CleanupDueOK, CleanupDue, Joining, Up
  <2>4. ~OwnerDue(c)
    BY <1>1, NoOwnerYet DEF BeforeCreate
  <2>. QED
    BY <2>1, <2>3, <2>4 DEF VoiceInv, LeavingOK
<1>3. ASSUME NEW x \in Commands PROVE Up(x)' <=> (Up(x) /\ x # c)
  BY <1>1, <1>2 DEF Up, guildOf
<1>4. ASSUME NEW x \in Commands PROVE ServedOK(x)'
  <2>1. CASE x = c
    BY <1>1, <1>2, <1>3, <2>1 DEF ServedOK, Joining
  <2>2. CASE x # c
    BY <1>1, <1>3, <2>2 DEF VoiceInv, ServedOK, guildOf, IsHost
  <2>. QED
    BY <2>1, <2>2
<1>5. ASSUME NEW x \in Commands PROVE LeavingOK(x)' /\ CleanupDueOK(x)'
  <2>1. x # c /\ LeavesAwaited(x) => LeavesAwaited(x)'
    BY <1>1 DEF LeavesAwaited
  <2>2. x # c /\ CleanupDue(x) => CleanupDue(x)'
    BY <1>1, <1>3 DEF CleanupDue
  <2>. QED
    BY <1>1, <1>2, <2>1, <2>2 DEF VoiceInv, LeavingOK, CleanupDueOK
<1>6. ASSUME NEW h \in Guilds, NEW b \in Speakers PROVE SpeakerVoiceOK(h, b)'
  BY <1>1, <1>2 DEF VoiceInv, SpeakerVoiceOK, guildOf
<1>7. ASSUME OwnerInv PROVE OwnerInv'
  <2>1. ASSUME NEW x \in Commands, x # c, OwnerDue(x) PROVE OwnerDue(x)'
    BY <1>1, <1>3, <2>1 DEF OwnerDue, IsHost, IsGuest, Taking
  <2>. QED
    BY <1>1, <1>2, <1>7, <2>1 DEF OwnerInv, OwnerVoiceOK, guildOf
<1>. QED
  BY <1>4, <1>5, <1>6, <1>7 DEF VoiceInv

\* Every step of an orderly system keeps VoiceInv.
LEMMA VoiceInvStep ==
  TypeInv /\ RelayInv /\ LeakInv /\ OrderInv /\ VoiceInv /\ [Next]_vars => VoiceInv'
<1>. SUFFICES ASSUME TypeInv, RelayInv, LeakInv, OrderInv, VoiceInv, [Next]_vars PROVE VoiceInv'
  OBVIOUS
<1>1. CASE UNCHANGED vars
  BY <1>1 DEF vars, VoiceInv, ServedOK, LeavingOK, LeavesAwaited, CleanupDueOK, CleanupDue,
     SpeakerVoiceOK, Up, guildOf, IsHost
<1>2. ASSUME NEW c \in Commands, StartStep(c) PROVE VoiceInv'
  BY <1>2, StartStepServed, StartStepCleanup, StartStepSpeakers DEF VoiceInv
<1>. QED
  BY <1>1, <1>2, ArriveVoice, StopStepVoice, TeardownStepVoice, SpeakerStepVoice DEF Next

\* Every step of an orderly system whose pipelines install keeps OwnerInv.
LEMMA OwnerInvStep ==
  ASSUME "apply" \notin Faults
  PROVE  TypeInv /\ RelayInv /\ LeakInv /\ OrderInv /\ RegistryInv /\ VoiceInv /\ OwnerInv
             /\ [Next]_vars => OwnerInv'
<1>. SUFFICES ASSUME TypeInv, RelayInv, LeakInv, OrderInv, RegistryInv, VoiceInv, OwnerInv,
                     [Next]_vars
              PROVE  OwnerInv'
  OBVIOUS
<1>1. CASE UNCHANGED vars
  BY <1>1 DEF vars, OwnerInv, OwnerVoiceOK, OwnerDue, Up, guildOf, IsHost, IsGuest
<1>2. ASSUME NEW c \in Commands, StartStep(c) PROVE OwnerInv'
  BY <1>2, StartStepOwner DEF OwnerInv
<1>. QED
  BY <1>1, <1>2, ArriveVoice, StopStepOwner, TeardownStepOwner, SpeakerStepVoice DEF Next

\* Before the first command no bot is in voice.
LEMMA InitVoiceInv == Init => VoiceInv /\ OwnerInv
<1>. SUFFICES ASSUME Init PROVE VoiceInv /\ OwnerInv
  OBVIOUS
<1>1. \A x \in Commands : ~Up(x)
  BY RegistryConstants DEF Init, Up, guildOf, NoRequest
<1>. QED
  BY <1>1 DEF Init, VoiceInv, ServedOK, LeavingOK, CleanupDueOK, SpeakerVoiceOK, OwnerInv,
     OwnerVoiceOK, Joining, Bots

\* In an orderly behaviour a raid that is up has every bot that joined for it in
\* voice, with its own pipeline on the connection: no cleanup, leave or error path
\* of another raid reaches them (BuildSpeakerCleanup, JoinSession's goroutine).
THEOREM RaidsKeepTheirBots == ASSUME Orderly PROVE Spec => []BotsServeTheirRaid
<1>1. TypeInv /\ RelayInv /\ VoiceInv => BotsServeTheirRaid
  <2>. SUFFICES ASSUME TypeInv, RelayInv, VoiceInv, NEW g \in Guilds, session[g] # None
                PROVE  /\ \A b \in joined[session[g]] : voice[g][b] = session[g]
                       /\ IsHost(session[g]) \/ session[g] \in ownerUp =>
                              voice[g][Owner] = session[g]
    BY DEF BotsServeTheirRaid
  <2>1. session[g] \in Commands /\ guildOf(session[g]) = g
    BY DEF TypeInv, TypeOK, OrNone, RelayInv, SessionOK
  <2>. QED
    BY <2>1 DEF VoiceInv, ServedOK, Up
<1>. QED
  BY <1>1, InitOrderInv, InitVoiceInv, RequestsInv, RelayInvStep, LeakInvStep, OrderInvStep,
     VoiceInvStep, PTL DEF Spec

\* In an orderly behaviour in which pipelines install, a guild without a raid has
\* no bot in voice once all has come to rest (the cleanups of StartVoiceRaid,
\* JoinSession and stopSession).
THEOREM NobodyIsLeftInVoice ==
  ASSUME Orderly, "apply" \notin Faults
  PROVE  Spec => []NoBotLeftBehind
<1>1. TypeInv /\ RelayInv /\ OrderInv /\ RegistryInv /\ VoiceInv /\ OwnerInv => NoBotLeftBehind
  <2>. SUFFICES ASSUME TypeInv, RelayInv, OrderInv, RegistryInv, VoiceInv, OwnerInv, Settled,
                       NEW g \in Guilds, session[g] = None, NEW b \in Bots, voice[g][b] # None
                PROVE  FALSE
    BY DEF NoBotLeftBehind
  <2>1. ASSUME NEW c \in Commands
        PROVE  /\ pc[c] \in {"idle", "done"}
               /\ down[c] \in {"off", "done"} \/ Waiting(c)
    BY DEF Settled, Busy
  <2>2. \A x \in Commands : guildOf(x) = g => ~Up(x)
    BY RegistryConstants DEF Up
  <2>3. \A x \in Commands : ~Waiting(x) \/ guildOf(x) # g
    BY <2>1, <2>2 DEF RegistryInv, GuestOK, Waiting, Wakes
  <2>4. CASE b = Owner
    <3>1. PICK x \in Commands : guildOf(x) = g /\ OwnerDue(x)
      BY <2>4 DEF OwnerInv, OwnerVoiceOK
    <3>. QED
      BY <2>1, <2>2, <2>3, <3>1 DEF OwnerDue, Taking
  <2>5. CASE b \in Speakers
    <3>1. PICK x \in Commands : /\ guildOf(x) = g /\ b \in joined[x]
                                /\ x \in cleaned => b \in leaving[x]
      BY <2>5 DEF VoiceInv, SpeakerVoiceOK
    <3>2. x \notin cleaned => CleanupDue(x)
      BY <3>1 DEF VoiceInv, CleanupDueOK
    <3>3. x \in cleaned => LeavesAwaited(x)
      BY <3>1 DEF VoiceInv, LeavingOK
    <3>. QED
      BY <2>1, <2>2, <2>3, <3>1, <3>2, <3>3 DEF CleanupDue, LeavesAwaited, Joining, Waiting
  <2>. QED
    BY <2>4, <2>5 DEF Bots
<1>. QED
  BY <1>1, InitOrderInv, InitRegistryInv, InitVoiceInv, RequestsInv, RelayInvStep, LeakInvStep,
     OrderInvStep, RegistryInvStep, VoiceInvStep, OwnerInvStep, PTL DEF Spec

=============================================================================
