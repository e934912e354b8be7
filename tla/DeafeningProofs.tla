-------------------------- MODULE DeafeningProofs --------------------------
(***************************************************************************)
(* Proofs about Deafening, for any number of bots, any retry limit and any *)
(* bounds.  The invariant is stated bot by bot: BotInd relates what the    *)
(* controller records of a bot (MemberOK), how far the raid has come       *)
(* (PhaseOK), what Discord and its cache hold (CurrentOK), whether the     *)
(* record is true (RecordOK) and what Close has still to undo (RestoreOK). *)
(* A step touches one bot, and the others keep their part (BotKept); only  *)
(* a report, the latch and the phases of Close touch all of them.          *)
(***************************************************************************)
EXTENDS Deafening, TLAPS, FiniteSetTheorems

-----------------------------------------------------------------------------
(* The inductive invariant *)

\* A goroutine that is changing a bot's flag, from the decision to the answer.
Changing == {"launch", "check", "sent", "ok", "rejected", "forbidden"}
Active(b, w) == call[b][w].pc \in Changing

\* What the controller knows of a bot: a change in flight has its one goroutine,
\* and neither a timer nor a spent budget; a timer runs only where a change may
\* still be made; and what the router wants and the bot is not has a timer.
MemberOK(b) ==
    LET m == mem[b] IN
    /\ m.in <=> stage[b] \in {"in", "left"}
    /\ m.inFlight => m.in /\ m.timer = "none" /\ m.failures < DeafRetryLimit
    /\ m.inFlight <=> \E w \in Workers : Active(b, w)
    /\ ~(Active(b, "apply1") /\ Active(b, "apply2"))
    /\ m.timer # "none" => m.in /\ m.failures < DeafRetryLimit /\ ~closed /\ ~disabled
    /\ m.timer = "fired" => m.late < MaxLate
    /\ m.want # m.deaf /\ m.failures < DeafRetryLimit /\ ~m.inFlight /\ ~closed /\ ~disabled
       => m.timer # "none"

\* Which calls are made in which phase of the raid, and what they ask for.
PhaseOK(b) ==
    /\ closed <=> closing # "open"
    /\ closing # "open" => stage[b] # "joining"
    /\ closing # "cleanup" => stage[b] # "left"
    /\ stage[b] \in {"joining", "in"} => voice[b]
    /\ voice[b] => stage[b] \in {"joining", "in"} \/ (stage[b] = "left" /\ env.timeOut)
    /\ call[b].join.pc # "idle" <=> stage[b] = "joining"
    /\ call[b].join.pc # "idle" => call[b].join.want = ~capture[b]
    /\ call[b].close.pc # "idle" => closing = "restoring" /\ ~call[b].close.want
    /\ call[b].undo.pc # "idle" => closing = "cleanup" /\ ~call[b].undo.want

\* Discord and its cache in a world where the cache follows at once and the
\* permission stays.
Kind == env.lag = 0 /\ ~env.revoke

CurrentOK(b) ==
    Kind => /\ allowed /\ ~disabled
            /\ \A r \in Roles : call[b][r].pc \notin {"forbidden", "note"}
            /\ events[b] = <<>>
            /\ cache[b] = IF voice[b] THEN {flag[b]} ELSE {}

\* The controller's record of the flag, until Close takes the flags over.
RecordOK(b) ==
    Kind /\ "join" \notin env.faulty =>
        /\ stage[b] = "joining" =>
              /\ call[b].join.pc # "rejected"
              /\ call[b].join.pc = "ok" => flag[b] = call[b].join.want
        /\ stage[b] = "in" /\ closing \in {"open", "waiting"} =>
              /\ ~mem[b].inFlight => flag[b] = mem[b].deaf
              /\ \A w \in Workers : Active(b, w) =>
                    flag[b] = IF call[b][w].pc = "ok" THEN call[b][w].want ELSE mem[b].deaf

\* Close has the flags it has still to undo on its list.
Calm == Kind /\ env.faulty \subseteq Workers /\ ~env.timeOut /\ ~env.preempt

RestoreOK(b) ==
    Calm =>
        /\ \A w \in Workers : call[b][w].pc # "launch"
        /\ closing \in {"restoring", "cleanup"} => \A w \in Workers : ~Active(b, w)
        /\ closing = "restoring" /\ stage[b] = "in" =>
              /\ call[b].close.pc # "rejected"
              /\ flag[b] => b \in restore \/ call[b].close.pc \in {"check", "sent"}
        /\ closing = "cleanup" /\ mem[b].in => ~flag[b]

BotInd(b) == MemberOK(b) /\ PhaseOK(b) /\ CurrentOK(b) /\ RecordOK(b) /\ RestoreOK(b)

DeafInd == TypeOK /\ \A b \in Bots : BotInd(b)

-----------------------------------------------------------------------------
(* The members and the calls *)

\* The goroutines are callers like the others.
LEMMA RolesFact ==
    /\ Roles = {"apply1", "apply2", "join", "close", "undo"}
    /\ Workers = {"apply1", "apply2"}
BY DEF Roles, Workers

\* Moving one call on leaves the others alone.
LEMMA GotoAt ==
  ASSUME TypeOK, NEW b \in Bots, NEW r \in Roles, NEW pc, Goto(b, r, pc)
  PROVE  \A o \in Bots, s \in Roles :
            call'[o][s] = IF o = b /\ s = r THEN [pc |-> pc, want |-> call[b][r].want]
                                            ELSE call[o][s]
<1>1. call[b][r] \in Calls
  BY DEF TypeOK
<1>2. [call[b][r] EXCEPT !.pc = pc] = [pc |-> pc, want |-> call[b][r].want]
  BY <1>1 DEF Calls
<1>. QED
  BY <1>2 DEF TypeOK, Goto

\* It keeps the calls well-typed, and so does replacing one.
LEMMA GotoType ==
  ASSUME TypeOK, NEW b \in Bots, NEW r \in Roles,
         NEW pc \in {"idle", "launch", "check", "sent", "ok", "rejected", "forbidden", "note"},
         Goto(b, r, pc)
  PROVE  call' \in [Bots -> [Roles -> Calls]]
<1>1. call[b][r] \in Calls
  BY DEF TypeOK
<1>2. [call[b][r] EXCEPT !.pc = pc] \in Calls
  BY <1>1 DEF Calls
<1>. QED
  BY <1>2 DEF TypeOK, Goto

LEMMA CallType ==
  ASSUME TypeOK, NEW b \in Bots, NEW r \in Roles, NEW v \in Calls,
         call' = [call EXCEPT ![b][r] = v]
  PROVE  call' \in [Bots -> [Roles -> Calls]]
BY DEF TypeOK

\* Stopping a timer leaves the rest of a member alone.
LEMMA StopTimerFacts ==
  ASSUME NEW m \in Members, m.timer = "fired" => m.late < MaxLate
  PROVE  LET n == StopTimer(m) IN
         /\ n \in Members /\ n.timer = "none"
         /\ n.in = m.in /\ n.deaf = m.deaf /\ n.want = m.want /\ n.inFlight = m.inFlight
         /\ n.failures = m.failures /\ n.rejected = m.rejected
<1>. DEFINE n == StopTimer(m)
<1>1. CASE m.timer = "fired"
  <2>1. n = [m EXCEPT !.timer = "none", !.late = m.late + 1]
    BY <1>1 DEF StopTimer
  <2>2. m.late + 1 \in 0 .. MaxLate
    BY <1>1, DeafAssumption DEF Members
  <2>. QED
    BY <2>1, <2>2 DEF Members
<1>2. CASE m.timer # "fired"
  <2>1. n = [m EXCEPT !.timer = "none", !.late = m.late]
    BY <1>2 DEF StopTimer
  <2>. QED
    BY <2>1 DEF Members
<1>. QED
  BY <1>1, <1>2

\* What reconcileLocked leaves behind: it starts a change only to make a bot hear
\* at once, it spends no budget, and it leaves a timer for what is yet to be done.
ReconcileOK(m, immediate) ==
    LET rec == Reconcile(m, immediate)
        n == rec.mem
    IN
    /\ n \in Members /\ rec.go \in BOOLEAN
    /\ n.in = m.in /\ n.deaf = m.deaf /\ n.want = m.want /\ n.rejected = m.rejected
    /\ n.failures \in {0, m.failures}
    /\ rec.go => ~m.inFlight /\ ~m.want /\ immediate
    /\ n.inFlight <=> m.inFlight \/ rec.go
    /\ n.inFlight => n.timer = "none" /\ n.failures < DeafRetryLimit
    /\ n.timer # "none" => n.failures < DeafRetryLimit /\ ~closed /\ ~disabled
    /\ n.timer = "fired" => n.late < MaxLate
    /\ n.want # n.deaf /\ n.failures < DeafRetryLimit /\ ~n.inFlight /\ ~closed /\ ~disabled
       => n.timer # "none"

LEMMA ReconcileFacts ==
  ASSUME NEW m \in Members, NEW immediate \in BOOLEAN,
         m.inFlight => m.timer = "none" /\ m.failures < DeafRetryLimit,
         m.timer # "none" => ~closed /\ ~disabled,
         m.timer = "fired" => m.late < MaxLate
  PROVE  ReconcileOK(m, immediate)
<1>. DEFINE m0 == [m EXCEPT !.failures = 0]
<1>0. /\ m0 \in Members /\ m0.in = m.in /\ m0.deaf = m.deaf /\ m0.want = m.want
      /\ m0.inFlight = m.inFlight /\ m0.failures = 0 /\ m0.rejected = m.rejected
      /\ m0.timer = m.timer /\ m0.late = m.late
  BY DeafAssumption DEF Members
<1>1. CASE closed \/ disabled \/ m.inFlight
  BY <1>1 DEF ReconcileOK, Reconcile, Members
<1>. SUFFICES ASSUME ~closed, ~disabled, ~m.inFlight PROVE ReconcileOK(m, immediate)
  BY <1>1
<1>2. Reconcile(m, immediate) = Drive(m, immediate)
  BY DEF Reconcile
<1>3. CASE m.want = m.deaf
  <2>1. Drive(m, immediate) = [mem |-> StopTimer(m0), go |-> FALSE]
    BY <1>3 DEF Drive, Rest
  <2>. HIDE DEF m0
  <2>. QED
    BY <1>0, <1>2, <1>3, <2>1, StopTimerFacts, DeafAssumption DEF ReconcileOK
<1>4. CASE m.want # m.deaf /\ m.failures >= DeafRetryLimit
  <2>0. ~(m.want = m.deaf) /\ ~(m.failures < DeafRetryLimit)
    BY <1>4, DeafAssumption DEF Members
  <2>1. Drive(m, immediate) = [mem |-> StopTimer(m), go |-> FALSE]
    BY <1>4, <2>0, Zenon DEF Drive, Rest
  <2>. QED
    BY <1>2, <1>4, <2>1, StopTimerFacts, DeafAssumption DEF ReconcileOK, Members
<1>5. CASE m.want # m.deaf /\ m.failures < DeafRetryLimit /\ ~m.want /\ immediate
  <2>. DEFINE s == StopTimer(m)
              n == [s EXCEPT !.inFlight = TRUE]
  <2>1. Drive(m, immediate) = [mem |-> n, go |-> TRUE]
    BY <1>5, DeafAssumption DEF Drive, Start, Members
  <2>2. /\ s \in Members /\ s.timer = "none" /\ s.in = m.in /\ s.deaf = m.deaf
        /\ s.want = m.want /\ s.failures = m.failures /\ s.rejected = m.rejected
    BY StopTimerFacts
  <2>. HIDE DEF s
  <2>3. /\ n \in Members /\ n.timer = "none" /\ n.in = m.in /\ n.deaf = m.deaf
        /\ n.want = m.want /\ n.failures = m.failures /\ n.rejected = m.rejected /\ n.inFlight
    BY <2>2 DEF Members
  <2>. HIDE DEF n
  <2>4. Reconcile(m, immediate).mem = n /\ Reconcile(m, immediate).go = TRUE
    BY <1>2, <2>1
  <2>. QED
    BY <1>5, <2>3, <2>4 DEF ReconcileOK, Members
<1>6. CASE m.want # m.deaf /\ m.failures < DeafRetryLimit /\ ~(~m.want /\ immediate)
  <2>. DEFINE n == [m EXCEPT !.timer = IF @ = "none" THEN "armed" ELSE @]
  <2>1. Drive(m, immediate) = [mem |-> n, go |-> FALSE]
    BY <1>6, DeafAssumption DEF Drive, Wait, Members
  <2>2. /\ n \in Members /\ n.timer \in {"armed", m.timer} /\ n.timer # "none" /\ n.in = m.in
        /\ n.deaf = m.deaf /\ n.late = m.late /\ n.inFlight = m.inFlight
        /\ n.want = m.want /\ n.failures = m.failures /\ n.rejected = m.rejected
    BY DEF Members
  <2>. HIDE DEF n
  <2>. QED
    BY <1>2, <1>6, <2>1, <2>2 DEF ReconcileOK
<1>. QED
  BY <1>3, <1>4, <1>5, <1>6, DeafAssumption DEF Members

-----------------------------------------------------------------------------
(* The types *)

\* What a voice-state event does to the cache and to the queue of events.
LEMMA PublishFacts ==
  ASSUME TypeOK, NEW b \in Bots, NEW v \in SUBSET BOOLEAN, Publish(b, v)
  PROVE  /\ cache' \in [Bots -> SUBSET BOOLEAN]
         /\ \A o \in Bots : events'[o] \in Seq(SUBSET BOOLEAN)
         /\ \A o \in Bots : o # b => cache'[o] = cache[o] /\ events'[o] = events[o]
         /\ env.lag = 0 => cache'[b] = v /\ events'[b] = events[b]
<1>1. CASE env.lag = 0
  BY <1>1 DEF TypeOK, Publish
<1>2. CASE env.lag # 0
  <2>1. events' = [events EXCEPT ![b] = Append(@, v)] /\ cache' = cache
    BY <1>2 DEF Publish
  <2>2. Append(events[b], v) \in Seq(SUBSET BOOLEAN)
    BY DEF TypeOK
  <2>. QED
    BY <1>2, <2>1, <2>2 DEF TypeOK
<1>. QED
  BY <1>1, <1>2

\* A call that moves on.
LEMMA CallStepsType ==
  ASSUME DeafInd, NEW b \in Bots, NEW r \in Roles,
         \/ CheckCache(b, r) \/ PatchLands(b, r) \/ PatchRejected(b, r) \/ PatchForbidden(b, r)
  PROVE  TypeOK'
<1>. USE DEF DeafInd
<1>1. CASE CheckCache(b, r)
  <2>1. call' \in [Bots -> [Roles -> Calls]]
    BY <1>1, GotoType DEF CheckCache
  <2>. QED
    BY <1>1, <2>1 DEF CheckCache, TypeOK, discord, control, raid, bounds
<1>2. CASE PatchLands(b, r)
  <2>1. call' \in [Bots -> [Roles -> Calls]]
    BY <1>2, GotoType DEF PatchLands
  <2>2. call[b][r].want \in BOOLEAN
    BY DEF TypeOK, Calls
  <2>3. cache' \in [Bots -> SUBSET BOOLEAN] /\ \A o \in Bots : events'[o] \in Seq(SUBSET BOOLEAN)
    BY <1>2, <2>2, PublishFacts DEF PatchLands
  <2>. QED
    BY <1>2, <2>1, <2>2, <2>3 DEF PatchLands, TypeOK, control, raid, bounds
<1>3. CASE PatchRejected(b, r)
  <2>1. call' \in [Bots -> [Roles -> Calls]]
    BY <1>3, GotoType DEF PatchRejected
  <2>2. faults' \in 0 .. MaxFaults /\ observes' = observes
    BY <1>3, DeafAssumption DEF PatchRejected, TypeOK, bounds
  <2>. QED
    BY <1>3, <2>1, <2>2 DEF PatchRejected, TypeOK, discord, control, raid
<1>4. CASE PatchForbidden(b, r)
  <2>1. call' \in [Bots -> [Roles -> Calls]]
    BY <1>4, GotoType DEF PatchForbidden
  <2>. QED
    BY <1>4, <2>1 DEF PatchForbidden, TypeOK, discord, control, raid, bounds
<1>. QED
  BY <1>1, <1>2, <1>3, <1>4

\* A call that begins or ends has its type.
LEMMA CalledType ==
    Idle \in Calls /\ \A w \in BOOLEAN : Called(w) \in Calls /\ Launched(w) \in Calls
BY DEF Idle, Called, Launched, Calls

\* The timers that Close and the latch stop.
LEMMA AllStoppedType ==
  ASSUME DeafInd, mem' = [b \in Bots |-> StopTimer(mem[b])]
  PROVE  mem' \in [Bots -> Members]
<1>1. ASSUME NEW b \in Bots
      PROVE  StopTimer(mem[b]) \in Members
  <2>1. mem[b] \in Members /\ (mem[b].timer = "fired" => mem[b].late < MaxLate)
    BY DEF DeafInd, BotInd, MemberOK, TypeOK
  <2>. QED
    BY <2>1, StopTimerFacts
<1>. QED
  BY <1>1

\* The join and the teardown.
LEMMA RaidStepsType ==
  ASSUME DeafInd, NEW b \in Bots,
         \/ Join(b) \/ JoinDone(b) \/ CloseRestores(b) \/ CloseAnswered(b)
         \/ UndeafenSpeaker(b) \/ LeaveVoice(b) \/ LeavesTooLate(b)
  PROVE  TypeOK'
<1>. USE DEF DeafInd
<1>0. {"join", "close", "undo"} \subseteq Roles /\ flag[b] \in BOOLEAN /\ capture[b] \in BOOLEAN
  BY RolesFact DEF TypeOK
<1>1. CASE Join(b)
  <2>1. call' \in [Bots -> [Roles -> Calls]]
    BY <1>0, <1>1, CalledType, CallType DEF Join
  <2>2. cache' \in [Bots -> SUBSET BOOLEAN] /\ \A o \in Bots : events'[o] \in Seq(SUBSET BOOLEAN)
    BY <1>0, <1>1, PublishFacts DEF Join
  <2>. QED
    BY <1>1, <2>1, <2>2 DEF Join, TypeOK, control, bounds
<1>2. CASE JoinDone(b)
  <2>1. call' \in [Bots -> [Roles -> Calls]]
    BY <1>0, <1>2, CalledType, CallType DEF JoinDone
  <2>2. \A d \in BOOLEAN : NewMember(TRUE, d) \in Members
    BY DeafAssumption DEF NewMember, Members
  <2>3. (~capture[b] /\ call[b].join.pc = "ok") \in BOOLEAN
    OBVIOUS
  <2>4. mem' \in [Bots -> Members]
    BY <1>2, <2>2, <2>3 DEF JoinDone, TypeOK
  <2>. QED
    BY <1>2, <2>1, <2>4 DEF JoinDone, TypeOK, discord, bounds
<1>3. CASE CloseRestores(b)
  <2>1. call' \in [Bots -> [Roles -> Calls]]
    BY <1>0, <1>3, CalledType, CallType DEF CloseRestores
  <2>. QED
    BY <1>3, <2>1 DEF CloseRestores, TypeOK, discord, control, bounds
<1>4. CASE CloseAnswered(b)
  <2>1. call' \in [Bots -> [Roles -> Calls]]
    BY <1>0, <1>4, CalledType, CallType DEF CloseAnswered
  <2>. QED
    BY <1>4, <2>1 DEF CloseAnswered, TypeOK, discord, control, raid, bounds
<1>5. CASE UndeafenSpeaker(b)
  <2>1. call' \in [Bots -> [Roles -> Calls]]
    BY <1>0, <1>5, CalledType, CallType DEF UndeafenSpeaker
  <2>. QED
    BY <1>5, <2>1 DEF UndeafenSpeaker, TypeOK, discord, control, bounds
<1>6. CASE LeaveVoice(b)
  <2>1. call' \in [Bots -> [Roles -> Calls]]
    BY <1>0, <1>6, CalledType, CallType DEF LeaveVoice
  <2>2. cache' \in [Bots -> SUBSET BOOLEAN] /\ \A o \in Bots : events'[o] \in Seq(SUBSET BOOLEAN)
    BY <1>6, PublishFacts DEF LeaveVoice
  <2>. QED
    BY <1>6, <2>1, <2>2 DEF LeaveVoice, TypeOK, control, bounds
<1>7. CASE LeavesTooLate(b)
  <2>1. call' \in [Bots -> [Roles -> Calls]]
    BY <1>0, <1>7, CalledType, CallType DEF LeavesTooLate
  <2>. QED
    BY <1>7, <2>1 DEF LeavesTooLate, TypeOK, discord, control, bounds
<1>. QED
  BY <1>1, <1>2, <1>3, <1>4, <1>5, <1>6, <1>7

\* Discord's own steps, the phases of Close, and the latch.
LEMMA OtherStepsType ==
  ASSUME DeafInd, NEW b \in Bots, NEW w \in Workers,
         \/ CacheRefreshed(b) \/ Revoke \/ Close \/ CloseWaited \/ CloseTimedOut
         \/ CloseReturns \/ LaunchApply(b, w) \/ NoteError(b, w) \/ JoinRefused(b)
  PROVE  TypeOK'
<1>. USE DEF DeafInd
<1>0. w \in Roles /\ "join" \in Roles
  BY RolesFact
<1>1. CASE CacheRefreshed(b)
  <2>1. events[b] \in Seq(SUBSET BOOLEAN) /\ events[b] # <<>>
    BY <1>1 DEF CacheRefreshed, TypeOK
  <2>2. Head(events[b]) \in SUBSET BOOLEAN /\ Tail(events[b]) \in Seq(SUBSET BOOLEAN)
    BY <2>1
  <2>3. /\ cache' \in [Bots -> SUBSET BOOLEAN]
        /\ \A o \in Bots : events'[o] \in Seq(SUBSET BOOLEAN)
    BY <1>1, <2>2 DEF CacheRefreshed, TypeOK
  <2>. QED
    BY <1>1, <2>3 DEF CacheRefreshed, TypeOK, control, raid, bounds
<1>2. CASE Revoke
  BY <1>2 DEF Revoke, TypeOK, control, raid, bounds
<1>3. CASE Close
  BY <1>3, AllStoppedType DEF Close, TypeOK, discord, bounds
<1>4. CASE CloseWaited \/ CloseTimedOut \/ CloseReturns
  BY <1>4 DEF CloseWaited, CloseTimedOut, CloseReturns, Snapshot, TypeOK, discord, control, bounds
<1>5. CASE LaunchApply(b, w)
  <2>1. call' \in [Bots -> [Roles -> Calls]]
    BY <1>0, <1>5, GotoType DEF LaunchApply
  <2>. QED
    BY <1>5, <2>1 DEF LaunchApply, TypeOK, discord, control, raid, bounds
<1>6. ASSUME Disable PROVE mem' \in [Bots -> Members] /\ disabled' \in BOOLEAN
  BY <1>6, AllStoppedType DEF Disable, TypeOK
<1>7. CASE NoteError(b, w)
  <2>1. call' \in [Bots -> [Roles -> Calls]]
    BY <1>0, <1>7, CalledType, CallType DEF NoteError
  <2>. QED
    BY <1>6, <1>7, <2>1 DEF NoteError, TypeOK, discord, raid, bounds
<1>8. CASE JoinRefused(b)
  <2>1. call' \in [Bots -> [Roles -> Calls]]
    BY <1>0, <1>8, GotoType DEF JoinRefused
  <2>. QED
    BY <1>6, <1>8, <2>1 DEF JoinRefused, TypeOK, discord, raid, bounds
<1>. QED
  BY <1>1, <1>2, <1>3, <1>4, <1>5, <1>7, <1>8

-----------------------------------------------------------------------------
(* The calls of ensureSpeakerDeaf *)

\* A bot nothing happens to keeps its part of the invariant.
LEMMA BotKept ==
  ASSUME NEW o \in Bots, BotInd(o),
         mem'[o] = mem[o], call'[o] = call[o], stage'[o] = stage[o], voice'[o] = voice[o],
         flag'[o] = flag[o], cache'[o] = cache[o], events'[o] = events[o],
         capture'[o] = capture[o], env' = env, allowed' = allowed, closed' = closed,
         disabled' = disabled, closing' = closing, o \in restore' <=> o \in restore
  PROVE  BotInd(o)'
<1>1. MemberOK(o)'
  BY DEF BotInd, MemberOK, Active
<1>2. PhaseOK(o)'
  BY DEF BotInd, PhaseOK
<1>3. CurrentOK(o)' /\ RecordOK(o)'
  BY DEF BotInd, CurrentOK, RecordOK, Kind, Active
<1>4. RestoreOK(o)'
  BY DEF BotInd, RestoreOK, Calm, Kind, Active
<1>. QED
  BY <1>1, <1>2, <1>3, <1>4 DEF BotInd

\* A call that moves on is still the one call its goroutine makes.
LEMMA MoveKeeps ==
  ASSUME TypeOK, NEW b \in Bots, NEW r \in Roles, BotInd(b),
         call[b][r].pc \in {"launch", "check", "sent"},
         NEW q \in {"check", "sent", "ok", "rejected", "forbidden"}, Goto(b, r, q),
         mem' = mem, stage' = stage, voice' = voice, capture' = capture, env' = env,
         closed' = closed, disabled' = disabled, closing' = closing
  PROVE  MemberOK(b)' /\ PhaseOK(b)'
<1>1. \A s \in Roles : call'[b][s] = IF s = r THEN [pc |-> q, want |-> call[b][r].want]
                                              ELSE call[b][s]
  BY GotoAt
<1>2. \A s \in Roles : /\ call'[b][s].pc = "idle" <=> call[b][s].pc = "idle"
                       /\ call'[b][s].want = call[b][s].want
                       /\ call'[b][s].pc \in Changing <=> call[b][s].pc \in Changing
  BY <1>1 DEF Changing
<1>3. MemberOK(b)'
  BY <1>2, RolesFact DEF BotInd, MemberOK, Active
<1>4. PhaseOK(b)'
  BY <1>2, RolesFact DEF BotInd, PhaseOK
<1>. QED
  BY <1>3, <1>4

\* Looking at the cache: a hit tells the truth where the cache is current.
LEMMA CheckCacheKeeps ==
  ASSUME DeafInd, NEW b \in Bots, NEW r \in Roles, CheckCache(b, r)
  PROVE  BotInd(b)'
<1>. DEFINE q == IF cache[b] = {call[b][r].want} THEN "ok" ELSE "sent"
<1>0. BotInd(b) /\ TypeOK /\ call[b][r].pc = "check" /\ Goto(b, r, q)
  BY DEF DeafInd, CheckCache
<1>1. /\ mem' = mem /\ stage' = stage /\ voice' = voice /\ capture' = capture /\ flag' = flag
      /\ closed' = closed /\ disabled' = disabled /\ closing' = closing /\ env' = env
      /\ allowed' = allowed /\ cache' = cache /\ events' = events /\ restore' = restore
  BY DEF CheckCache, discord, control, raid
<1>2. /\ MemberOK(b)' /\ PhaseOK(b)'
      /\ \A s \in Roles : call'[b][s] = IF s = r THEN [pc |-> q, want |-> call[b][r].want]
                                                 ELSE call[b][s]
  BY <1>0, <1>1, MoveKeeps, GotoAt
<1>3. Kind /\ voice[b] /\ q = "ok" => flag[b] = call[b][r].want
  <2>1. Kind /\ voice[b] => cache[b] = {flag[b]}
    BY <1>0 DEF BotInd, CurrentOK
  <2>. QED
    BY <2>1
<1>4. q \in {"ok", "sent"}
  OBVIOUS
<1>. HIDE DEF q
<1>5. CurrentOK(b)'
  BY <1>0, <1>1, <1>2, <1>4 DEF BotInd, CurrentOK, Kind
<1>6. RecordOK(b)'
  BY <1>0, <1>1, <1>2, <1>3, <1>4, RolesFact
     DEF BotInd, RecordOK, MemberOK, PhaseOK, Kind, Active, Changing
<1>7. RestoreOK(b)'
  BY <1>0, <1>1, <1>2, <1>3, <1>4, RolesFact
     DEF BotInd, RestoreOK, PhaseOK, Calm, Kind, Active, Changing
<1>. QED
  BY <1>2, <1>5, <1>6, <1>7 DEF BotInd

\* Discord sets the flag: of the goroutines of a bot in the raid only the one in
\* flight can have asked for it, and once Close works through its list only Close.
LEMMA PatchLandsKeeps ==
  ASSUME DeafInd, NEW b \in Bots, NEW r \in Roles, PatchLands(b, r)
  PROVE  BotInd(b)'
<1>0. BotInd(b) /\ TypeOK /\ call[b][r].pc = "sent" /\ Goto(b, r, "ok") /\ voice[b]
  BY DEF DeafInd, PatchLands
<1>1. /\ mem' = mem /\ stage' = stage /\ voice' = voice /\ capture' = capture
      /\ closed' = closed /\ disabled' = disabled /\ closing' = closing /\ env' = env
      /\ allowed' = allowed /\ restore' = restore
      /\ flag'[b] = call[b][r].want
  BY DEF PatchLands, control, raid, TypeOK, DeafInd
<1>2. /\ MemberOK(b)' /\ PhaseOK(b)'
      /\ \A s \in Roles : call'[b][s] = IF s = r THEN [pc |-> "ok", want |-> call[b][r].want]
                                                 ELSE call[b][s]
  BY <1>0, <1>1, MoveKeeps, GotoAt
<1>3. env.lag = 0 => cache'[b] = {flag'[b]} /\ events'[b] = events[b]
  <2>1. call[b][r].want \in BOOLEAN
    BY <1>0 DEF TypeOK, Calls
  <2>2. {call[b][r].want} \in SUBSET BOOLEAN /\ Publish(b, {call[b][r].want})
    BY <2>1 DEF PatchLands
  <2>. QED
    BY <1>0, <1>1, <2>2, PublishFacts
<1>5. CurrentOK(b)'
  BY <1>0, <1>1, <1>2, <1>3 DEF BotInd, CurrentOK, Kind
<1>6. RecordOK(b)'
  BY <1>0, <1>1, <1>2, RolesFact DEF BotInd, RecordOK, MemberOK, PhaseOK, Kind, Active, Changing
<1>7. RestoreOK(b)'
  <2>1. closing = "restoring" \/ closing = "cleanup" => r # "join"
    BY <1>0 DEF BotInd, PhaseOK
  <2>. QED
    BY <1>0, <1>1, <1>2, <2>1, RolesFact
       DEF BotInd, RestoreOK, PhaseOK, MemberOK, Calm, Kind, Active, Changing
<1>. QED
  BY <1>2, <1>5, <1>6, <1>7 DEF BotInd

\* Discord refuses: where only the goroutines' changes may be refused, the bot is not
\* in voice and the refused call not that of a join or of Close.
LEMMA PatchRejectedKeeps ==
  ASSUME DeafInd, NEW b \in Bots, NEW r \in Roles, PatchRejected(b, r)
  PROVE  BotInd(b)'
<1>0. /\ BotInd(b) /\ TypeOK /\ call[b][r].pc = "sent" /\ Goto(b, r, "rejected")
      /\ voice[b] => r \in env.faulty
  BY DEF DeafInd, PatchRejected
<1>1. /\ mem' = mem /\ stage' = stage /\ voice' = voice /\ capture' = capture /\ flag' = flag
      /\ closed' = closed /\ disabled' = disabled /\ closing' = closing /\ env' = env
      /\ allowed' = allowed /\ cache' = cache /\ events' = events /\ restore' = restore
  BY DEF PatchRejected, discord, control, raid
<1>2. /\ MemberOK(b)' /\ PhaseOK(b)'
      /\ \A s \in Roles :
            call'[b][s] = IF s = r THEN [pc |-> "rejected", want |-> call[b][r].want]
                                   ELSE call[b][s]
  BY <1>0, <1>1, MoveKeeps, GotoAt
<1>5. CurrentOK(b)'
  BY <1>0, <1>1, <1>2 DEF BotInd, CurrentOK, Kind
<1>6. RecordOK(b)'
  BY <1>0, <1>1, <1>2, RolesFact DEF BotInd, RecordOK, MemberOK, PhaseOK, Kind, Active, Changing
<1>7. RestoreOK(b)'
  BY <1>0, <1>1, <1>2, RolesFact DEF BotInd, RestoreOK, PhaseOK, Calm, Kind, Active, Changing
<1>. QED
  BY <1>2, <1>5, <1>6, <1>7 DEF BotInd

\* Discord forbids, which it does only where the permission may be taken away.
LEMMA PatchForbiddenKeeps ==
  ASSUME DeafInd, NEW b \in Bots, NEW r \in Roles, PatchForbidden(b, r)
  PROVE  BotInd(b)'
<1>0. /\ BotInd(b) /\ TypeOK /\ call[b][r].pc = "sent" /\ Goto(b, r, "forbidden") /\ ~allowed
  BY DEF DeafInd, PatchForbidden
<1>1. /\ mem' = mem /\ stage' = stage /\ voice' = voice /\ capture' = capture
      /\ closed' = closed /\ disabled' = disabled /\ closing' = closing /\ env' = env
  BY DEF PatchForbidden, discord, control, raid
<1>2. MemberOK(b)' /\ PhaseOK(b)'
  BY <1>0, <1>1, MoveKeeps
<1>3. ~Kind'
  BY <1>0, <1>1 DEF BotInd, CurrentOK, Kind
<1>. QED
  BY <1>2, <1>3 DEF BotInd, CurrentOK, RecordOK, RestoreOK, Calm

\* A goroutine that is suspended goes on.
LEMMA LaunchApplyKeeps ==
  ASSUME DeafInd, NEW b \in Bots, NEW w \in Workers, LaunchApply(b, w)
  PROVE  BotInd(b)'
<1>0. BotInd(b) /\ TypeOK /\ call[b][w].pc = "launch" /\ Goto(b, w, "check") /\ w \in Roles
  BY RolesFact DEF DeafInd, LaunchApply
<1>1. /\ mem' = mem /\ stage' = stage /\ voice' = voice /\ capture' = capture /\ flag' = flag
      /\ closed' = closed /\ disabled' = disabled /\ closing' = closing /\ env' = env
      /\ allowed' = allowed /\ cache' = cache /\ events' = events /\ restore' = restore
  BY DEF LaunchApply, discord, control, raid
<1>2. /\ MemberOK(b)' /\ PhaseOK(b)'
      /\ \A s \in Roles : call'[b][s] = IF s = w THEN [pc |-> "check", want |-> call[b][w].want]
                                                 ELSE call[b][s]
  BY <1>0, <1>1, MoveKeeps, GotoAt
<1>5. CurrentOK(b)'
  BY <1>0, <1>1, <1>2 DEF BotInd, CurrentOK, Kind
<1>6. RecordOK(b)'
  BY <1>0, <1>1, <1>2, RolesFact DEF BotInd, RecordOK, MemberOK, PhaseOK, Kind, Active, Changing
<1>7. RestoreOK(b)'
  BY <1>0, <1>1, <1>2, RolesFact DEF BotInd, RestoreOK, PhaseOK, Calm, Kind, Active, Changing
<1>. QED
  BY <1>2, <1>5, <1>6, <1>7 DEF BotInd

-----------------------------------------------------------------------------
(* Reports, timers and answers *)

\* The goroutine that a decision starts: only where no other is changing the flag.
LEMMA LaunchFacts ==
  ASSUME TypeOK, NEW b \in Bots, BotInd(b), ~mem[b].inFlight, NEW x \in BOOLEAN
  PROVE  LET row == [call[b] EXCEPT ![FreeWorker(b)] = Launched(x)] IN
         /\ row \in [Roles -> Calls]
         /\ \A r \in Roles \ Workers : row[r] = call[b][r]
         /\ \E w \in Workers : /\ row[w] = Launched(x)
                               /\ \A v \in Workers : v # w => row[v] = call[b][v]
<1>1. FreeWorker(b) \in Workers /\ FreeWorker(b) \in Roles
  BY RolesFact DEF FreeWorker
<1>2. call[b] \in [Roles -> Calls] /\ Launched(x) \in Calls
  BY CalledType DEF TypeOK
<1>. QED
  BY <1>1, <1>2, RolesFact

\* What a report, a timer or a late callback does to a member and to its calls: either
\* no goroutine is started, or one is where none was in flight.
Driven(b, m, row) ==
    /\ m \in Members /\ m.in = mem[b].in /\ m.deaf = mem[b].deaf
    /\ m.inFlight => m.in /\ m.timer = "none" /\ m.failures < DeafRetryLimit
    /\ m.timer # "none" => m.in /\ m.failures < DeafRetryLimit /\ ~closed /\ ~disabled
    /\ m.timer = "fired" => m.late < MaxLate
    /\ m.want # m.deaf /\ m.failures < DeafRetryLimit /\ ~m.inFlight /\ ~closed /\ ~disabled
       => m.timer # "none"
    /\ row \in [Roles -> Calls]
    /\ \/ row = call[b] /\ (m.inFlight <=> mem[b].inFlight)
       \/ /\ ~mem[b].inFlight /\ m.inFlight /\ closing = "open"
          /\ \A r \in Roles \ Workers : row[r] = call[b][r]
          /\ \E w \in Workers, x \in BOOLEAN :
                /\ row[w] = Launched(x)
                /\ \A v \in Workers : v # w => row[v] = call[b][v]

\* Either way the bot keeps its part of the invariant.
LEMMA DrivenKeeps ==
  ASSUME TypeOK, NEW b \in Bots, BotInd(b), Driven(b, mem'[b], call'[b]),
         stage'[b] = stage[b], voice'[b] = voice[b],
         flag'[b] = flag[b], cache'[b] = cache[b], events'[b] = events[b],
         capture'[b] = capture[b], env' = env, allowed' = allowed, closed' = closed,
         disabled' = disabled, closing' = closing, restore' = restore
  PROVE  BotInd(b)'
<1>1. CASE call'[b] = call[b] /\ (mem'[b].inFlight <=> mem[b].inFlight)
  <2>1. MemberOK(b)'
    BY <1>1 DEF BotInd, MemberOK, Active, Driven
  <2>2. PhaseOK(b)' /\ CurrentOK(b)'
    BY <1>1 DEF BotInd, PhaseOK, CurrentOK, Kind
  <2>3. RecordOK(b)'
    BY <1>1 DEF BotInd, RecordOK, Kind, Active, Driven
  <2>4. RestoreOK(b)'
    BY <1>1 DEF BotInd, RestoreOK, Calm, Kind, Active, Driven
  <2>. QED
    BY <2>1, <2>2, <2>3, <2>4 DEF BotInd
<1>2. ASSUME NEW w \in Workers, NEW x \in BOOLEAN,
             ~mem[b].inFlight, mem'[b].inFlight, closing = "open",
             \A r \in Roles \ Workers : call'[b][r] = call[b][r],
             call'[b][w] = Launched(x),
             \A v \in Workers : v # w => call'[b][v] = call[b][v]
      PROVE  BotInd(b)'
  <2>0. /\ call'[b][w].pc \in {"launch", "check"} /\ (~env.preempt => call'[b][w].pc = "check")
        /\ \A v \in Workers : ~Active(b, v)
    BY <1>2 DEF Launched, BotInd, MemberOK
  <2>1. MemberOK(b)'
    BY <1>2, <2>0, RolesFact DEF BotInd, MemberOK, Active, Changing, Driven
  <2>2. PhaseOK(b)'
    BY <1>2, <2>0, RolesFact DEF BotInd, PhaseOK
  <2>3. CurrentOK(b)'
    BY <1>2, <2>0, RolesFact DEF BotInd, CurrentOK, Kind
  <2>4. RecordOK(b)'
    BY <1>2, <2>0, RolesFact DEF BotInd, RecordOK, Kind, Active, Changing, Driven
  <2>5. RestoreOK(b)'
    BY <1>2, <2>0, RolesFact DEF BotInd, RestoreOK, Calm, Kind
  <2>. QED
    BY <2>1, <2>2, <2>3, <2>4, <2>5 DEF BotInd
<1>. QED
  BY <1>1, <1>2 DEF Driven

\* What a report asks of a member, before reconcileLocked looks at it.
LEMMA AskedFacts ==
  ASSUME NEW n \in Members, NEW want \in BOOLEAN
  PROVE  LET m == Asked(n, want) IN
         /\ m \in Members /\ m.in = n.in /\ m.deaf = n.deaf /\ m.inFlight = n.inFlight
         /\ m.failures = 0 /\ m.timer = n.timer /\ m.late = n.late
<1>1. ASSUME NEW e \in BOOLEAN
      PROVE  LET m == [n EXCEPT !.failures = 0, !.rejected = e, !.want = want] IN
             /\ m \in Members /\ m.in = n.in /\ m.deaf = n.deaf /\ m.inFlight = n.inFlight
             /\ m.failures = 0 /\ m.timer = n.timer /\ m.late = n.late
  <2>. DEFINE m == [n EXCEPT !.failures = 0, !.rejected = e, !.want = want]
  <2>0. 0 \in 0 .. DeafRetryLimit
    BY DeafAssumption
  <2>1. m \in Members
    BY <2>0 DEF Members
  <2>2. /\ m.in = n.in /\ m.deaf = n.deaf /\ m.inFlight = n.inFlight
        /\ m.failures = 0 /\ m.timer = n.timer /\ m.late = n.late
    BY DEF Members
  <2>. QED
    BY <2>1, <2>2
<1>2. (n.rejected /\ want = n.want) \in BOOLEAN
  OBVIOUS
<1>. QED
  BY <1>1, <1>2, Zenon DEF Asked

\* A report drives every member of the raid.
LEMMA ObserveDrives ==
  ASSUME DeafInd, Observe, ~(closed \/ disabled)
  PROVE  /\ mem' \in [Bots -> Members] /\ call' \in [Bots -> [Roles -> Calls]]
         /\ \A b \in Bots : Driven(b, mem'[b], call'[b])
<1>1. PICK capturing \in SUBSET Bots :
         LET asked(b) == Asked(mem[b], b \notin capturing)
             rec(b) == Reconcile(asked(b), ~asked(b).rejected)
         IN /\ mem' = [b \in Bots |-> rec(b).mem]
            /\ call' = [b \in Bots |->
                 IF rec(b).go
                   THEN [call[b] EXCEPT ![FreeWorker(b)] = Launched(FALSE)]
                   ELSE call[b]]
  BY DEF Observe
<1>2. ASSUME NEW b \in Bots
      PROVE  Driven(b, mem'[b], call'[b])
  <2>. DEFINE m == Asked(mem[b], b \notin capturing)
              go == Reconcile(m, ~m.rejected).go
              row == [call[b] EXCEPT ![FreeWorker(b)] = Launched(FALSE)]
  <2>0. /\ mem'[b] = Reconcile(m, ~m.rejected).mem
        /\ call'[b] = IF go THEN row ELSE call[b]
    BY <1>1
  <2>1. /\ mem[b] \in Members /\ BotInd(b) /\ TypeOK /\ mem[b].in /\ closing = "open"
        /\ call[b] \in [Roles -> Calls]
    BY DEF Observe, DeafInd, TypeOK
  <2>2. /\ m \in Members /\ m.in = mem[b].in /\ m.deaf = mem[b].deaf
        /\ m.inFlight = mem[b].inFlight /\ m.failures = 0
        /\ m.timer = mem[b].timer /\ m.late = mem[b].late
    BY <2>1, AskedFacts
  <2>. HIDE DEF m
  <2>3. (~m.rejected) \in BOOLEAN
    OBVIOUS
  <2>31. /\ m.inFlight => m.timer = "none" /\ m.failures < DeafRetryLimit
         /\ m.timer # "none" => ~closed /\ ~disabled
         /\ m.timer = "fired" => m.late < MaxLate
    BY <2>1, <2>2, DeafAssumption DEF BotInd, MemberOK
  <2>4. ReconcileOK(m, ~m.rejected)
    BY <2>2, <2>3, <2>31, ReconcileFacts
  <2>. HIDE DEF go
  <2>5. CASE go
    <3>1. ~mem[b].inFlight
      BY <2>2, <2>4, <2>5 DEF ReconcileOK, go
    <3>2. /\ row \in [Roles -> Calls] /\ \A r \in Roles \ Workers : row[r] = call[b][r]
          /\ \E w \in Workers : /\ row[w] = Launched(FALSE)
                                /\ \A v \in Workers : v # w => row[v] = call[b][v]
      BY <2>1, <3>1, LaunchFacts
    <3>. HIDE DEF row
    <3>3. mem'[b].inFlight
      BY <2>0, <2>4, <2>5 DEF ReconcileOK, go
    <3>4. /\ ~mem[b].inFlight /\ mem'[b].inFlight /\ closing = "open"
          /\ \A r \in Roles \ Workers : call'[b][r] = call[b][r]
          /\ \E w \in Workers, x \in BOOLEAN :
                /\ call'[b][w] = Launched(x)
                /\ \A v \in Workers : v # w => call'[b][v] = call[b][v]
      BY <2>0, <2>1, <2>5, <3>1, <3>2, <3>3
    <3>. QED
      BY <2>0, <2>1, <2>2, <2>4, <2>5, <3>2, <3>4 DEF ReconcileOK, Driven
  <2>6. CASE ~go
    <3>1. mem'[b].inFlight <=> mem[b].inFlight
      BY <2>0, <2>2, <2>4, <2>6 DEF ReconcileOK, go
    <3>. QED
      BY <2>0, <2>1, <2>2, <2>4, <2>6, <3>1 DEF ReconcileOK, Driven
  <2>. QED
    BY <2>5, <2>6
<1>. QED
  BY <1>1, <1>2 DEF Driven

\* So every report keeps the invariant.
LEMMA ObserveKeeps ==
  ASSUME DeafInd, Observe
  PROVE  DeafInd'
<1>0. observes' \in 0 .. MaxObserves
  BY DeafAssumption DEF Observe, DeafInd, TypeOK
<1>1. CASE closed \/ disabled
  <2>1. UNCHANGED <<mem, call, discord, closed, disabled, raid, faults>>
    BY <1>1 DEF Observe
  <2>2. TypeOK'
    BY <1>0, <2>1 DEF DeafInd, TypeOK, discord, raid
  <2>3. \A b \in Bots : BotInd(b)'
    BY <2>1, BotKept DEF DeafInd, discord, raid
  <2>. QED
    BY <2>2, <2>3 DEF DeafInd
<1>2. CASE ~(closed \/ disabled)
  <2>1. UNCHANGED <<discord, closed, disabled, raid, faults>>
    BY DEF Observe
  <2>2. TypeOK'
    BY <1>0, <1>2, <2>1, ObserveDrives DEF DeafInd, TypeOK, discord, raid
  <2>3. \A b \in Bots : BotInd(b)'
    BY <1>2, <2>1, ObserveDrives, DrivenKeeps DEF DeafInd, discord, raid
  <2>. QED
    BY <2>2, <2>3 DEF DeafInd
<1>. QED
  BY <1>1, <1>2

\* A step that drives one bot keeps the invariant.
LEMMA OneDriven ==
  ASSUME DeafInd, NEW b \in Bots, NEW m, mem' = [mem EXCEPT ![b] = m],
         NEW row, call' = [call EXCEPT ![b] = row], Driven(b, m, row),
         UNCHANGED <<discord, closed, disabled, raid, bounds>>
  PROVE  DeafInd'
<1>1. /\ mem'[b] = m /\ call'[b] = row
      /\ \A o \in Bots \ {b} : mem'[o] = mem[o] /\ call'[o] = call[o]
  BY DEF DeafInd, TypeOK
<1>2. mem' \in [Bots -> Members] /\ call' \in [Bots -> [Roles -> Calls]]
  BY DEF Driven, DeafInd, TypeOK
<1>3. TypeOK'
  BY <1>2 DEF DeafInd, TypeOK, discord, raid, bounds
<1>4. BotInd(b)'
  BY <1>1, DrivenKeeps DEF DeafInd, discord, raid
<1>5. \A o \in Bots \ {b} : BotInd(o)'
  BY <1>1, BotKept DEF DeafInd, discord, raid
<1>. QED
  BY <1>3, <1>4, <1>5 DEF DeafInd

\* A timer that fires.
LEMMA TimerFiresKeeps ==
  ASSUME DeafInd, NEW b \in Bots, TimerFires(b)
  PROVE  DeafInd'
<1>. DEFINE m == [mem[b] EXCEPT !.timer = "fired"]
<1>0. /\ mem[b] \in Members /\ BotInd(b) /\ mem[b].timer = "armed" /\ mem[b].late < MaxLate
      /\ call[b] \in [Roles -> Calls]
  BY DEF DeafInd, TypeOK, TimerFires
<1>1. m \in Members
  BY <1>0 DEF Members
<1>2. /\ m.in = mem[b].in /\ m.deaf = mem[b].deaf /\ m.inFlight = mem[b].inFlight
      /\ m.failures = mem[b].failures /\ m.late = mem[b].late /\ m.timer = "fired"
  BY <1>0 DEF Members
<1>3. mem' = [mem EXCEPT ![b] = m] /\ call' = [call EXCEPT ![b] = call[b]]
  BY DEF TimerFires, DeafInd, TypeOK
<1>4. Driven(b, m, call[b])
  <2>. HIDE DEF m
  <2>. QED
    BY <1>0, <1>1, <1>2 DEF BotInd, MemberOK, Driven
<1>. QED
  BY <1>3, <1>4, OneDriven DEF TimerFires

\* The timer's callback, the member's own or a late one.
LEMMA ApplyAfterDelayKeeps ==
  ASSUME DeafInd, NEW b \in Bots, ApplyAfterDelay(b)
  PROVE  DeafInd'
<1>0. mem[b] \in Members /\ BotInd(b) /\ call[b] \in [Roles -> Calls] /\ TypeOK
  BY DEF DeafInd, TypeOK
<1>. DEFINE late == [mem[b] EXCEPT !.late = @ - 1]
            m(own) == IF own THEN mem[b] ELSE late
            taken(own) == [m(own) EXCEPT !.timer = "none", !.late = IF own THEN @ ELSE @ + 1]
            started(own) == [taken(own) EXCEPT !.inFlight = TRUE]
            row(own) == [call[b] EXCEPT ![FreeWorker(b)] = Launched(m(own).want)]
<1>1. PICK own \in BOOLEAN :
         /\ IF own THEN mem[b].timer = "fired" ELSE mem[b].late > 0
         /\ IF closed \/ disabled \/ m(own).inFlight \/ m(own).timer = "none"
              THEN mem' = [mem EXCEPT ![b] = m(own)] /\ UNCHANGED call
              ELSE IF m(own).want = m(own).deaf
                THEN mem' = [mem EXCEPT ![b] = taken(own)] /\ UNCHANGED call
                ELSE /\ mem' = [mem EXCEPT ![b] = started(own)]
                     /\ call' = [call EXCEPT ![b][FreeWorker(b)] = Launched(m(own).want)]
  BY Zenon DEF ApplyAfterDelay
<1>2. /\ m(own) \in Members
      /\ m(own).in = mem[b].in /\ m(own).deaf = mem[b].deaf /\ m(own).want = mem[b].want
      /\ m(own).inFlight = mem[b].inFlight /\ m(own).failures = mem[b].failures
      /\ m(own).timer = mem[b].timer
      /\ m(own).timer = "fired" => m(own).late < MaxLate
      /\ ~own => m(own).late + 1 = mem[b].late
  <2>1. CASE own
    BY <1>0, <2>1 DEF BotInd, MemberOK
  <2>2. CASE ~own
    <3>1. mem[b].late - 1 \in 0 .. MaxLate /\ mem[b].late \in 0 .. MaxLate
      BY <1>0, <1>1, <2>2, DeafAssumption DEF Members
    <3>2. late \in Members
      BY <1>0, <3>1 DEF Members
    <3>3. /\ late.in = mem[b].in /\ late.deaf = mem[b].deaf /\ late.want = mem[b].want
          /\ late.inFlight = mem[b].inFlight /\ late.failures = mem[b].failures
          /\ late.timer = mem[b].timer /\ late.late = mem[b].late - 1
      BY <1>0 DEF Members
    <3>. HIDE DEF late
    <3>. QED
      BY <1>0, <2>2, <3>1, <3>2, <3>3, DeafAssumption DEF BotInd, MemberOK
  <2>. QED
    BY <2>1, <2>2
<1>. HIDE DEF m
<1>3. /\ taken(own) \in Members
      /\ taken(own).in = mem[b].in /\ taken(own).deaf = mem[b].deaf
      /\ taken(own).want = mem[b].want /\ taken(own).inFlight = mem[b].inFlight
      /\ taken(own).failures = mem[b].failures /\ taken(own).timer = "none"
  <2>1. CASE own
    <3>1. taken(own) = [m(own) EXCEPT !.timer = "none", !.late = m(own).late]
      BY <2>1
    <3>2. [m(own) EXCEPT !.timer = "none", !.late = m(own).late] \in Members
      BY <1>2 DEF Members
    <3>. QED
      BY <1>2, <3>1, <3>2 DEF Members
  <2>2. CASE ~own
    <3>1. taken(own) = [m(own) EXCEPT !.timer = "none", !.late = m(own).late + 1]
      BY <2>2
    <3>2. m(own).late + 1 \in 0 .. MaxLate
      BY <1>0, <1>2, <2>2 DEF Members
    <3>3. [m(own) EXCEPT !.timer = "none", !.late = m(own).late + 1] \in Members
      BY <1>2, <3>2 DEF Members
    <3>. QED
      BY <1>2, <3>1, <3>3 DEF Members
  <2>. QED
    BY <2>1, <2>2
<1>. HIDE DEF taken
<1>4. /\ started(own) \in Members
      /\ started(own).in = mem[b].in /\ started(own).deaf = mem[b].deaf
      /\ started(own).want = mem[b].want /\ started(own).inFlight = TRUE
      /\ started(own).failures = mem[b].failures /\ started(own).timer = "none"
  BY <1>3 DEF Members
<1>. HIDE DEF started
<1>6. UNCHANGED <<discord, closed, disabled, raid, bounds>>
  BY DEF ApplyAfterDelay
<1>5. CASE closed \/ disabled \/ m(own).inFlight \/ m(own).timer = "none"
  <2>1. mem' = [mem EXCEPT ![b] = m(own)] /\ call' = [call EXCEPT ![b] = call[b]]
    BY <1>0, <1>1, <1>5 DEF TypeOK
  <2>2. Driven(b, m(own), call[b])
    BY <1>0, <1>2, <1>5 DEF BotInd, MemberOK, Driven
  <2>. QED
    BY <1>6, <2>1, <2>2, OneDriven
<1>7. CASE ~(closed \/ disabled \/ m(own).inFlight \/ m(own).timer = "none")
  <2>1. CASE m(own).want = m(own).deaf
    <3>1. mem' = [mem EXCEPT ![b] = taken(own)] /\ call' = [call EXCEPT ![b] = call[b]]
      BY <1>0, <1>1, <1>7, <2>1 DEF TypeOK
    <3>2. Driven(b, taken(own), call[b])
      BY <1>0, <1>2, <1>3, <1>7, <2>1 DEF Driven
    <3>. QED
      BY <1>6, <3>1, <3>2, OneDriven
  <2>2. CASE m(own).want # m(own).deaf
    <3>1. mem' = [mem EXCEPT ![b] = started(own)] /\ call' = [call EXCEPT ![b] = row(own)]
      BY <1>1, <1>7, <2>2
    <3>2. /\ ~mem[b].inFlight /\ mem[b].in /\ mem[b].failures < DeafRetryLimit
          /\ closing = "open"
      BY <1>0, <1>2, <1>7 DEF BotInd, MemberOK, PhaseOK
    <3>3. m(own).want \in BOOLEAN
      BY <1>2 DEF Members
    <3>4. /\ row(own) \in [Roles -> Calls]
          /\ \A r \in Roles \ Workers : row(own)[r] = call[b][r]
          /\ \E w \in Workers : /\ row(own)[w] = Launched(m(own).want)
                                /\ \A v \in Workers : v # w => row(own)[v] = call[b][v]
      BY <1>0, <3>2, <3>3, LaunchFacts
    <3>. HIDE DEF row
    <3>5. Driven(b, started(own), row(own))
      BY <1>4, <3>2, <3>3, <3>4 DEF Driven
    <3>. QED
      BY <1>6, <3>1, <3>5, OneDriven
  <2>. QED
    BY <2>1, <2>2
<1>. QED
  BY <1>5, <1>7

\* An answer: the goroutine's change is over, and reconcileLocked may start the next one.
LEMMA ApplyAnsweredKeeps ==
  ASSUME DeafInd, NEW b \in Bots, NEW w \in Workers, ApplyAnswered(b, w)
  PROVE  DeafInd'
<1>. DEFINE ok == call[b][w].pc = "ok"
            deaf == IF ok THEN call[b][w].want ELSE mem[b].deaf
            failures == IF ok THEN 0 ELSE mem[b].failures + 1
            m == [mem[b] EXCEPT !.inFlight = FALSE, !.rejected = ~ok,
                                !.deaf = IF ok THEN call[b][w].want ELSE @,
                                !.failures = IF ok THEN 0 ELSE @ + 1]
            rec == Reconcile(m, ok)
            next == CASE rec.go -> Called(FALSE)
                      [] call[b][w].pc = "forbidden" -> [call[b][w] EXCEPT !.pc = "note"]
                      [] OTHER -> Idle
<1>0. /\ mem[b] \in Members /\ BotInd(b) /\ TypeOK /\ w \in Roles
      /\ call[b] \in [Roles -> Calls] /\ call[b][w] \in Calls
  BY RolesFact DEF DeafInd, TypeOK
<1>1. /\ Active(b, w) /\ mem[b].inFlight /\ mem[b].in /\ mem[b].timer = "none"
      /\ mem[b].failures < DeafRetryLimit /\ \A v \in Workers : v # w => ~Active(b, v)
  <2>1. Active(b, w)
    BY DEF ApplyAnswered, Answered, Active, Changing
  <2>. QED
    BY <1>0, <2>1, RolesFact DEF BotInd, MemberOK
<1>2. mem' = [mem EXCEPT ![b] = rec.mem] /\ call' = [call EXCEPT ![b][w] = next]
  BY Zenon DEF ApplyAnswered
<1>3. /\ m \in Members /\ m.in = mem[b].in /\ m.deaf = deaf /\ m.want = mem[b].want
      /\ m.inFlight = FALSE /\ m.timer = "none" /\ m.late = mem[b].late
      /\ m.failures = failures /\ m.failures <= DeafRetryLimit
  <2>1. /\ failures \in 0 .. DeafRetryLimit /\ deaf \in BOOLEAN /\ (~ok) \in BOOLEAN
        /\ failures <= DeafRetryLimit
    BY <1>0, <1>1, DeafAssumption DEF Members, Calls
  <2>2. \A e \in BOOLEAN, d \in BOOLEAN, f \in 0 .. DeafRetryLimit :
           LET n == [mem[b] EXCEPT !.inFlight = FALSE, !.rejected = e, !.deaf = d,
                                   !.failures = f]
           IN n \in Members
    BY <1>0 DEF Members
  <2>4. m = [mem[b] EXCEPT !.inFlight = FALSE, !.rejected = ~ok, !.deaf = deaf,
                           !.failures = failures]
    BY Zenon
  <2>. HIDE DEF ok, deaf, failures, m
  <2>5. m \in Members
    BY <2>1, <2>2, <2>4, Zenon
  <2>6. /\ m.in = mem[b].in /\ m.deaf = deaf /\ m.want = mem[b].want
        /\ m.inFlight = FALSE /\ m.timer = mem[b].timer /\ m.late = mem[b].late
        /\ m.failures = failures
    BY <1>0, <2>4 DEF Members
  <2>. QED
    BY <1>1, <2>1, <2>5, <2>6
<1>. HIDE DEF m
<1>4. ReconcileOK(m, ok)
  BY <1>3, ReconcileFacts
<1>5. /\ rec.mem \in Members /\ rec.mem.in = mem[b].in /\ rec.mem.deaf = deaf
      /\ rec.mem.inFlight <=> rec.go
      /\ rec.mem.inFlight => rec.mem.timer = "none" /\ rec.mem.failures < DeafRetryLimit
      /\ rec.mem.timer # "none" => rec.mem.failures < DeafRetryLimit /\ ~closed /\ ~disabled
      /\ rec.mem.timer = "fired" => rec.mem.late < MaxLate
      /\ rec.mem.want # rec.mem.deaf /\ rec.mem.failures < DeafRetryLimit
         /\ ~rec.mem.inFlight /\ ~closed /\ ~disabled => rec.mem.timer # "none"
      /\ rec.go => ok
  BY <1>3, <1>4 DEF ReconcileOK
<1>6. /\ next \in Calls
      /\ next.pc = "check" \/ next.pc = "note" \/ next.pc = "idle"
      /\ next.pc = "check" <=> rec.go
      /\ next.pc = "note" => call[b][w].pc = "forbidden"
  <2>1. CASE rec.go
    <3>1. next = Called(FALSE)
      BY <1>5, <2>1, Zenon
    <3>. QED
      BY <2>1, <3>1 DEF Called, Calls
  <2>2. CASE ~rec.go /\ call[b][w].pc = "forbidden"
    <3>1. next = [call[b][w] EXCEPT !.pc = "note"]
      BY <2>2, Zenon
    <3>. QED
      BY <1>0, <2>2, <3>1 DEF Calls
  <2>3. CASE ~rec.go /\ call[b][w].pc # "forbidden"
    <3>1. next = Idle
      BY <2>3, Zenon
    <3>. QED
      BY <2>3, <3>1 DEF Idle, Calls
  <2>. QED
    BY <2>1, <2>2, <2>3
<1>. HIDE DEF rec, next
<1>7. /\ mem'[b] = rec.mem /\ call'[b][w] = next
      /\ \A r \in Roles \ {w} : call'[b][r] = call[b][r]
      /\ \A o \in Bots \ {b} : mem'[o] = mem[o] /\ call'[o] = call[o]
      /\ mem' \in [Bots -> Members] /\ call' \in [Bots -> [Roles -> Calls]]
  BY <1>0, <1>2, <1>5, <1>6 DEF TypeOK
<1>8. UNCHANGED <<discord, closed, disabled, raid, bounds>>
  BY DEF ApplyAnswered
<1>9. TypeOK'
  BY <1>0, <1>7, <1>8 DEF TypeOK, discord, raid, bounds
<1>10. \A o \in Bots \ {b} : BotInd(o)'
  BY <1>7, <1>8, BotKept DEF DeafInd, discord, raid
<1>11. Active(b, w)' <=> rec.go
  BY <1>6, <1>7 DEF Active, Changing
<1>12. \A v \in Workers \ {w} : ~Active(b, v)'
  BY <1>1, <1>7, RolesFact DEF Active
<1>13. MemberOK(b)'
  <2>1. mem'[b].inFlight <=> \E v \in Workers : Active(b, v)'
    BY <1>5, <1>7, <1>11, <1>12
  <2>2. ~(Active(b, "apply1")' /\ Active(b, "apply2")')
    BY <1>12, RolesFact
  <2>3. mem'[b].in <=> stage'[b] \in {"in", "left"}
    BY <1>0, <1>5, <1>7, <1>8 DEF BotInd, MemberOK, raid
  <2>. QED
    BY <1>1, <1>5, <1>7, <1>8, <2>1, <2>2, <2>3 DEF MemberOK
<1>14. PhaseOK(b)'
  BY <1>0, <1>7, <1>8, RolesFact DEF BotInd, PhaseOK, discord, raid
<1>15. CurrentOK(b)'
  BY <1>0, <1>6, <1>7, <1>8, RolesFact DEF BotInd, CurrentOK, Kind, discord, raid
<1>16. RecordOK(b)'
  <2>1. Kind /\ "join" \notin env.faulty /\ stage[b] = "in" /\ closing \in {"open", "waiting"}
        => flag[b] = deaf
    BY <1>0, <1>1 DEF BotInd, RecordOK
  <2>. HIDE DEF deaf
  <2>2. Kind' /\ "join" \notin env'.faulty /\ stage'[b] = "in" /\ closing' \in {"open", "waiting"}
        => flag'[b] = mem'[b].deaf
    BY <1>5, <1>7, <1>8, <2>1 DEF Kind, discord, raid
  <2>3. \A v \in Workers : Active(b, v)' => v = w /\ call'[b][v].pc = "check"
    BY <1>6, <1>7, <1>11, <1>12
  <2>4. call'[b].join = call[b].join
    BY <1>7, RolesFact
  <2>. QED
    BY <1>0, <1>8, <2>2, <2>3, <2>4 DEF BotInd, RecordOK, Kind, discord, raid
<1>17. RestoreOK(b)'
  BY <1>0, <1>1, <1>6, <1>7, <1>8, RolesFact
     DEF BotInd, RestoreOK, Calm, Kind, Active, discord, raid
<1>. QED
  BY <1>9, <1>10, <1>13, <1>14, <1>15, <1>16, <1>17 DEF DeafInd, BotInd

-----------------------------------------------------------------------------
(* The join, the latch and the teardown *)

\* Discord's own steps: a voice-state event arrives, or the permission goes.
LEMMA DiscordKeeps ==
  ASSUME DeafInd, NEW b \in Bots, NEW o \in Bots, CacheRefreshed(b) \/ Revoke
  PROVE  BotInd(o)'
<1>1. BotInd(o)
  BY DEF DeafInd
<1>2. CASE CacheRefreshed(b)
  <2>1. /\ mem' = mem /\ stage' = stage /\ voice' = voice /\ capture' = capture /\ flag' = flag
        /\ closed' = closed /\ disabled' = disabled /\ closing' = closing /\ env' = env
        /\ allowed' = allowed /\ call' = call /\ restore' = restore
        /\ o # b => cache'[o] = cache[o] /\ events'[o] = events[o]
        /\ events[b] # <<>>
    BY <1>2 DEF CacheRefreshed, control, raid, DeafInd, TypeOK
  <2>2. ASSUME o = b
        PROVE  BotInd(o)'
    <3>1. ~Kind
      BY <1>1, <2>1, <2>2 DEF BotInd, CurrentOK
    <3>2. MemberOK(o)' /\ PhaseOK(o)'
      BY <1>1, <2>1 DEF BotInd, MemberOK, PhaseOK, Active
    <3>3. ~Kind'
      BY <2>1, <3>1 DEF Kind
    <3>. QED
      BY <3>2, <3>3 DEF BotInd, CurrentOK, RecordOK, RestoreOK, Calm
  <2>. QED
    BY <1>1, <2>1, <2>2, BotKept
<1>3. CASE Revoke
  <2>1. /\ mem' = mem /\ stage' = stage /\ voice' = voice /\ capture' = capture
        /\ closed' = closed /\ disabled' = disabled /\ closing' = closing /\ env' = env
        /\ call' = call /\ env.revoke
    BY <1>3 DEF Revoke, control, raid
  <2>2. MemberOK(o)' /\ PhaseOK(o)'
    BY <1>1, <2>1 DEF BotInd, MemberOK, PhaseOK, Active
  <2>3. ~Kind'
    BY <2>1 DEF Kind
  <2>. QED
    BY <2>2, <2>3 DEF BotInd, CurrentOK, RecordOK, RestoreOK, Calm
<1>. QED
  BY <1>2, <1>3

\* A member whose timer is stopped.
Stopped(o) ==
    /\ mem'[o].in = mem[o].in /\ mem'[o].deaf = mem[o].deaf /\ mem'[o].want = mem[o].want
    /\ mem'[o].inFlight = mem[o].inFlight /\ mem'[o].failures = mem[o].failures
    /\ mem'[o].timer = "none"

LEMMA AllStopped ==
  ASSUME DeafInd, mem' = [b \in Bots |-> StopTimer(mem[b])], NEW o \in Bots
  PROVE  Stopped(o)
<1>1. mem[o] \in Members /\ (mem[o].timer = "fired" => mem[o].late < MaxLate)
  BY DEF DeafInd, BotInd, MemberOK, TypeOK
<1>2. mem'[o] = StopTimer(mem[o])
  OBVIOUS
<1>. QED
  BY <1>1, <1>2, StopTimerFacts DEF Stopped

\* Close stops the timers and keeps the records.
LEMMA CloseKeeps ==
  ASSUME DeafInd, NEW o \in Bots, Close
  PROVE  BotInd(o)'
<1>1. /\ BotInd(o) /\ closing = "open" /\ stage[o] # "joining" /\ Stopped(o)
  BY AllStopped DEF DeafInd, Close
<1>2. /\ closing' = "waiting" /\ closed' = TRUE
      /\ UNCHANGED <<flag, voice, allowed, cache, events, disabled, call, env, capture, stage,
                     restore>>
  BY DEF Close, discord
<1>3. MemberOK(o)'
  BY <1>1, <1>2 DEF BotInd, MemberOK, Active, Stopped
<1>4. PhaseOK(o)'
  BY <1>1, <1>2 DEF BotInd, PhaseOK
<1>5. CurrentOK(o)' /\ RecordOK(o)'
  BY <1>1, <1>2 DEF BotInd, CurrentOK, RecordOK, Kind, Active, Stopped
<1>6. RestoreOK(o)'
  BY <1>1, <1>2 DEF BotInd, RestoreOK, Calm, Kind
<1>. QED
  BY <1>3, <1>4, <1>5, <1>6 DEF BotInd

\* Close takes its list down: with every goroutine gone, it has every flag that is set.
LEMMA SnapshotKeeps ==
  ASSUME DeafInd, NEW o \in Bots, CloseWaited \/ CloseTimedOut
  PROVE  BotInd(o)'
<1>1. /\ BotInd(o) /\ closing = "waiting" /\ closing' = "restoring"
      /\ o \in restore' <=> mem[o].deaf
      /\ UNCHANGED <<flag, voice, allowed, cache, events, mem, closed, disabled, call, env,
                     capture, stage>>
  BY DEF CloseWaited, CloseTimedOut, Snapshot, DeafInd, discord, control
<1>2. Applying = {} \/ env.timeOut
  BY DEF CloseWaited, CloseTimedOut
<1>3. MemberOK(o)'
  BY <1>1 DEF BotInd, MemberOK, Active
<1>4. PhaseOK(o)'
  BY <1>1 DEF BotInd, PhaseOK
<1>5. CurrentOK(o)' /\ RecordOK(o)'
  BY <1>1 DEF BotInd, CurrentOK, RecordOK, PhaseOK, Kind, Active
<1>6. RestoreOK(o)'
  <2>1. SUFFICES ASSUME Calm PROVE RestoreOK(o)'
    BY <1>1 DEF RestoreOK, Calm, Kind
  <2>2. \A w \in Workers : ~Active(o, w) /\ call[o][w].pc # "launch"
    <3>1. Applying = {}
      BY <1>2, <2>1 DEF Calm
    <3>. SUFFICES ASSUME NEW w \in Workers
                  PROVE  ~Active(o, w) /\ call[o][w].pc # "launch"
      OBVIOUS
    <3>2. <<o, w>> \in Bots \X Workers
      OBVIOUS
    <3>3. <<o, w>> \notin Applying
      BY <3>1
    <3>4. ~(call[o][w].pc \notin {"idle", "launch"})
      BY <3>2, <3>3 DEF Applying
    <3>5. call[o][w].pc # "launch"
      BY <1>1, <2>1 DEF BotInd, RestoreOK
    <3>. QED
      BY <3>4, <3>5 DEF Active, Changing
  <2>3. stage[o] = "in" => (flag[o] <=> mem[o].deaf)
    <3>1. "join" \notin env.faulty /\ Kind
      BY <2>1 DEF Calm, Workers
    <3>2. ~mem[o].inFlight
      BY <1>1, <2>2 DEF BotInd, MemberOK
    <3>. QED
      BY <1>1, <3>1, <3>2 DEF BotInd, RecordOK
  <2>4. call[o].close.pc = "idle"
    BY <1>1 DEF BotInd, PhaseOK
  <2>. QED
    BY <1>1, <2>2, <2>3, <2>4 DEF RestoreOK, Active
<1>. QED
  BY <1>3, <1>4, <1>5, <1>6 DEF BotInd

\* Close returns once its list is empty and its last change is answered.
LEMMA CloseReturnsKeeps ==
  ASSUME DeafInd, NEW o \in Bots, CloseReturns
  PROVE  BotInd(o)'
<1>1. /\ BotInd(o) /\ closing = "restoring" /\ closing' = "cleanup"
      /\ o \notin restore /\ call[o].close = Idle
      /\ UNCHANGED <<flag, voice, allowed, cache, events, mem, closed, disabled, call, env,
                     capture, stage, restore>>
  BY DEF CloseReturns, DeafInd, discord, control
<1>3. MemberOK(o)'
  BY <1>1 DEF BotInd, MemberOK, Active
<1>4. PhaseOK(o)'
  BY <1>1 DEF BotInd, PhaseOK, Idle
<1>5. CurrentOK(o)' /\ RecordOK(o)'
  BY <1>1 DEF BotInd, CurrentOK, RecordOK, PhaseOK, Kind, Active
<1>6. RestoreOK(o)'
  <2>1. mem[o].in => stage[o] = "in"
    BY <1>1 DEF BotInd, MemberOK, PhaseOK
  <2>. QED
    BY <1>1, <2>1 DEF BotInd, RestoreOK, Calm, Kind, Active, Idle
<1>. QED
  BY <1>3, <1>4, <1>5, <1>6 DEF BotInd

\* The latch stops every timer, once.
LEMMA DisableFacts ==
  ASSUME DeafInd, Disable, NEW o \in Bots
  PROVE  disabled' = TRUE /\ Stopped(o)
<1>1. CASE disabled
  <2>1. mem[o].timer = "none"
    BY <1>1 DEF DeafInd, BotInd, MemberOK
  <2>. QED
    BY <1>1, <2>1 DEF Disable, Stopped
<1>2. CASE ~disabled
  BY <1>2, AllStopped DEF Disable
<1>. QED
  BY <1>1, <1>2

\* A goroutine, or a join, that was forbidden the change: only where the permission
\* may be taken away.
LEMMA NoteErrorKeeps ==
  ASSUME DeafInd, NEW b \in Bots, NEW o \in Bots, NEW w \in Workers, NoteError(b, w)
  PROVE  BotInd(o)'
<1>0. w \in Roles /\ TypeOK /\ BotInd(o) /\ BotInd(b) /\ call[b][w].pc = "note"
  BY RolesFact DEF DeafInd, NoteError
<1>1. /\ disabled' = TRUE /\ Stopped(o)
      /\ UNCHANGED <<flag, voice, allowed, cache, events, closed, env, capture, stage, closing>>
      /\ \A r \in Roles : call'[o][r] = IF o = b /\ r = w THEN Idle ELSE call[o][r]
  <2>1. /\ Disable /\ call' = [call EXCEPT ![b][w] = Idle]
        /\ UNCHANGED <<flag, voice, allowed, cache, events, closed, env, capture, stage, closing>>
    BY DEF NoteError, discord, raid
  <2>2. \A r \in Roles : call'[o][r] = IF o = b /\ r = w THEN Idle ELSE call[o][r]
    BY <1>0, <2>1 DEF TypeOK
  <2>. QED
    BY <2>1, <2>2, DisableFacts
<1>2. ~Kind'
  BY <1>0, <1>1 DEF BotInd, CurrentOK, Kind
<1>3. \A v \in Workers : Active(o, v)' <=> Active(o, v)
  BY <1>0, <1>1, RolesFact DEF Active, Changing, Idle
<1>4. MemberOK(o)'
  BY <1>0, <1>1, <1>3, RolesFact DEF BotInd, MemberOK, Stopped
<1>5. PhaseOK(o)'
  BY <1>0, <1>1, RolesFact DEF BotInd, PhaseOK
<1>. QED
  BY <1>2, <1>4, <1>5 DEF BotInd, CurrentOK, RecordOK, RestoreOK, Calm

LEMMA JoinRefusedKeeps ==
  ASSUME DeafInd, NEW b \in Bots, NEW o \in Bots, JoinRefused(b)
  PROVE  BotInd(o)'
<1>0. "join" \in Roles /\ TypeOK /\ BotInd(o) /\ BotInd(b) /\ call[b].join.pc = "forbidden"
  BY RolesFact DEF DeafInd, JoinRefused
<1>1. /\ disabled' = TRUE /\ Stopped(o)
      /\ UNCHANGED <<flag, voice, allowed, cache, events, closed, env, capture, stage, closing>>
      /\ \A r \in Roles : call'[o][r] = IF o = b /\ r = "join"
                                          THEN [pc |-> "rejected", want |-> call[b].join.want]
                                          ELSE call[o][r]
  <2>1. /\ Disable /\ Goto(b, "join", "rejected")
        /\ UNCHANGED <<flag, voice, allowed, cache, events, closed, env, capture, stage, closing>>
    BY DEF JoinRefused, discord, raid
  <2>2. \A r \in Roles : call'[o][r] = IF o = b /\ r = "join"
                                          THEN [pc |-> "rejected", want |-> call[b].join.want]
                                          ELSE call[o][r]
    BY <1>0, <2>1, GotoAt
  <2>. QED
    BY <2>1, <2>2, DisableFacts
<1>2. ~Kind'
  BY <1>0, <1>1 DEF BotInd, CurrentOK, Kind
<1>3. \A v \in Workers : Active(o, v)' <=> Active(o, v)
  BY <1>0, <1>1, RolesFact DEF Active, Changing
<1>4. MemberOK(o)'
  BY <1>0, <1>1, <1>3, RolesFact DEF BotInd, MemberOK, Stopped
<1>5. PhaseOK(o)'
  BY <1>0, <1>1, RolesFact DEF BotInd, PhaseOK
<1>. QED
  BY <1>2, <1>4, <1>5 DEF BotInd, CurrentOK, RecordOK, RestoreOK, Calm

\* A bot joins voice, where its flag is what an earlier session left.
LEMMA JoinKeeps ==
  ASSUME DeafInd, NEW b \in Bots, Join(b)
  PROVE  BotInd(b)'
<1>0. /\ TypeOK /\ BotInd(b) /\ stage[b] = "out" /\ closing = "open"
      /\ {flag[b]} \in SUBSET BOOLEAN /\ Publish(b, {flag[b]})
  BY DEF DeafInd, Join, TypeOK
<1>1. /\ stage'[b] = "joining" /\ voice'[b] = TRUE
      /\ UNCHANGED <<flag, allowed, mem, closed, disabled, env, capture, closing, restore>>
      /\ \A r \in Roles : call'[b][r] = IF r = "join" THEN Called(~capture[b]) ELSE call[b][r]
      /\ env.lag = 0 => cache'[b] = {flag[b]} /\ events'[b] = events[b]
  <2>1. /\ stage'[b] = "joining" /\ voice'[b] = TRUE
        /\ UNCHANGED <<flag, allowed, mem, closed, disabled, env, capture, closing, restore>>
    BY DEF Join, control, DeafInd, TypeOK
  <2>2. \A r \in Roles : call'[b][r] = IF r = "join" THEN Called(~capture[b]) ELSE call[b][r]
    <3>. DEFINE v == Called(~capture[b])
    <3>1. call' = [call EXCEPT ![b]["join"] = v]
      BY Zenon DEF Join
    <3>. HIDE DEF v
    <3>2. \A r \in Roles : call'[b][r] = IF r = "join" THEN v ELSE call[b][r]
      BY <1>0, <3>1, RolesFact DEF TypeOK
    <3>. QED
      BY <3>2 DEF v
  <2>. QED
    BY <1>0, <2>1, <2>2, PublishFacts
<1>2. MemberOK(b)'
  BY <1>0, <1>1, RolesFact DEF BotInd, MemberOK, Active
<1>3. PhaseOK(b)'
  BY <1>0, <1>1, RolesFact DEF BotInd, PhaseOK, Called
<1>4. CurrentOK(b)'
  <2>1. \A r \in Roles : call'[b][r].pc \in {"check", call[b][r].pc}
    BY <1>1 DEF Called
  <2>. QED
    BY <1>0, <1>1, <2>1 DEF BotInd, CurrentOK, Kind
<1>5. RecordOK(b)'
  BY <1>0, <1>1, RolesFact DEF BotInd, RecordOK, Kind, Called
<1>6. RestoreOK(b)'
  BY <1>0, <1>1, RolesFact DEF BotInd, RestoreOK, Calm, Kind
<1>. QED
  BY <1>2, <1>3, <1>4, <1>5, <1>6 DEF BotInd

\* The bot is registered with the flag its join has left it.
LEMMA JoinDoneKeeps ==
  ASSUME DeafInd, NEW b \in Bots, JoinDone(b)
  PROVE  BotInd(b)'
<1>. DEFINE deafened == ~capture[b] /\ call[b].join.pc = "ok"
<1>0. /\ TypeOK /\ BotInd(b) /\ call[b].join.pc \in {"ok", "rejected"}
  BY DEF DeafInd, JoinDone
<1>1. /\ stage'[b] = "in"
      /\ UNCHANGED <<flag, voice, allowed, cache, events, closed, disabled, env, capture,
                     closing, restore>>
      /\ \A r \in Roles : call'[b][r] = IF r = "join" THEN Idle ELSE call[b][r]
      /\ mem'[b] = NewMember(TRUE, deafened)
  <2>1. /\ stage'[b] = "in" /\ mem'[b] = NewMember(TRUE, deafened)
        /\ UNCHANGED <<flag, voice, allowed, cache, events, closed, disabled, env, capture,
                       closing, restore>>
    BY DEF JoinDone, discord, DeafInd, TypeOK
  <2>2. \A r \in Roles : call'[b][r] = IF r = "join" THEN Idle ELSE call[b][r]
    <3>1. call' = [call EXCEPT ![b]["join"] = Idle]
      BY Zenon DEF JoinDone
    <3>. QED
      BY <1>0, <3>1, RolesFact DEF TypeOK
  <2>. QED
    BY <2>1, <2>2
<1>2. /\ stage[b] = "joining" /\ closing = "open" /\ ~mem[b].in /\ \A w \in Workers : ~Active(b, w)
  BY <1>0 DEF BotInd, PhaseOK, MemberOK
<1>3. /\ mem'[b].in = TRUE /\ mem'[b].deaf = deafened /\ mem'[b].want = deafened
      /\ mem'[b].inFlight = FALSE /\ mem'[b].timer = "none" /\ mem'[b].failures = 0
  BY <1>1 DEF NewMember
<1>4. \A w \in Workers : ~Active(b, w)'
  BY <1>1, <1>2, RolesFact DEF Active
<1>5. MemberOK(b)'
  <2>. HIDE DEF deafened
  <2>. QED
    BY <1>1, <1>3, <1>4, RolesFact DEF MemberOK
<1>6. PhaseOK(b)'
  BY <1>0, <1>1, <1>2, RolesFact DEF BotInd, PhaseOK, Idle
<1>7. CurrentOK(b)'
  BY <1>0, <1>1, RolesFact DEF BotInd, CurrentOK, Kind, Idle
<1>8. RecordOK(b)'
  <2>1. Kind /\ "join" \notin env.faulty => (flag[b] <=> deafened)
    BY <1>0, <1>2 DEF BotInd, RecordOK, PhaseOK
  <2>. HIDE DEF deafened
  <2>2. flag[b] \in BOOLEAN /\ mem'[b].deaf \in BOOLEAN
    BY RaidStepsType DEF DeafInd, TypeOK, Members
  <2>. QED
    BY <1>1, <1>3, <1>4, <2>1, <2>2 DEF RecordOK, Kind
<1>9. RestoreOK(b)'
  BY <1>0, <1>1, <1>2, RolesFact DEF BotInd, RestoreOK, Calm, Kind
<1>. QED
  BY <1>5, <1>6, <1>7, <1>8, <1>9 DEF BotInd

\* Close undoes one flag of its list after the other.
LEMMA CloseRestoresKeeps ==
  ASSUME DeafInd, NEW b \in Bots, CloseRestores(b)
  PROVE  BotInd(b)'
<1>0. TypeOK /\ BotInd(b) /\ closing = "restoring"
  BY DEF DeafInd, CloseRestores
<1>1. /\ UNCHANGED <<flag, voice, allowed, cache, events, mem, closed, disabled, env, capture,
                     stage, closing>>
      /\ \A r \in Roles : call'[b][r] = IF r = "close" THEN Called(FALSE) ELSE call[b][r]
  <2>1. call' = [call EXCEPT ![b]["close"] = Called(FALSE)]
    BY Zenon DEF CloseRestores
  <2>2. \A r \in Roles : call'[b][r] = IF r = "close" THEN Called(FALSE) ELSE call[b][r]
    BY <1>0, <2>1, RolesFact DEF TypeOK
  <2>. QED
    BY <2>2 DEF CloseRestores, discord, control
<1>2. MemberOK(b)'
  BY <1>0, <1>1, RolesFact DEF BotInd, MemberOK, Active
<1>3. PhaseOK(b)'
  BY <1>0, <1>1, RolesFact DEF BotInd, PhaseOK, Called
<1>4. CurrentOK(b)'
  BY <1>0, <1>1, RolesFact DEF BotInd, CurrentOK, Kind, Called
<1>5. RecordOK(b)'
  BY <1>0, <1>1, RolesFact DEF BotInd, RecordOK, PhaseOK, Kind, Active
<1>6. RestoreOK(b)'
  BY <1>0, <1>1, RolesFact DEF BotInd, RestoreOK, Calm, Kind, Active, Called
<1>. QED
  BY <1>2, <1>3, <1>4, <1>5, <1>6 DEF BotInd

\* An undo of Close that was not refused has left the bot without the flag.
LEMMA CloseAnsweredKeeps ==
  ASSUME DeafInd, NEW b \in Bots, CloseAnswered(b)
  PROVE  BotInd(b)'
<1>0. TypeOK /\ BotInd(b) /\ call[b].close.pc \in {"ok", "rejected", "forbidden"}
  BY DEF DeafInd, CloseAnswered, Answered
<1>1. /\ UNCHANGED <<flag, voice, allowed, cache, events, mem, closed, disabled, env, capture,
                     stage, closing, restore>>
      /\ \A r \in Roles : call'[b][r] = IF r = "close" THEN Idle ELSE call[b][r]
  <2>1. call' = [call EXCEPT ![b]["close"] = Idle]
    BY Zenon DEF CloseAnswered
  <2>2. \A r \in Roles : call'[b][r] = IF r = "close" THEN Idle ELSE call[b][r]
    BY <1>0, <2>1, RolesFact DEF TypeOK
  <2>. QED
    BY <2>2 DEF CloseAnswered, discord, control, raid
<1>2. MemberOK(b)'
  BY <1>0, <1>1, RolesFact DEF BotInd, MemberOK, Active
<1>3. PhaseOK(b)'
  BY <1>0, <1>1, RolesFact DEF BotInd, PhaseOK, Idle
<1>4. CurrentOK(b)'
  BY <1>0, <1>1, RolesFact DEF BotInd, CurrentOK, Kind, Idle
<1>5. RecordOK(b)'
  BY <1>0, <1>1, RolesFact DEF BotInd, RecordOK, PhaseOK, Kind, Active
<1>6. RestoreOK(b)'
  BY <1>0, <1>1, RolesFact DEF BotInd, RestoreOK, Calm, Kind, Active, Idle
<1>. QED
  BY <1>2, <1>3, <1>4, <1>5, <1>6 DEF BotInd

\* A speaker's cleanup asks for its flag to be taken off, never for more.
LEMMA UndeafenSpeakerKeeps ==
  ASSUME DeafInd, NEW b \in Bots, UndeafenSpeaker(b)
  PROVE  BotInd(b)'
<1>0. TypeOK /\ BotInd(b) /\ closing = "cleanup"
  BY DEF DeafInd, UndeafenSpeaker
<1>1. /\ UNCHANGED <<flag, voice, allowed, cache, events, mem, closed, disabled, env, capture,
                     stage, closing, restore>>
      /\ \A r \in Roles : call'[b][r] = IF r = "undo" THEN Called(FALSE) ELSE call[b][r]
  <2>1. call' = [call EXCEPT ![b]["undo"] = Called(FALSE)]
    BY Zenon DEF UndeafenSpeaker
  <2>2. \A r \in Roles : call'[b][r] = IF r = "undo" THEN Called(FALSE) ELSE call[b][r]
    BY <1>0, <2>1, RolesFact DEF TypeOK
  <2>. QED
    BY <2>2 DEF UndeafenSpeaker, discord, control
<1>2. MemberOK(b)'
  BY <1>0, <1>1, RolesFact DEF BotInd, MemberOK, Active
<1>3. PhaseOK(b)'
  BY <1>0, <1>1, RolesFact DEF BotInd, PhaseOK, Called
<1>4. CurrentOK(b)'
  BY <1>0, <1>1, RolesFact DEF BotInd, CurrentOK, Kind, Called
<1>5. RecordOK(b)'
  BY <1>0, <1>1, RolesFact DEF BotInd, RecordOK, PhaseOK, Kind, Active
<1>6. RestoreOK(b)'
  BY <1>0, <1>1, RolesFact DEF BotInd, RestoreOK, Calm, Kind, Active
<1>. QED
  BY <1>2, <1>3, <1>4, <1>5, <1>6 DEF BotInd

\* The bot leaves voice with the flag it has by then.
LEMMA LeaveVoiceKeeps ==
  ASSUME DeafInd, NEW b \in Bots, LeaveVoice(b)
  PROVE  BotInd(b)'
<1>0. TypeOK /\ BotInd(b) /\ closing = "cleanup" /\ stage[b] = "in" /\ Publish(b, {})
  BY DEF DeafInd, LeaveVoice
<1>1. /\ stage'[b] = "left" /\ voice'[b] = FALSE
      /\ UNCHANGED <<flag, allowed, mem, closed, disabled, env, capture, closing, restore>>
      /\ \A r \in Roles : call'[b][r] = IF r = "undo" THEN Idle ELSE call[b][r]
      /\ env.lag = 0 => cache'[b] = {} /\ events'[b] = events[b]
  <2>1. call' = [call EXCEPT ![b]["undo"] = Idle]
    BY Zenon DEF LeaveVoice
  <2>2. \A r \in Roles : call'[b][r] = IF r = "undo" THEN Idle ELSE call[b][r]
    BY <1>0, <2>1, RolesFact DEF TypeOK
  <2>3. env.lag = 0 => cache'[b] = {} /\ events'[b] = events[b]
    BY <1>0, PublishFacts
  <2>4. /\ stage'[b] = "left" /\ voice'[b] = FALSE
        /\ UNCHANGED <<flag, allowed, mem, closed, disabled, env, capture, closing, restore>>
    BY <1>0 DEF LeaveVoice, control, TypeOK
  <2>. QED
    BY <2>2, <2>3, <2>4
<1>2. MemberOK(b)'
  BY <1>0, <1>1, RolesFact DEF BotInd, MemberOK, Active
<1>3. PhaseOK(b)'
  BY <1>0, <1>1, RolesFact DEF BotInd, PhaseOK, Idle
<1>4. CurrentOK(b)'
  <2>1. \A r \in Roles : call'[b][r].pc \in {"idle", call[b][r].pc}
    BY <1>1 DEF Idle
  <2>. QED
    BY <1>0, <1>1, <2>1 DEF BotInd, CurrentOK, Kind
<1>5. RecordOK(b)'
  BY <1>0, <1>1, RolesFact DEF RecordOK
<1>6. RestoreOK(b)'
  BY <1>0, <1>1, RolesFact DEF BotInd, RestoreOK, Calm, Kind, Active
<1>. QED
  BY <1>2, <1>3, <1>4, <1>5, <1>6 DEF BotInd

\* The bot stays in voice, and the raid is done with it.
LEMMA LeavesTooLateKeeps ==
  ASSUME DeafInd, NEW b \in Bots, LeavesTooLate(b)
  PROVE  BotInd(b)'
<1>0. TypeOK /\ BotInd(b) /\ closing = "cleanup" /\ stage[b] = "in" /\ env.timeOut
  BY DEF DeafInd, LeavesTooLate
<1>1. /\ stage'[b] = "left"
      /\ UNCHANGED <<flag, voice, cache, events, allowed, mem, closed, disabled, env, capture,
                     closing, restore>>
      /\ \A r \in Roles : call'[b][r] = IF r = "undo" THEN Idle ELSE call[b][r]
  <2>1. call' = [call EXCEPT ![b]["undo"] = Idle]
    BY Zenon DEF LeavesTooLate
  <2>2. \A r \in Roles : call'[b][r] = IF r = "undo" THEN Idle ELSE call[b][r]
    BY <1>0, <2>1, RolesFact DEF TypeOK
  <2>. QED
    BY <1>0, <2>2 DEF LeavesTooLate, discord, control, TypeOK
<1>2. MemberOK(b)'
  BY <1>0, <1>1, RolesFact DEF BotInd, MemberOK, Active
<1>3. PhaseOK(b)'
  BY <1>0, <1>1, RolesFact DEF BotInd, PhaseOK, Idle
<1>4. CurrentOK(b)'
  <2>1. \A r \in Roles : call'[b][r].pc \in {"idle", call[b][r].pc}
    BY <1>1 DEF Idle
  <2>. QED
    BY <1>0, <1>1, <2>1 DEF BotInd, CurrentOK, Kind
<1>5. RecordOK(b)'
  BY <1>0, <1>1, RolesFact DEF RecordOK
<1>6. RestoreOK(b)'
  BY <1>0, <1>1 DEF RestoreOK, Calm
<1>. QED
  BY <1>2, <1>3, <1>4, <1>5, <1>6 DEF BotInd

-----------------------------------------------------------------------------
(* The invariant *)

\* Every step of one bot, its join included, keeps the invariant of all.
LEMMA BotStepKeeps ==
  ASSUME DeafInd, NEW b \in Bots, BotStep(b) \/ Join(b)
  PROVE  DeafInd'
<1>0. \A o \in Bots : BotInd(o)
  BY DEF DeafInd
<1>1. ASSUME NEW r \in Roles,
             \/ CheckCache(b, r) \/ PatchLands(b, r)
             \/ PatchRejected(b, r) \/ PatchForbidden(b, r)
      PROVE  DeafInd'
  <2>1. \A o \in Bots \ {b} :
          /\ call'[o] = call[o] /\ flag'[o] = flag[o]
          /\ cache'[o] = cache[o] /\ events'[o] = events[o]
    <3>1. call' = call \/ \E pc : Goto(b, r, pc)
      BY <1>1 DEF CheckCache, PatchLands, PatchRejected, PatchForbidden
    <3>2. \A o \in Bots \ {b} : call'[o] = call[o]
      BY <3>1 DEF Goto, DeafInd, TypeOK
    <3>3. \A o \in Bots \ {b} : flag'[o] = flag[o] /\ cache'[o] = cache[o] /\ events'[o] = events[o]
      <4>1. CASE PatchLands(b, r)
        <5>1. call[b][r].want \in BOOLEAN
          BY DEF DeafInd, TypeOK, Calls
        <5>2. {call[b][r].want} \in SUBSET BOOLEAN /\ Publish(b, {call[b][r].want})
          BY <4>1, <5>1 DEF PatchLands
        <5>. QED
          BY <4>1, <5>2, PublishFacts DEF PatchLands, DeafInd, TypeOK
      <4>2. CASE ~PatchLands(b, r)
        BY <1>1, <4>2 DEF CheckCache, PatchRejected, PatchForbidden, discord
      <4>. QED
        BY <4>1, <4>2
    <3>. QED
      BY <3>2, <3>3
  <2>2. UNCHANGED <<mem, stage, voice, capture, env, allowed, closed, disabled, closing, restore>>
    BY <1>1 DEF CheckCache, PatchLands, PatchRejected, PatchForbidden, discord, control, raid
  <2>3. \A o \in Bots \ {b} : BotInd(o)'
    BY <1>0, <2>1, <2>2, BotKept
  <2>4. BotInd(b)'
    BY <1>1, CheckCacheKeeps, PatchLandsKeeps, PatchRejectedKeeps, PatchForbiddenKeeps
  <2>5. TypeOK'
    BY <1>1, CallStepsType
  <2>. QED
    BY <2>3, <2>4, <2>5 DEF DeafInd
<1>2. ASSUME NEW w \in Workers, LaunchApply(b, w)
      PROVE  DeafInd'
  <2>1. \A o \in Bots \ {b} : call'[o] = call[o]
    BY <1>2 DEF LaunchApply, Goto, DeafInd, TypeOK
  <2>2. UNCHANGED <<mem, stage, voice, capture, env, allowed, closed, disabled, closing, restore,
                    flag, cache, events>>
    BY <1>2 DEF LaunchApply, discord, control, raid
  <2>3. \A o \in Bots \ {b} : BotInd(o)'
    BY <1>0, <2>1, <2>2, BotKept
  <2>. QED
    BY <1>2, <2>3, LaunchApplyKeeps, OtherStepsType DEF DeafInd
<1>3. ASSUME NEW w \in Workers, NoteError(b, w)
      PROVE  DeafInd'
  BY <1>3, NoteErrorKeeps, OtherStepsType DEF DeafInd
<1>4. CASE CacheRefreshed(b) \/ JoinRefused(b)
  <2>1. PICK w \in Workers : TRUE
    BY RolesFact
  <2>2. TypeOK'
    BY <1>4, <2>1, OtherStepsType
  <2>. QED
    BY <1>4, <2>2, DiscordKeeps, JoinRefusedKeeps DEF DeafInd
<1>5. CASE \/ Join(b) \/ JoinDone(b) \/ CloseRestores(b) \/ CloseAnswered(b)
           \/ UndeafenSpeaker(b) \/ LeaveVoice(b) \/ LeavesTooLate(b)
  <2>1. \A o \in Bots \ {b} :
          /\ mem'[o] = mem[o] /\ call'[o] = call[o] /\ stage'[o] = stage[o]
          /\ voice'[o] = voice[o] /\ cache'[o] = cache[o] /\ events'[o] = events[o]
          /\ o \in restore' <=> o \in restore
    <3>1. CASE Join(b)
      <4>1. {flag[b]} \in SUBSET BOOLEAN /\ Publish(b, {flag[b]})
        BY <3>1 DEF Join, DeafInd, TypeOK
      <4>2. \A o \in Bots \ {b} : cache'[o] = cache[o] /\ events'[o] = events[o]
        BY <4>1, PublishFacts DEF DeafInd
      <4>. QED
        BY <3>1, <4>2 DEF Join, control, DeafInd, TypeOK
    <3>2. CASE LeaveVoice(b)
      <4>1. {} \in SUBSET BOOLEAN /\ Publish(b, {})
        BY <3>2 DEF LeaveVoice
      <4>2. \A o \in Bots \ {b} : cache'[o] = cache[o] /\ events'[o] = events[o]
        BY <4>1, PublishFacts DEF DeafInd
      <4>. QED
        BY <3>2, <4>2 DEF LeaveVoice, control, DeafInd, TypeOK
    <3>3. CASE JoinDone(b)
      BY <3>3 DEF JoinDone, discord, DeafInd, TypeOK
    <3>4. CASE CloseRestores(b)
      BY <3>4 DEF CloseRestores, discord, control, DeafInd, TypeOK
    <3>5. CASE CloseAnswered(b)
      BY <3>5 DEF CloseAnswered, discord, control, raid, DeafInd, TypeOK
    <3>6. CASE UndeafenSpeaker(b)
      BY <3>6 DEF UndeafenSpeaker, discord, control, DeafInd, TypeOK
    <3>7. CASE LeavesTooLate(b)
      BY <3>7 DEF LeavesTooLate, discord, control, DeafInd, TypeOK
    <3>. QED
      BY <1>5, <3>1, <3>2, <3>3, <3>4, <3>5, <3>6, <3>7
  <2>2. UNCHANGED <<flag, capture, env, allowed, closed, disabled, closing>>
    BY <1>5 DEF Join, JoinDone, CloseRestores, CloseAnswered, UndeafenSpeaker, LeaveVoice,
                LeavesTooLate,
                discord, control, raid
  <2>3. \A o \in Bots \ {b} : BotInd(o)'
    BY <1>0, <2>1, <2>2, BotKept
  <2>4. BotInd(b)'
    BY <1>5, JoinKeeps, JoinDoneKeeps, CloseRestoresKeeps, CloseAnsweredKeeps,
       UndeafenSpeakerKeeps, LeaveVoiceKeeps, LeavesTooLateKeeps
  <2>5. TypeOK'
    BY <1>5, RaidStepsType
  <2>. QED
    BY <2>3, <2>4, <2>5 DEF DeafInd
<1>. QED
  BY <1>1, <1>2, <1>3, <1>4, <1>5, ApplyAnsweredKeeps, TimerFiresKeeps, ApplyAfterDelayKeeps
     DEF BotStep

\* Initially no bot is in the raid.
LEMMA InitDeafInd == Init => DeafInd
<1>. SUFFICES ASSUME Init PROVE DeafInd
  OBVIOUS
<1>1. /\ Idle \in Calls /\ Idle.pc = "idle" /\ NewMember(FALSE, FALSE) \in Members
      /\ LET m == NewMember(FALSE, FALSE) IN
         /\ m.in = FALSE /\ m.inFlight = FALSE /\ m.timer = "none" /\ m.deaf = FALSE
         /\ m.want = FALSE
  BY DeafAssumption DEF Idle, Calls, NewMember, Members
<1>2. TypeOK
  <2>1. capture \in [Bots -> BOOLEAN]
    BY DEF Init
  <2>2. \A b \in Bots : events[b] \in Seq(SUBSET BOOLEAN)
    BY DEF Init
  <2>3. mem \in [Bots -> Members] /\ call \in [Bots -> [Roles -> Calls]]
    BY <1>1 DEF Init
  <2>4. observes \in 0 .. MaxObserves /\ faults \in 0 .. MaxFaults
    BY DeafAssumption DEF Init
  <2>5. /\ flag \in [Bots -> BOOLEAN] /\ voice \in [Bots -> BOOLEAN] /\ allowed \in BOOLEAN
        /\ cache \in [Bots -> SUBSET BOOLEAN] /\ closed \in BOOLEAN /\ disabled \in BOOLEAN
        /\ stage \in [Bots -> {"out", "joining", "in", "left"}]
        /\ undo \in [Bots -> BOOLEAN] /\ restore \subseteq Bots /\ env \in Environments
        /\ closing \in {"open", "waiting", "restoring", "cleanup"}
    BY DEF Init
  <2>. QED
    BY <2>1, <2>2, <2>3, <2>4, <2>5 DEF TypeOK
<1>3. ASSUME NEW b \in Bots
      PROVE  BotInd(b)
  <2>1. /\ mem[b] = NewMember(FALSE, FALSE) /\ \A r \in Roles : call[b][r] = Idle
        /\ stage[b] = "out" /\ closing = "open" /\ voice[b] = FALSE /\ allowed = TRUE
        /\ closed = FALSE /\ disabled = FALSE /\ cache[b] = {} /\ events[b] = <<>>
    BY DEF Init
  <2>2. \A w \in Workers : ~Active(b, w) /\ call[b][w].pc # "launch"
    BY <1>1, <2>1, RolesFact DEF Active, Changing
  <2>3. MemberOK(b)
    BY <1>1, <2>1, <2>2, RolesFact DEF MemberOK
  <2>4. PhaseOK(b) /\ CurrentOK(b)
    BY <1>1, <2>1, RolesFact DEF PhaseOK, CurrentOK
  <2>5. RecordOK(b) /\ RestoreOK(b)
    BY <2>1, <2>2 DEF RecordOK, RestoreOK
  <2>. QED
    BY <2>3, <2>4, <2>5 DEF BotInd
<1>. QED
  BY <1>2, <1>3 DEF DeafInd

\* The invariant is inductive.
LEMMA DeafIndInv == Spec => []DeafInd
<1>1. ASSUME DeafInd, [Next]_vars
      PROVE  DeafInd'
  <2>1. PICK b \in Bots, w \in Workers : TRUE
    BY RolesFact, DeafAssumption
  <2>2. CASE \E o \in Bots : BotStep(o) \/ Join(o)
    BY <1>1, <2>2, BotStepKeeps
  <2>3. CASE Observe
    BY <1>1, <2>3, ObserveKeeps
  <2>4. CASE Revoke \/ Close \/ CloseWaited \/ CloseTimedOut \/ CloseReturns
    <3>1. TypeOK'
      BY <1>1, <2>1, <2>4, OtherStepsType
    <3>2. \A o \in Bots : BotInd(o)'
      BY <1>1, <2>1, <2>4, DiscordKeeps, CloseKeeps, SnapshotKeeps, CloseReturnsKeeps
    <3>. QED
      BY <3>1, <3>2 DEF DeafInd
  <2>5. CASE UNCHANGED vars
    <3>1. TypeOK'
      BY <1>1, <2>5 DEF DeafInd, TypeOK, vars, discord, control, raid, bounds
    <3>2. \A o \in Bots : BotInd(o)'
      BY <1>1, <2>5, BotKept DEF DeafInd, vars, discord, control, raid
    <3>. QED
      BY <3>1, <3>2 DEF DeafInd
  <2>. QED
    BY <1>1, <2>2, <2>3, <2>4, <2>5 DEF Next
<1>. QED
  BY <1>1, InitDeafInd, PTL DEF Spec

-----------------------------------------------------------------------------
(* The theorems *)

\* A set with at most one of two elements has at most one element.
LEMMA AtMostOne ==
  ASSUME NEW S, S \subseteq Workers, ~("apply1" \in S /\ "apply2" \in S)
  PROVE  Cardinality(S) <= 1
<1>1. S = {} \/ S = {"apply1"} \/ S = {"apply2"}
  BY RolesFact
<1>2. CASE S = {}
  BY <1>2, FS_EmptySet
<1>3. CASE S = {"apply1"}
  <2>1. Cardinality(S) = 1
    BY <1>3, FS_Singleton, Zenon
  <2>. QED
    BY <2>1
<1>4. CASE S = {"apply2"}
  <2>1. Cardinality(S) = 1
    BY <1>4, FS_Singleton, Zenon
  <2>. QED
    BY <2>1
<1>. QED
  BY <1>1, <1>2, <1>3, <1>4, Zenon

\* The inductive invariant gives each part of DeafeningInv.
LEMMA DeafIndImplies == DeafInd => DeafeningInv
<1>. SUFFICES ASSUME DeafInd PROVE DeafeningInv
  OBVIOUS
<1>1. OneChangeAtATime
  <2>. SUFFICES ASSUME NEW b \in Bots
                PROVE  Cardinality({w \in Workers : call[b][w].pc \in
                         {"launch", "check", "sent", "ok", "rejected", "forbidden"}}) <= 1
    BY DEF OneChangeAtATime
  <2>. DEFINE S == {w \in Workers : call[b][w].pc \in
                      {"launch", "check", "sent", "ok", "rejected", "forbidden"}}
  <2>1. ~("apply1" \in S /\ "apply2" \in S)
    BY DEF DeafInd, BotInd, MemberOK, Active, Changing
  <2>2. S \subseteq Workers
    OBVIOUS
  <2>. HIDE DEF S
  <2>3. Cardinality(S) <= 1
    BY <2>1, <2>2, AtMostOne
  <2>. QED
    BY <2>3 DEF S
<1>2. NoWishForgotten
  <2>. SUFFICES ASSUME Kind, "join" \notin env.faulty, NEW b \in Bots, Settled(b),
                       mem[b].failures < DeafRetryLimit
                PROVE  flag[b] = mem[b].want
    BY DEF NoWishForgotten, WishGranted, Kind
  <2>1. stage[b] = "in" /\ closing = "open" /\ ~disabled /\ mem[b].timer = "none"
    BY DEF Settled
  <2>2. \A w \in Workers : ~Active(b, w)
    BY RolesFact DEF Settled, Idle, Active, Changing
  <2>3. ~mem[b].inFlight /\ ~closed
    BY <2>1, <2>2 DEF DeafInd, BotInd, MemberOK, PhaseOK
  <2>4. mem[b].want = mem[b].deaf
    BY <2>1, <2>3 DEF DeafInd, BotInd, MemberOK
  <2>5. flag[b] = mem[b].deaf
    BY <2>1, <2>3 DEF DeafInd, BotInd, RecordOK
  <2>. QED
    BY <2>4, <2>5
<1>3. NoFlagStranded
  <2>. SUFFICES ASSUME Calm, NEW b \in Bots, mem[b].in, stage[b] = "left"
                PROVE  ~flag[b]
    BY DEF NoFlagStranded, FlagUndone, Calm, Kind
  <2>1. closing = "cleanup"
    BY DEF DeafInd, BotInd, PhaseOK
  <2>. QED
    BY <2>1 DEF DeafInd, BotInd, RestoreOK
<1>. QED
  BY <1>1, <1>2, <1>3 DEF DeafeningInv, DeafInd

\* However reports, timers, answers, refusals and the teardown interleave, for any
\* number of bots: a bot's flag is changed by one goroutine at a time, no wish of the
\* router is forgotten, and Close leaves no flag set where Discord lets it.
THEOREM FlagsAreLookedAfter == Spec => []DeafeningInv
BY DeafIndInv, DeafIndImplies, PTL

\* A report asks for a refused wish again only if it has changed.
LEMMA ObservePaced ==
  ASSUME DeafInd, Observe, NEW b \in Bots, mem[b].rejected, mem'[b].want = mem[b].want
  PROVE  call'[b] = call[b]
<1>1. CASE closed \/ disabled
  BY <1>1 DEF Observe
<1>2. CASE ~(closed \/ disabled)
  <2>1. PICK capturing \in SUBSET Bots :
          LET asked(o) == Asked(mem[o], o \notin capturing)
              rec(o) == Reconcile(asked(o), ~asked(o).rejected)
          IN /\ mem' = [o \in Bots |-> rec(o).mem]
             /\ call' = [o \in Bots |->
                  IF rec(o).go
                    THEN [call[o] EXCEPT ![FreeWorker(o)] = Launched(FALSE)]
                    ELSE call[o]]
    BY <1>2 DEF Observe
  <2>. DEFINE m == Asked(mem[b], b \notin capturing)
              rec == Reconcile(m, ~m.rejected)
  <2>2. mem'[b] = rec.mem /\ (~rec.go => call'[b] = call[b])
    BY <2>1
  <2>3. mem[b] \in Members /\ BotInd(b)
    BY DEF DeafInd, TypeOK
  <2>4. /\ m \in Members /\ m.inFlight = mem[b].inFlight /\ m.failures = 0
        /\ m.timer = mem[b].timer /\ m.late = mem[b].late
    BY <2>3, AskedFacts
  <2>5. m.want = mem[b].want => m.rejected
    BY <2>3 DEF Asked, Members
  <2>. HIDE DEF m
  <2>6. ReconcileOK(m, ~m.rejected)
    <3>1. (~m.rejected) \in BOOLEAN
      OBVIOUS
    <3>2. /\ m.inFlight => m.timer = "none" /\ m.failures < DeafRetryLimit
          /\ m.timer # "none" => ~closed /\ ~disabled
          /\ m.timer = "fired" => m.late < MaxLate
      BY <2>3, <2>4, DeafAssumption DEF BotInd, MemberOK
    <3>. QED
      BY <2>4, <3>1, <3>2, ReconcileFacts
  <2>7. rec.mem.want = m.want /\ (rec.go => ~m.rejected)
    BY <2>6 DEF ReconcileOK
  <2>. QED
    BY <2>2, <2>5, <2>7
<1>. QED
  BY <1>1, <1>2

\* A bot whose goroutines rest gets one only by a report or a timer's callback.
LEMMA OnlyReportsAndTimersStart ==
  ASSUME DeafInd, [Next]_vars, NEW b \in Bots, \A w \in Workers : call[b][w] = Idle,
         NEW w \in Workers, call'[b][w] # Idle
  PROVE  Observe \/ ApplyAfterDelay(b)
<1>0. call \in [Bots -> [Roles -> Calls]] /\ w \in Roles
  BY RolesFact DEF DeafInd, TypeOK
<1>1. ASSUME NEW o \in Bots, BotStep(o) \/ Join(o), ~ApplyAfterDelay(b)
      PROVE  FALSE
  <2>1. ASSUME NEW r \in Roles, NEW pc, Goto(o, r, pc), o # b \/ r # w
        PROVE  call'[b][w] = call[b][w]
    BY <1>0, <2>1 DEF Goto
  <2>2. \A r \in Roles : ~(\/ CheckCache(o, r) \/ PatchLands(o, r)
                           \/ PatchRejected(o, r) \/ PatchForbidden(o, r))
    BY <2>1 DEF CheckCache, PatchLands, PatchRejected, PatchForbidden, Idle
  <2>3. \A v \in Workers : ~LaunchApply(o, v)
    BY <2>1, RolesFact DEF LaunchApply, Idle
  <2>4. \A v \in Workers : ~ApplyAnswered(o, v) /\ ~NoteError(o, v)
    <3>1. ASSUME NEW v \in Workers, NEW x, call' = [call EXCEPT ![o][v] = x], o # b \/ v # w
          PROVE  call'[b][w] = call[b][w]
      BY <1>0, <3>1, RolesFact
    <3>2. ASSUME NEW v \in Workers, ApplyAnswered(o, v)
          PROVE  FALSE
      <4>1. \E x : call' = [call EXCEPT ![o][v] = x]
        BY <3>2, Zenon DEF ApplyAnswered
      <4>2. call[o][v] # Idle
        BY <3>2 DEF ApplyAnswered, Answered, Idle
      <4>. QED
        BY <3>1, <4>1, <4>2
    <3>3. ASSUME NEW v \in Workers, NoteError(o, v)
          PROVE  FALSE
      <4>1. call' = [call EXCEPT ![o][v] = Idle] /\ call[o][v] # Idle
        BY <3>3 DEF NoteError, Idle
      <4>. QED
        BY <3>1, <4>1
    <3>. QED
      BY <3>2, <3>3
  <2>5. ~CacheRefreshed(o) /\ ~TimerFires(o)
    BY DEF CacheRefreshed, TimerFires
  <2>6. ~JoinRefused(o)
    BY <2>1, RolesFact DEF JoinRefused
  <2>7. ~ApplyAfterDelay(o)
    <3>1. CASE o = b
      BY <1>1, <3>1
    <3>2. CASE o # b
      <4>1. ApplyAfterDelay(o) =>
              call' = call \/ \E f, x : call' = [call EXCEPT ![o][f] = x]
        BY Zenon DEF ApplyAfterDelay
      <4>. QED
        BY <1>0, <3>2, <4>1
    <3>. QED
      BY <3>1, <3>2
  <2>8. ASSUME NEW r \in Roles \ Workers, NEW x, call' = [call EXCEPT ![o][r] = x]
        PROVE  FALSE
    BY <1>0, <2>8
  <2>9. ~Join(o) /\ ~JoinDone(o) /\ ~CloseRestores(o) /\ ~CloseAnswered(o)
        /\ ~UndeafenSpeaker(o) /\ ~LeaveVoice(o) /\ ~LeavesTooLate(o)
    <3>1. {"join", "close", "undo"} \subseteq Roles \ Workers
      BY RolesFact
    <3>2. Join(o) => \E x : call' = [call EXCEPT ![o]["join"] = x]
      BY Zenon DEF Join
    <3>3. JoinDone(o) => \E x : call' = [call EXCEPT ![o]["join"] = x]
      BY Zenon DEF JoinDone
    <3>4. CloseRestores(o) \/ CloseAnswered(o) => \E x : call' = [call EXCEPT ![o]["close"] = x]
      BY Zenon DEF CloseRestores, CloseAnswered
    <3>5. UndeafenSpeaker(o) \/ LeaveVoice(o) \/ LeavesTooLate(o) =>
            \E x : call' = [call EXCEPT ![o]["undo"] = x]
      BY Zenon DEF UndeafenSpeaker, LeaveVoice, LeavesTooLate
    <3>. QED
      BY <2>8, <3>1, <3>2, <3>3, <3>4, <3>5
  <2>. QED
    BY <1>1, <2>2, <2>3, <2>4, <2>5, <2>6, <2>7, <2>9, Zenon DEF BotStep
<1>2. ~(Revoke \/ Close \/ CloseWaited \/ CloseTimedOut \/ CloseReturns \/ UNCHANGED vars)
  <2>1. UNCHANGED call => call'[b][w] = call[b][w]
    OBVIOUS
  <2>2. /\ Revoke => UNCHANGED call
        /\ Close => UNCHANGED call
        /\ CloseWaited => UNCHANGED call
        /\ CloseTimedOut => UNCHANGED call
        /\ CloseReturns => UNCHANGED call
        /\ UNCHANGED vars => UNCHANGED call
    BY Zenon DEF Revoke, Close, CloseWaited, CloseTimedOut, CloseReturns, Snapshot, vars
  <2>. QED
    BY <2>1, <2>2, Zenon
<1>. QED
  BY <1>1, <1>2, Zenon DEF Next

\* RetriesArePaced of one step.
LEMMA StepPaced ==
  ASSUME DeafInd, [Next]_vars, NEW b \in Bots, mem[b].rejected, mem'[b].want = mem[b].want,
         \A w \in Workers : call[b][w] = Idle, \E w \in Workers : call'[b][w] # Idle
  PROVE  mem[b].timer = "fired" \/ mem[b].late > 0
<1>1. Observe \/ ApplyAfterDelay(b)
  BY OnlyReportsAndTimersStart, Zenon
<1>2. ~Observe
  BY ObservePaced, Zenon
<1>. QED
  BY <1>1, <1>2, Zenon DEF ApplyAfterDelay

\* A change that Discord refused is asked for again only by a timer as long as the
\* router wants the same, whatever reports arrive in between.
THEOREM RefusalsAreNotHammered == Spec => RetriesArePaced
<1>1. DeafInd /\ [Next]_vars =>
        [\A b \in Bots :
           /\ mem[b].rejected /\ mem'[b].want = mem[b].want
           /\ \A w \in Workers : call[b][w] = Idle
           /\ \E w \in Workers : call'[b][w] # Idle
           => mem[b].timer = "fired" \/ mem[b].late > 0]_vars
  BY StepPaced
<1>. QED
  BY <1>1, DeafIndInv, PTL DEF Spec, RetriesArePaced
=============================================================================
