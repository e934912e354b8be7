-------------------------- MODULE ReconnectProofs --------------------------
(***************************************************************************)
(* That one goroutine at a time repairs a connection, that rejoins for a   *)
(* stalled encryptor are spaced and, where what the code does not wait for *)
(* does not happen, that nothing outlives a connection or a stop and that  *)
(* a repair leaves a raid that is heard.  For any numbers of goroutines,   *)
(* connections, raids, troubles and failures.                              *)
(***************************************************************************)
EXTENDS Reconnect, TLAPS

\* How far apart the next rejoin for a stall will be from the last.
SpacedInv ==
    /\ backoff.left + since >= Spacing(streak)
    /\ streak # 0 => backoff.delay >= Least(2 * BackoffMin, BackoffMax)

\* A connection wired for raid r.
WiredFor(r) == [sender |-> r, receiver |-> r, watch |-> TRUE]

Heard ==
    /\ conn \in Conns /\ place = "bound" /\ health \in {"good", "stalled"}
    /\ held[conn] = WiredFor(session)

\* A raid starts when nothing else is going on, and wires step by step.
StartInv ==
    starter.at # "idle" =>
        /\ session = 0 /\ stopper = "idle" /\ ~Repairing /\ news = 0 /\ own = NoMove
        /\ raids # 0 /\ conn \in Conns /\ conn = starter.conn /\ place = "bound" /\ health = "good"
        /\ starter.at # "wire" => held[conn] = WiredFor(raids)
        /\ starter.at = "commit" => applier = raids

SessionInv ==
    /\ stopper # "idle" => session = 0
    /\ session # 0 => applier = session

\* A repair waits until the speaker has heard of its move.
OwnInv ==
    own # NoMove =>
        /\ place # "bound" /\ conn \in {own.conn, NoConn}
        /\ \A w \in Workers : worker[w].at \in {"off", "try", "check", "drain", "unlock"}

\* A goroutine that re-applies has the pair to itself.
ReapplyInv ==
    \A w \in Workers : session # 0 /\ worker[w].at \in {"tryApply", "checkApply"} =>
        /\ \A v \in Workers : v # w => worker[v].at = "off"
        /\ news = 0 /\ own = NoMove
        /\ conn \in Conns /\ conn = worker[w].conn /\ health = "orphaned"
        /\ ~gaveUp => place = "bound" /\ held[conn] = WiredFor(session)

\* A repair wires the connection the bot has.
OnItsConn ==
    \A w \in Workers : session # 0 /\ worker[w].at \in {"load", "provider", "receiver", "watch"} =>
        conn \in Conns /\ conn = worker[w].conn

\* What a repair has brought about when it is where it is.
Progress(w) ==
    /\ worker[w].at \in {"load", "provider", "receiver", "watch"} =>
          place = "bound" /\ health \in {"good", "orphaned"}
    /\ worker[w].at \in {"provider", "receiver", "watch"} => worker[w].raid = session
    /\ worker[w].at \in {"receiver", "watch"} => held[conn].sender = session
    /\ worker[w].at = "watch" => held[conn].receiver = session /\ health = "good"
    /\ worker[w].at = "unlock" => Heard

ProgressInv == session # 0 /\ ~gaveUp => \A w \in Workers : Progress(w)

\* When no repair is under way, there is no need for one, or one will come.
DueInv ==
    session # 0 /\ ~gaveUp /\ ~slot =>
        Heard \/ news > 0 \/ \E w \in Workers : worker[w].at \in {"try", "tryApply"}

UnhurtInv ==
    /\ StartInv /\ SessionInv /\ OwnInv /\ ReapplyInv
    /\ OnItsConn /\ ProgressInv /\ DueInv

\* What is left of a connection, and of a raid.
LeftoverInv ==
    /\ \A c \in Conns : c = conn \/ held[c] = Nothing
    /\ conn = NoConn => place = "out"
    /\ own.what = "out" => place = "out"

StoppedInv ==
    /\ \A w \in Workers : worker[w].at \in PastTheCheck => session # 0
    /\ stopper = "clear" => conn = NoConn
    /\ session = 0 /\ starter.at = "idle" /\ stopper = "idle" => conn = NoConn /\ applier = 0

CalmInv == LeftoverInv /\ StoppedInv

RepairInv ==
    /\ TypeOK /\ OneRepairAtATime
    /\ Unhurt => UnhurtInv
    /\ Calm => CalmInv

-----------------------------------------------------------------------------
(***************************************************************************)
(* Types.                                                                  *)
(***************************************************************************)

\* The fields of TypeOK that repairs touch.
WorkerType == [at : Stages, conn : AnyConn, raid : 0..raids]
HeldType == [sender : 0..raids, receiver : 0..raids, watch : BOOLEAN]

LEMMA Constants ==
  /\ MaxRaids \in Nat /\ MaxNews \in Nat /\ NoConn \notin Conns
  /\ BackoffMin \in Nat \ {0} /\ BackoffMax \in Nat /\ BackoffMin <= BackoffMax
BY BoundAssumption, ConnAssumption, BackoffAssumption

LEMMA QuietType == Quiet \in Backoffs
BY Constants DEF Quiet, Backoffs

LEMMA BackoffSteps ==
  ASSUME NEW b \in Backoffs
  PROVE  Reported(b) \in Backoffs /\ Later(b) \in Backoffs
<1>1. b.ago \in 0 .. BackoffMax /\ b.left \in 0 .. BackoffMax /\ b.delay \in BackoffMin .. BackoffMax
  BY DEF Backoffs
<1>2. Reported(b) \in Backoffs
  <2>1. CASE Due(b)
    BY <1>1, <2>1, Constants DEF Reported, Backoffs, Least
  <2>2. CASE ~Due(b)
    BY <1>1, <2>2, Constants DEF Reported, Backoffs
  <2> QED
    BY <2>1, <2>2
<1>3. Later(b) \in Backoffs
  <2>1. CASE b.ago + 1 >= BackoffMax
    BY <2>1, QuietType DEF Later
  <2>2. CASE ~(b.ago + 1 >= BackoffMax)
    <3>1. Later(b) = [b EXCEPT !.ago = @ + 1, !.left = IF @ = 0 THEN 0 ELSE @ - 1]
      BY <2>2 DEF Later
    <3>2. b.ago + 1 \in 0 .. BackoffMax /\ (IF b.left = 0 THEN 0 ELSE b.left - 1) \in 0 .. BackoffMax
      BY <1>1, <2>2, Constants
    <3> QED
      BY <3>1, <3>2 DEF Backoffs
  <2> QED
    BY <2>1, <2>2
<1> QED
  BY <1>2, <1>3

LEMMA NothingTypes ==
  ASSUME TypeOK
  PROVE  /\ Nothing \in HeldType /\ WiredFor(raids) \in HeldType /\ Off \in WorkerType
         /\ NoMove \in [what : {"none", "out", "other"}, conn : AnyConn]
<1>1. raids \in Nat /\ 0 \in 0 .. raids
  BY Constants DEF TypeOK
<1>2. WiredFor(raids) \in HeldType
  BY <1>1 DEF WiredFor, HeldType
<1> QED
  BY <1>1, <1>2 DEF Nothing, Off, NoMove, HeldType, WorkerType, Stages, AnyConn

\* What the calls on a connection leave.
LEMMA RemoveTypes ==
  ASSUME TypeOK, RemoveConn
  PROVE  /\ conn' = NoConn /\ health' = "good"
         /\ held' \in [Conns -> HeldType]
         /\ \A c \in Conns : held'[c] = IF c = conn THEN Nothing ELSE held[c]
<1>1. held \in [Conns -> HeldType] /\ Nothing \in HeldType /\ conn \in AnyConn
  BY NothingTypes DEF TypeOK, HeldType
<1>2. CASE conn = NoConn
  BY <1>1, <1>2, Constants DEF RemoveConn
<1>3. CASE conn # NoConn
  BY <1>1, <1>3 DEF RemoveConn, Released, AnyConn
<1> QED
  BY <1>2, <1>3 DEF RemoveConn

LEMMA LeaveTypes ==
  ASSUME TypeOK, LeaveVoice, CanLeave
  PROVE  /\ RemoveConn /\ own' = own
         /\ place' = (IF conn = NoConn THEN place ELSE "out") /\ place' \in Places
         /\ news' \in 0 .. MaxNews /\ news' >= news
         /\ conn # NoConn /\ place # "out" => news' > 0
<1>1. news \in 0 .. MaxNews /\ place \in Places
  BY DEF TypeOK
<1>2. RemoveConn /\ own' = own /\ place' = IF conn = NoConn THEN place ELSE "out"
  BY DEF LeaveVoice
<1>3. news' = (IF conn # NoConn /\ place # "out" THEN news + 1 ELSE news) /\ news < MaxNews
  BY DEF LeaveVoice, CanLeave
<1> QED
  BY <1>1, <1>2, <1>3, Constants DEF Places

\* One goroutine steps: the others stay as they are.
LEMMA GoesTypes ==
  ASSUME TypeOK, NEW w \in Workers, NEW s \in Stages,
         worker' = [worker EXCEPT ![w].at = s]
  PROVE  /\ worker' \in [Workers -> WorkerType]
         /\ worker'[w] = [worker[w] EXCEPT !.at = s]
         /\ worker'[w].at = s /\ worker'[w].conn = worker[w].conn /\ worker'[w].raid = worker[w].raid
         /\ \A v \in Workers : v # w => worker'[v] = worker[v]
BY DEF TypeOK, WorkerType

LEMMA JoinsTypes ==
  ASSUME TypeOK, NEW w \in Workers, NEW c \in AnyConn,
         worker' = [worker EXCEPT ![w].at = "load", ![w].conn = c]
  PROVE  /\ worker' \in [Workers -> WorkerType]
         /\ worker'[w].at = "load" /\ worker'[w].conn = c
         /\ \A v \in Workers : v # w => worker'[v] = worker[v]
<1> DEFINE r == [worker[w] EXCEPT !.at = "load", !.conn = c]
<1>1. worker \in [Workers -> WorkerType] /\ worker[w] \in WorkerType
  BY DEF TypeOK, WorkerType
<1>2. worker' = [worker EXCEPT ![w] = r]
  BY <1>1
<1>3. r \in WorkerType
  BY <1>1 DEF WorkerType, Stages
<1>4. r.at = "load" /\ r.conn = c
  BY <1>1 DEF WorkerType
<1> HIDE DEF r
<1> QED
  BY <1>1, <1>2, <1>3, <1>4

LEMMA LoadsTypes ==
  ASSUME TypeOK, NEW w \in Workers, NEW s \in Stages, NEW a \in 0 .. raids,
         worker' = [worker EXCEPT ![w].at = s, ![w].raid = a]
  PROVE  /\ worker' \in [Workers -> WorkerType]
         /\ worker'[w].at = s /\ worker'[w].conn = worker[w].conn /\ worker'[w].raid = a
         /\ \A v \in Workers : v # w => worker'[v] = worker[v]
<1> DEFINE r == [worker[w] EXCEPT !.at = s, !.raid = a]
<1>1. worker \in [Workers -> WorkerType] /\ worker[w] \in WorkerType
  BY DEF TypeOK, WorkerType
<1>2. worker' = [worker EXCEPT ![w] = r]
  BY <1>1
<1>3. r \in WorkerType
  BY <1>1 DEF WorkerType, Stages
<1>4. r.at = s /\ r.conn = worker[w].conn /\ r.raid = a
  BY <1>1 DEF WorkerType
<1> HIDE DEF r
<1> QED
  BY <1>1, <1>2, <1>3, <1>4

LEMMA SpawnTypes ==
  ASSUME TypeOK, NEW w \in Workers, NEW s \in Stages, NEW c \in AnyConn, Spawn(w, s, c)
  PROVE  /\ worker' \in [Workers -> WorkerType]
         /\ worker[w].at = "off"
         /\ worker'[w].at = s /\ worker'[w].conn = c
         /\ \A v \in Workers : v # w => worker'[v] = worker[v]
<1>1. worker \in [Workers -> WorkerType] /\ Off \in WorkerType
  BY NothingTypes DEF TypeOK, WorkerType
<1>2. worker[w] = Off /\ worker' = [worker EXCEPT ![w] = [Off EXCEPT !.at = s, !.conn = c]]
  BY DEF Spawn
<1>3. [Off EXCEPT !.at = s, !.conn = c] \in WorkerType
  BY <1>1 DEF WorkerType
<1> QED
  BY <1>1, <1>2, <1>3 DEF Off

LEMMA EndsTypes ==
  ASSUME TypeOK, NEW w \in Workers, worker' = [worker EXCEPT ![w] = Off]
  PROVE  /\ worker' \in [Workers -> WorkerType] /\ worker'[w].at = "off"
         /\ \A v \in Workers : v # w => worker'[v] = worker[v]
BY NothingTypes DEF TypeOK, WorkerType, Off

LEMMA InitTypes == Init => TypeOK
<1> SUFFICES ASSUME Init PROVE TypeOK
  OBVIOUS
<1>1. Off \in WorkerType /\ Nothing \in HeldType
      /\ NoMove \in [what : {"none", "out", "other"}, conn : AnyConn]
  BY DEF Init, Nothing, Off, NoMove, HeldType, WorkerType, Stages, AnyConn
<1>2. worker \in [Workers -> WorkerType] /\ held \in [Conns -> HeldType] /\ own = NoMove
      /\ conn \in AnyConn
  BY <1>1 DEF Init, AnyConn
<1>3. starter \in [at : {"idle", "wire", "arm", "commit"}, conn : AnyConn]
  BY DEF Init, AnyConn
<1>4. backoff \in Backoffs /\ since \in 0 .. BackoffMax /\ streak \in 0 .. 2
  BY Constants, QuietType DEF Init
<1>5. own \in [what : {"none", "out", "other"}, conn : AnyConn]
  BY <1>1, <1>2
<1>6. /\ session = 0 /\ raids = 0 /\ applier = 0 /\ stopper = "idle" /\ slot = FALSE /\ gaveUp = FALSE
      /\ health = "good" /\ place = "out" /\ news = 0 /\ allows \in Environments
  BY DEF Init
<1>7. /\ worker \in [Workers -> [at : Stages, conn : AnyConn, raid : 0 .. raids]]
      /\ held \in [Conns -> [sender : 0 .. raids, receiver : 0 .. raids, watch : BOOLEAN]]
  BY <1>2 DEF WorkerType, HeldType
<1>8. /\ session \in 0 .. raids /\ raids \in 0 .. MaxRaids /\ applier \in 0 .. raids
      /\ news \in 0 .. MaxNews
  BY <1>6, Constants
<1>9. slot \in BOOLEAN /\ gaveUp \in BOOLEAN
  BY <1>6
<1> QED
  BY <1>2, <1>3, <1>4, <1>5, <1>6, <1>7, <1>8, <1>9 DEF TypeOK, Places

\* What a start does.
LEMMA StartTypes ==
  ASSUME TypeOK, Start
  PROVE  TypeOK'
<1>1. CASE StartJoin
  BY <1>1, Constants DEF StartJoin, JoinAs, TypeOK, AnyConn, Places, stallVars
<1>2. CASE StartWire
  <2>1. held' = [held EXCEPT ![starter.conn] = WiredFor(raids)] /\ UNCHANGED raids
    BY <1>2 DEF StartWire, WiredFor
  <2>2. held' \in [Conns -> HeldType]
    BY <2>1, NothingTypes DEF TypeOK, HeldType
  <2> QED
    BY <1>2, <2>1, <2>2 DEF StartWire, TypeOK, stallVars, HeldType
<1>3. CASE StartArm
  BY <1>3 DEF StartArm, TypeOK, stallVars, voiceVars
<1>4. CASE StartCommit
  BY <1>4 DEF StartCommit, TypeOK, stallVars, voiceVars, AnyConn
<1> QED
  BY <1>1, <1>2, <1>3, <1>4 DEF Start

LEMMA StopTypes ==
  ASSUME TypeOK, StopTake \/ StopSteps
  PROVE  TypeOK'
<1>1. CASE StopTake
  BY <1>1, Constants DEF StopTake, TypeOK, stallVars, voiceVars
<1>2. CASE StopLeave
  BY <1>2, LeaveTypes, RemoveTypes DEF StopLeave, TypeOK, stallVars, HeldType, AnyConn
<1>3. CASE StopClear
  BY <1>3, QuietType, Constants DEF StopClear, ClearGuild, TypeOK, voiceVars
<1> QED
  BY <1>1, <1>2, <1>3 DEF StopSteps

LEMMA TroubleTypes ==
  ASSUME TypeOK, Trouble
  PROVE  TypeOK'
<1>1. CASE Moved
  BY <1>1, Constants DEF Moved, TypeOK, stallVars, raidVars, Places
<1>2. CASE Disconnected
  BY <1>2, LeaveTypes, RemoveTypes DEF Disconnected, TypeOK, stallVars, raidVars, HeldType, AnyConn
<1>3. CASE Reidentified
  <2>1. worker' \in [Workers -> WorkerType]
    BY <1>3, SpawnTypes DEF Reidentified, TypeOK, WorkerType, Stages
  <2> QED
    BY <1>3, <2>1 DEF Reidentified, TypeOK, stallVars, raidVars, WorkerType
<1>4. CASE FreshGateway
  <2>1. worker' \in [Workers -> WorkerType]
    BY <1>4, SpawnTypes DEF FreshGateway, Stages, AnyConn
  <2> QED
    BY <1>4, <2>1 DEF FreshGateway, TypeOK, stallVars, raidVars, WorkerType
<1>5. CASE Stalls
  BY <1>5 DEF Stalls, TypeOK, stallVars, raidVars
<1> QED
  BY <1>1, <1>2, <1>3, <1>4, <1>5 DEF Trouble

LEMMA ListenTypes ==
  ASSUME TypeOK, OwnListens \/ HearNews
  PROVE  TypeOK'
<1>1. CASE OwnListens
  <2>1. CASE RemoveConn
    BY <1>1, <2>1, RemoveTypes, NothingTypes DEF OwnListens, TypeOK, stallVars, raidVars, HeldType, AnyConn
  <2>2. CASE ~RemoveConn
    BY <1>1, <2>2, NothingTypes DEF OwnListens, TypeOK, stallVars, raidVars
  <2> QED
    BY <2>1, <2>2
<1>2. CASE HearNews
  <2>1. worker' \in [Workers -> WorkerType]
    BY <1>2, SpawnTypes DEF HearNews, Stages, AnyConn, TypeOK, WorkerType
  <2> QED
    BY <1>2, <2>1, Constants DEF HearNews, TypeOK, stallVars, raidVars, WorkerType
<1> QED
  BY <1>1, <1>2

LEMMA StallTypes ==
  ASSUME TypeOK, StallReport \/ Tick
  PROVE  TypeOK'
<1>1. CASE StallReport
  <2>1. worker' \in [Workers -> WorkerType]
    BY <1>1, SpawnTypes DEF StallReport, Stages, AnyConn, TypeOK, WorkerType
  <2>2. backoff' \in Backoffs /\ since' \in 0 .. BackoffMax /\ streak' \in 0 .. 2
    BY <1>1, BackoffSteps, Constants DEF StallReport, TypeOK, Least
  <2> QED
    BY <1>1, <2>1, <2>2 DEF StallReport, TypeOK, voiceVars, raidVars, WorkerType
<1>2. CASE Tick
  <2>1. backoff' \in Backoffs /\ since' \in 0 .. BackoffMax /\ streak' \in 0 .. 2
    BY <1>2, BackoffSteps, Constants DEF Tick, TypeOK, Least
  <2> QED
    BY <1>2, <2>1 DEF Tick, TypeOK, voiceVars, raidVars
<1> QED
  BY <1>1, <1>2

LEMMA RepairTypes ==
  ASSUME TypeOK, NEW w \in Workers, Repair(w)
  PROVE  TypeOK'
<1> USE DEF Local, stallVars, raidVars
<1>0. TypeOK /\ worker \in [Workers -> WorkerType] /\ held \in [Conns -> HeldType]
  BY DEF TypeOK, WorkerType, HeldType
<1>1. CASE TryLock(w)
  <2>1. worker' \in [Workers -> WorkerType]
    BY <1>1, GoesTypes, EndsTypes DEF TryLock, Goes, Stages
  <2> QED
    BY <1>1, <2>1 DEF TryLock, TypeOK, voiceVars, WorkerType
<1>2. CASE Check(w) \/ CheckFindsNoVoice(w) \/ CheckApply(w) \/ Drain(w) \/ Recheck(w) \/ Backoff(w)
  <2>1. worker' \in [Workers -> WorkerType]
    BY <1>2, GoesTypes DEF Check, CheckFindsNoVoice, CheckApply, Drain, Recheck, Backoff, Goes, Stages
  <2> QED
    BY <1>2, <2>1 DEF Check, CheckFindsNoVoice, CheckApply, Drain, Recheck, Backoff, TypeOK, voiceVars, WorkerType
<1>3. CASE Leave(w)
  <2>1. worker' \in [Workers -> WorkerType]
    BY <1>3, GoesTypes DEF Leave, Goes, Stages
  <2> QED
    BY <1>3, <2>1, LeaveTypes, RemoveTypes DEF Leave, TypeOK, WorkerType, HeldType, AnyConn
<1>4. CASE Join(w)
  <2>1. worker' \in [Workers -> WorkerType]
    <3>1. PICK c \in Conns : worker' = [worker EXCEPT ![w].at = "load", ![w].conn = c]
      BY <1>4 DEF Join
    <3> QED
      BY <1>0, <3>1, JoinsTypes DEF Stages, AnyConn
  <2> QED
    BY <1>4, <2>1 DEF Join, JoinAs, TypeOK, WorkerType, AnyConn, Places
<1>5. CASE JoinError(w)
  <2>1. worker' \in [Workers -> WorkerType]
    BY <1>5, GoesTypes DEF JoinError, Goes, Stages
  <2>2. RemoveConn /\ news' \in 0 .. MaxNews
    BY <1>5, Constants DEF JoinError, JoinFails, CanLeave, TypeOK
  <2> QED
    BY <1>5, <2>1, <2>2, RemoveTypes DEF JoinError, JoinFails, TypeOK, WorkerType, HeldType, AnyConn, Places
<1>6. CASE LoadApplier(w)
  <2>1. worker' \in [Workers -> WorkerType]
    <3>1. worker' = [worker EXCEPT ![w].at = IF applier = 0 THEN "unlock" ELSE "provider",
                                   ![w].raid = applier]
      BY <1>6 DEF LoadApplier
    <3> QED
      BY <1>0, <3>1, LoadsTypes DEF Stages, TypeOK
  <2> QED
    BY <1>6, <2>1 DEF LoadApplier, TypeOK, WorkerType, voiceVars
<1>7. CASE ApplyProvider(w) \/ ApplyReceiver(w) \/ ApplyWatch(w)
  <2>1. worker' \in [Workers -> WorkerType]
    BY <1>7, GoesTypes DEF ApplyProvider, ApplyReceiver, ApplyWatch, Goes, Stages
  <2>2. held' \in [Conns -> HeldType]
    <3>1. CASE worker[w].conn \in Conns
      <4>1. worker[w].raid \in 0 .. raids
        BY <1>0 DEF WorkerType
      <4>2. PICK h \in HeldType : held' = [held EXCEPT ![worker[w].conn] = h]
        BY <1>0, <1>7, <3>1, <4>1 DEF ApplyProvider, ApplyReceiver, ApplyWatch, Holds, HeldType
      <4> QED
        BY <1>0, <4>2
    <3>2. CASE worker[w].conn \notin Conns
      BY <1>0, <1>7, <3>2 DEF ApplyProvider, ApplyReceiver, ApplyWatch, Holds
    <3> QED
      BY <3>1, <3>2
  <2> QED
    BY <1>7, <2>1, <2>2 DEF ApplyProvider, ApplyReceiver, ApplyWatch, TypeOK, WorkerType, HeldType
<1>8. CASE Unlock(w)
  <2>1. worker' \in [Workers -> WorkerType]
    BY <1>8, EndsTypes DEF Unlock
  <2> QED
    BY <1>8, <2>1 DEF Unlock, TypeOK, voiceVars, WorkerType
<1> QED
  BY <1>1, <1>2, <1>3, <1>4, <1>5, <1>6, <1>7, <1>8 DEF Repair

LEMMA TypesStep ==
  ASSUME TypeOK, [Next]_vars
  PROVE  TypeOK'
<1>1. CASE UNCHANGED vars
  BY <1>1 DEF TypeOK, vars, raidVars, voiceVars, stallVars
<1>2. CASE Next
  BY <1>2, StartTypes, StopTypes, TroubleTypes, ListenTypes, StallTypes, RepairTypes DEF Next
<1> QED
  BY <1>1, <1>2

-----------------------------------------------------------------------------
(***************************************************************************)
(* One repair at a time.                                                   *)
(***************************************************************************)

\* Where the goroutine goes, and that the others stay.
LEMMA RepairMoves ==
  ASSUME TypeOK, NEW w \in Workers, Repair(w)
  PROVE  /\ worker[w].at # "off"
         /\ \A v \in Workers : v # w => worker'[v] = worker[v]
         /\ \/ TryLock(w) /\ slot /\ ~Busy(w) /\ worker'[w].at = "off" /\ slot' = slot
            \/ /\ TryLock(w) /\ ~slot /\ ~Busy(w) /\ slot' = TRUE
               /\ worker'[w].at = IF worker[w].at = "try" THEN "check" ELSE "checkApply"
               /\ worker'[w].conn = worker[w].conn
            \/ Unlock(w) /\ Busy(w) /\ slot' = FALSE /\ worker'[w].at = "off"
            \/ /\ ~TryLock(w) /\ Busy(w) /\ slot' = slot
               /\ worker'[w].at \in Stages \ {"off", "try", "tryApply", "check", "checkApply"}
<1> USE DEF Busy, Stages
<1>1. CASE TryLock(w)
  BY <1>1, GoesTypes, EndsTypes DEF TryLock, Goes, TypeOK
<1>2. CASE Check(w) \/ CheckFindsNoVoice(w) \/ CheckApply(w) \/ Drain(w) \/ Recheck(w) \/ Backoff(w)
  BY <1>2, GoesTypes DEF Check, CheckFindsNoVoice, CheckApply, Drain, Recheck, Backoff, Goes, TryLock
<1>3. CASE Leave(w) \/ JoinError(w) \/ ApplyProvider(w) \/ ApplyReceiver(w) \/ ApplyWatch(w)
  BY <1>3, GoesTypes DEF Leave, JoinError, ApplyProvider, ApplyReceiver, ApplyWatch, Goes, TryLock
<1>4. CASE Join(w)
  BY <1>4, JoinsTypes DEF Join, TryLock, AnyConn
<1>5. CASE LoadApplier(w)
  BY <1>5, LoadsTypes DEF LoadApplier, TryLock, TypeOK
<1>6. CASE Unlock(w)
  BY <1>6, EndsTypes DEF Unlock
<1> QED
  BY <1>1, <1>2, <1>3, <1>4, <1>5, <1>6 DEF Repair

LEMMA MarkStep ==
  ASSUME TypeOK, OneRepairAtATime, NEW w \in Workers,
         \A v \in Workers : v # w => worker'[v] = worker[v],
         \/ slot' = slot /\ (Busy(w)' <=> Busy(w))
         \/ ~slot /\ slot' = TRUE /\ Busy(w)'
         \/ Busy(w) /\ slot' = FALSE /\ ~Busy(w)'
  PROVE  OneRepairAtATime'
<1>1. \A v \in Workers : v # w => (Busy(v)' <=> Busy(v))
  BY DEF Busy
<1>2. slot \in BOOLEAN /\ (slot <=> \E v \in Workers : Busy(v))
  BY DEF TypeOK, OneRepairAtATime
<1>3. \A u, v \in Workers : Busy(u) /\ Busy(v) => u = v
  BY DEF OneRepairAtATime
<1>4. slot' \in BOOLEAN /\ (slot' <=> \E v \in Workers : Busy(v)')
  <2>1. CASE slot' = slot /\ (Busy(w)' <=> Busy(w))
    BY <1>1, <1>2, <2>1
  <2>2. CASE ~slot /\ slot' = TRUE /\ Busy(w)'
    BY <2>2
  <2>3. CASE Busy(w) /\ slot' = FALSE /\ ~Busy(w)'
    BY <1>1, <1>3, <2>3
  <2> QED
    BY <2>1, <2>2, <2>3
<1>5. \A u, v \in Workers : Busy(u)' /\ Busy(v)' => u = v
  BY <1>1, <1>2, <1>3
<1> QED
  BY <1>4, <1>5 DEF OneRepairAtATime

\* A goroutine more is not past the mark yet.
LEMMA MarkSpawn ==
  ASSUME TypeOK, OneRepairAtATime, NEW w \in Workers, NEW s \in {"try", "tryApply"},
         NEW c \in AnyConn, Spawn(w, s, c), slot' = slot
  PROVE  OneRepairAtATime'
<1>1. worker[w].at = "off" /\ worker'[w].at = s /\ \A v \in Workers : v # w => worker'[v] = worker[v]
  BY SpawnTypes DEF Stages
<1> QED
  BY <1>1, MarkStep DEF Busy

LEMMA MarkHolds ==
  ASSUME TypeOK, OneRepairAtATime, [Next]_vars
  PROVE  OneRepairAtATime'
<1>1. ASSUME UNCHANGED <<slot, worker>> PROVE OneRepairAtATime'
  BY <1>1 DEF OneRepairAtATime, Busy
<1>2. CASE Start \/ StopTake \/ StopSteps \/ Moved \/ Disconnected \/ Stalls \/ OwnListens \/ Tick
  BY <1>1, <1>2 DEF Start, StartJoin, StartWire, StartArm, StartCommit, StopTake, StopSteps, StopLeave,
                    StopClear, Moved, Disconnected, Stalls, OwnListens, Tick
<1>3. CASE Reidentified
  BY <1>1, <1>3, MarkSpawn DEF Reidentified, TypeOK
<1>4. CASE FreshGateway \/ HearNews \/ StallReport
  BY <1>1, <1>4, MarkSpawn DEF FreshGateway, HearNews, StallReport, AnyConn
<1>5. ASSUME NEW w \in Workers, Repair(w) PROVE OneRepairAtATime'
  <2>1. /\ \A v \in Workers : v # w => worker'[v] = worker[v]
        /\ \/ slot' = slot /\ (Busy(w)' <=> Busy(w))
           \/ ~slot /\ slot' = TRUE /\ Busy(w)'
           \/ Busy(w) /\ slot' = FALSE /\ ~Busy(w)'
    BY <1>5, RepairMoves DEF Busy
  <2> QED
    BY <2>1, MarkStep
<1>6. CASE UNCHANGED vars
  BY <1>1, <1>6 DEF vars
<1> QED
  BY <1>2, <1>3, <1>4, <1>5, <1>6 DEF Next, Trouble

-----------------------------------------------------------------------------
(***************************************************************************)
(* Rejoins for a stall.                                                    *)
(***************************************************************************)

\* Only reports, time and a stop touch the backoff.
LEMMA BackoffAlone ==
  ASSUME [Next]_vars
  PROVE  UNCHANGED stallVars \/ StopClear \/ StallReport \/ Tick
<1>1. ASSUME NEW w \in Workers, Repair(w) PROVE UNCHANGED stallVars
  BY <1>1 DEF Repair, TryLock, Check, CheckFindsNoVoice, Drain, Leave, Recheck, Join, JoinError, Backoff, LoadApplier,
              CheckApply, ApplyProvider, ApplyReceiver, ApplyWatch, Unlock, Local
<1>2. CASE Start \/ StopTake \/ StopLeave
  BY <1>2 DEF Start, StartJoin, StartWire, StartArm, StartCommit, StopTake, StopLeave
<1>3. CASE Trouble \/ OwnListens \/ HearNews
  BY <1>3 DEF Trouble, Moved, Disconnected, Reidentified, FreshGateway, Stalls, OwnListens, HearNews
<1>4. CASE UNCHANGED vars
  BY <1>4 DEF vars
<1> QED
  BY <1>1, <1>2, <1>3, <1>4 DEF Next, StopSteps

LEMMA SpacingBounds ==
  ASSUME NEW n \in 0 .. 2
  PROVE  /\ Spacing(n) \in 0 .. BackoffMax
         /\ Spacing(0) = 0 /\ Spacing(1) = BackoffMin
         /\ Spacing(2) = Least(2 * BackoffMin, BackoffMax)
BY Constants DEF Spacing, Least

LEMMA SpacedStep ==
  ASSUME TypeOK, SpacedInv, [Next]_vars
  PROVE  SpacedInv'
<1> DEFINE l == backoff.left
           d == backoff.delay
           g == backoff.ago
<1>1. /\ backoff \in Backoffs /\ since \in 0 .. BackoffMax /\ streak \in 0 .. 2
      /\ l \in 0 .. BackoffMax /\ d \in BackoffMin .. BackoffMax /\ g \in 0 .. BackoffMax
  BY DEF TypeOK, Backoffs
<1>2. l + since >= Spacing(streak) /\ (streak # 0 => d >= Least(2 * BackoffMin, BackoffMax))
  BY DEF SpacedInv
<1>3. CASE UNCHANGED stallVars
  BY <1>3 DEF stallVars, SpacedInv
<1>4. ASSUME backoff' = Quiet, since' \in 0 .. BackoffMax, streak' = 0 PROVE SpacedInv'
  BY <1>4, SpacingBounds, Constants DEF SpacedInv, Quiet
<1>5. CASE StopClear
  BY <1>4, <1>5, Constants DEF StopClear, ClearGuild
<1>6. CASE StallReport
  <2>1. CASE Due(backoff)
    <3>1. backoff'.left = d /\ backoff'.delay = Least(2 * d, BackoffMax)
      BY <1>6, <2>1 DEF StallReport, Reported
    <3>2. since' = 0 /\ streak' = Least(streak + 1, 2)
      BY <1>6, <2>1 DEF StallReport
    <3>3. Least(2 * d, BackoffMax) >= Least(2 * BackoffMin, BackoffMax)
      BY <1>1, Constants DEF Least
    <3>4. CASE streak = 0
      <4>1. streak' = 1
        BY <3>2, <3>4 DEF Least
      <4> QED
        BY <1>1, <3>1, <3>2, <3>3, <4>1, SpacingBounds, Constants DEF SpacedInv
    <3>5. CASE streak # 0
      <4>1. streak' = 2
        BY <1>1, <3>2, <3>5 DEF Least
      <4> QED
        BY <1>1, <1>2, <3>1, <3>2, <3>3, <3>5, <4>1, SpacingBounds, Constants DEF SpacedInv
    <3> QED
      BY <3>4, <3>5
  <2>2. CASE ~Due(backoff)
    <3>1. backoff'.left = l /\ backoff'.delay = d
      BY <1>1, <1>6, <2>2 DEF StallReport, Reported, Backoffs
    <3>2. UNCHANGED <<since, streak>>
      BY <1>6, <2>2 DEF StallReport
    <3> QED
      BY <1>2, <3>1, <3>2 DEF SpacedInv
  <2> QED
    BY <2>1, <2>2
<1>7. CASE Tick
  <2>1. since' = Least(since + 1, BackoffMax)
    BY <1>7 DEF Tick
  <2>2. CASE Later(backoff) = Quiet
    BY <1>1, <1>4, <1>7, <2>1, <2>2, Constants DEF Tick, Least
  <2>3. CASE Later(backoff) # Quiet
    <3>1. backoff'.delay = d /\ backoff'.left = IF l = 0 THEN 0 ELSE l - 1
      <4>1. backoff' = [backoff EXCEPT !.ago = @ + 1, !.left = IF @ = 0 THEN 0 ELSE @ - 1]
        BY <1>7, <2>3 DEF Tick, Later
      <4> QED
        BY <1>1, <4>1 DEF Backoffs
    <3>2. streak' = streak
      BY <1>7, <2>3 DEF Tick
    <3>3. backoff'.left + since' >= Spacing(streak)
      <4>1. CASE since + 1 < BackoffMax
        BY <1>1, <1>2, <2>1, <3>1, <4>1, SpacingBounds, Constants DEF Least
      <4>2. CASE ~(since + 1 < BackoffMax)
        BY <1>1, <2>1, <3>1, <4>2, SpacingBounds, Constants DEF Least
      <4> QED
        BY <4>1, <4>2
    <3> QED
      BY <1>2, <3>1, <3>2, <3>3 DEF SpacedInv
  <2> QED
    BY <2>2, <2>3
<1> QED
  BY <1>3, <1>5, <1>6, <1>7, BackoffAlone

\* However many reports there are, and whatever else goes on, the first stall
\* rejoins at once, the next rejoin comes BackoffMin later at the earliest and the
\* further ones twice as long, up to BackoffMax (stallBackoff.due).
THEOREM RejoinsAreSpaced == Spec => StallRejoinsAreSpaced
<1>1. Init => TypeOK /\ SpacedInv
  BY InitTypes, SpacingBounds, Constants DEF Init, SpacedInv, Quiet
<1>2. TypeOK /\ SpacedInv /\ [Next]_vars => (TypeOK /\ SpacedInv)'
  BY TypesStep, SpacedStep
<1>3. TypeOK /\ SpacedInv => [StallReport /\ worker' # worker => since >= Spacing(streak)]_vars
  <2> SUFFICES ASSUME TypeOK, SpacedInv, StallReport, worker' # worker PROVE since >= Spacing(streak)
    OBVIOUS
  <2>1. backoff.left = 0
    BY DEF StallReport, Due
  <2> QED
    BY <2>1, SpacingBounds, Constants DEF SpacedInv, TypeOK
<1> QED
  BY <1>1, <1>2, <1>3, PTL DEF Spec, StallRejoinsAreSpaced

-----------------------------------------------------------------------------
(***************************************************************************)
(* Where nothing is hurt: what may happen when.                            *)
(***************************************************************************)
LEMMA UnhurtMeans ==
  ASSUME Unhurt
  PROVE  "StartInRepair" \notin allows /\ "TroubleInRepair" \notin allows /\ "SlowListener" \notin allows
BY DEF Unhurt

LEMMA CalmMeans ==
  ASSUME Calm
  PROVE  Unhurt /\ "StopAtJoin" \notin allows
BY DEF Calm, Unhurt

\* Raids change by their start and their stop alone.
LEMMA RaidAlone ==
  ASSUME [Next]_vars
  PROVE  /\ allows' = allows
         /\ UNCHANGED <<session, raids, starter, stopper, applier>> \/ Start \/ StopTake \/ StopSteps
<1>1. ASSUME NEW w \in Workers, Repair(w)
      PROVE  UNCHANGED <<allows, session, raids, starter, stopper, applier>>
  BY <1>1 DEF Repair, TryLock, Check, CheckFindsNoVoice, Drain, Leave, Recheck, Join, JoinError, Backoff, LoadApplier,
              CheckApply, ApplyProvider, ApplyReceiver, ApplyWatch, Unlock, Local, raidVars
<1>2. ASSUME Trouble \/ OwnListens \/ HearNews \/ StallReport \/ Tick
      PROVE  UNCHANGED <<allows, session, raids, starter, stopper, applier>>
  BY <1>2 DEF Trouble, Moved, Disconnected, Reidentified, FreshGateway, Stalls, OwnListens, HearNews,
              StallReport, Tick, raidVars
<1>3. ASSUME Start \/ StopTake \/ StopSteps PROVE allows' = allows
  BY <1>3 DEF Start, StartJoin, StartWire, StartArm, StartCommit, StopTake, StopSteps, StopLeave, StopClear
<1>4. CASE UNCHANGED vars
  BY <1>4 DEF vars, raidVars
<1> QED
  BY <1>1, <1>2, <1>3, <1>4 DEF Next

\* Trouble comes to a raid that nobody repairs.
LEMMA TroubleNeeds ==
  ASSUME Unhurt, Trouble
  PROVE  /\ session # 0 /\ news = 0 /\ own = NoMove /\ health = "good" /\ place = "bound"
         /\ \A w \in Workers : worker[w].at = "off"
BY UnhurtMeans DEF Trouble, Moved, Disconnected, Reidentified, FreshGateway, Stalls, MayTrouble, Repairing

\* A start is alone.
LEMMA StartNeeds ==
  ASSUME Unhurt, StartInv, Start
  PROVE  /\ session = 0 /\ stopper = "idle" /\ news = 0 /\ own = NoMove
         /\ \A w \in Workers : worker[w].at = "off"
         /\ UNCHANGED <<worker, slot, news, own, stopper, gaveUp>>
         /\ session' = 0 \/ StartCommit
<1>1. CASE StartJoin
  BY <1>1, UnhurtMeans DEF StartJoin, Repairing, JoinAs
<1>2. CASE StartWire \/ StartArm \/ StartCommit
  BY <1>2 DEF StartWire, StartArm, StartCommit, StartInv, Repairing, voiceVars
<1> QED
  BY <1>1, <1>2 DEF Start

LEMMA StopNeeds ==
  ASSUME SessionInv, StopTake \/ StopSteps
  PROVE  session' = 0 /\ UNCHANGED <<worker, slot, starter, raids, gaveUp, own>>
BY DEF SessionInv, StopTake, StopSteps, StopLeave, StopClear, LeaveVoice, voiceVars

\* Without its own step, a start sees time pass.
LEMMA StartMeets ==
  ASSUME Unhurt, StartInv, starter.at # "idle", Next
  PROVE  StartWire \/ StartArm \/ StartCommit \/ Tick
<1>0. session = 0 /\ stopper = "idle" /\ ~Repairing /\ news = 0 /\ own = NoMove /\ health = "good"
  BY DEF StartInv
<1>1. ~StartJoin /\ ~StopTake /\ ~StopSteps /\ ~Trouble /\ ~OwnListens /\ ~HearNews /\ ~StallReport
  BY <1>0, TroubleNeeds DEF StartJoin, StopTake, StopSteps, StopLeave, StopClear, OwnListens, HearNews,
                            StallReport
<1>2. \A w \in Workers : ~Repair(w)
  BY <1>0 DEF Repairing, Repair, TryLock, Check, CheckFindsNoVoice, Drain, Leave, Recheck, Join, JoinError, Backoff,
              LoadApplier, CheckApply, ApplyProvider, ApplyReceiver, ApplyWatch, Unlock, Goes
<1> QED
  BY <1>1, <1>2 DEF Next, Start

LEMMA StartStep ==
  ASSUME RepairInv, Unhurt, [Next]_vars
  PROVE  StartInv'
<1>0. TypeOK /\ StartInv
  BY DEF RepairInv, UnhurtInv
<1>1. CASE StartJoin
  <2>1. /\ session' = 0 /\ UNCHANGED <<stopper, worker, news, own>> /\ stopper = "idle" /\ news = 0
        /\ own = NoMove /\ ~Repairing
    BY <1>1, UnhurtMeans DEF StartJoin, JoinAs
  <2>2. raids' # 0
    BY <1>0, <1>1, Constants DEF StartJoin, TypeOK
  <2>3. PICK c \in Conns : JoinAs(c) /\ starter' = [at |-> "wire", conn |-> c]
    BY <1>1 DEF StartJoin
  <2> QED
    BY <2>1, <2>2, <2>3 DEF StartInv, JoinAs, Repairing
<1>2. CASE StartWire
  <2>1. /\ UNCHANGED <<session, raids, stopper, worker, conn, health, place, news, own, applier>>
        /\ starter.at = "wire" /\ starter' = [starter EXCEPT !.at = "arm"]
        /\ held' = [held EXCEPT ![starter.conn] = WiredFor(raids)]
    BY <1>2 DEF StartWire, WiredFor
  <2>2. starter'.at = "arm" /\ starter'.conn = starter.conn
    BY <1>0, <2>1 DEF TypeOK
  <2>3. held'[conn] = WiredFor(raids)
    BY <1>0, <2>1 DEF TypeOK, StartInv
  <2> QED
    BY <1>0, <2>1, <2>2, <2>3 DEF StartInv, Repairing, WiredFor
<1>3. CASE StartArm
  <2>1. /\ UNCHANGED <<session, raids, stopper, worker, voiceVars>> /\ applier' = raids
        /\ starter.at = "arm" /\ starter' = [starter EXCEPT !.at = "commit"]
    BY <1>3 DEF StartArm
  <2>2. starter'.at = "commit" /\ starter'.conn = starter.conn
    BY <1>0, <2>1 DEF TypeOK
  <2> QED
    BY <1>0, <2>1, <2>2 DEF StartInv, Repairing, WiredFor, voiceVars
<1>4. CASE StartCommit
  BY <1>4 DEF StartCommit, StartInv
<1>5. CASE Tick
  BY <1>0, <1>5 DEF Tick, StartInv, raidVars, voiceVars, Repairing, WiredFor
<1>6. CASE UNCHANGED vars
  BY <1>0, <1>6 DEF vars, StartInv, raidVars, voiceVars, Repairing, WiredFor
<1>7. CASE starter.at = "idle" /\ Next /\ ~StartJoin
  <2>1. starter' = starter
    BY <1>7, RaidAlone DEF Start, StartWire, StartArm, StartCommit, StopTake, StopSteps, StopLeave, StopClear
  <2> QED
    BY <1>7, <2>1 DEF StartInv
<1> QED
  BY <1>0, <1>1, <1>2, <1>3, <1>4, <1>5, <1>6, <1>7, StartMeets

LEMMA SessionStep ==
  ASSUME RepairInv, Unhurt, [Next]_vars
  PROVE  SessionInv'
<1>0. StartInv /\ SessionInv
  BY DEF RepairInv, UnhurtInv
<1>1. CASE UNCHANGED <<session, raids, starter, stopper, applier>>
  BY <1>0, <1>1 DEF SessionInv
<1>2. CASE StartJoin \/ StartWire \/ StartArm
  BY <1>0, <1>2, StartNeeds DEF StartJoin, StartWire, StartArm, SessionInv, Start, StartCommit
<1>3. CASE StartCommit
  BY <1>0, <1>3 DEF StartCommit, SessionInv, StartInv
<1>4. CASE StopTake \/ StopSteps
  BY <1>0, <1>4, StopNeeds DEF SessionInv
<1> QED
  BY <1>1, <1>2, <1>3, <1>4, RaidAlone DEF Start

-----------------------------------------------------------------------------
(***************************************************************************)
(* Where nothing is hurt: the repairs.                                     *)
(***************************************************************************)

\* A goroutine more, and nothing else changes for the repairs.
LEMMA SpawnStep ==
  ASSUME TypeOK, HearNews \/ StallReport
  PROVE  /\ UNCHANGED <<conn, held, health, place, own, slot, gaveUp>>
         /\ \A w \in Workers : worker'[w] = worker[w] \/ worker'[w].at = "try"
         /\ \A w \in Workers : worker[w].at # "off" => worker'[w] = worker[w]
         /\ \/ news > 0 /\ (session = 0 \/ \E w \in Workers : worker'[w].at = "try")
            \/ health = "stalled" /\ news' = news
<1>1. ASSUME NEW w \in Workers, Spawn(w, "try", NoConn)
      PROVE  /\ worker[w].at = "off" /\ worker'[w].at = "try"
             /\ \A v \in Workers : v # w => worker'[v] = worker[v]
  BY <1>1, SpawnTypes DEF Stages, AnyConn
<1>2. CASE HearNews
  <2>1. CASE session = 0
    BY <1>2, <2>1 DEF HearNews, raidVars
  <2>2. CASE session # 0
    <3>1. PICK w \in Workers : Spawn(w, "try", NoConn)
      BY <1>2, <2>2 DEF HearNews
    <3> QED
      BY <1>1, <1>2, <3>1 DEF HearNews
  <2> QED
    BY <2>1, <2>2
<1>3. CASE StallReport
  BY <1>1, <1>3 DEF StallReport, voiceVars
<1> QED
  BY <1>2, <1>3

LEMMA OwnStep ==
  ASSUME RepairInv, Unhurt, [Next]_vars
  PROVE  OwnInv'
<1>0. TypeOK /\ StartInv /\ SessionInv /\ OwnInv
  BY DEF RepairInv, UnhurtInv
<1>1. CASE Moved
  <2>1. \A w \in Workers : worker[w].at = "off"
    BY <1>1, TroubleNeeds DEF Trouble
  <2> QED
    BY <1>1, <2>1 DEF Moved, OwnInv
<1>2. CASE OwnListens
  BY <1>2 DEF OwnListens, OwnInv
<1>3. CASE Start \/ (Trouble /\ ~Moved)
  <2>1. own = NoMove /\ own' = own
    BY <1>0, <1>3, StartNeeds, TroubleNeeds
       DEF Trouble, Disconnected, LeaveVoice, Reidentified, FreshGateway, Stalls
  <2> QED
    BY <2>1 DEF OwnInv, NoMove
<1>4. CASE StopTake \/ StopSteps
  BY <1>0, <1>4, LeaveTypes, RemoveTypes
     DEF StopTake, StopSteps, StopLeave, StopClear, OwnInv, voiceVars
<1>5. CASE HearNews \/ StallReport
  BY <1>0, <1>5, SpawnStep DEF OwnInv, NoMove
<1>6. CASE Tick \/ UNCHANGED vars
  BY <1>0, <1>6 DEF Tick, vars, OwnInv, NoMove, voiceVars
<1>7. ASSUME NEW w \in Workers, Repair(w) PROVE OwnInv'
  <2>1. own' = own
    BY <1>7 DEF Repair, TryLock, Check, CheckFindsNoVoice, Drain, Leave, LeaveVoice, Recheck, Join, JoinAs, JoinError,
                JoinFails, Backoff, LoadApplier, CheckApply, ApplyProvider, ApplyReceiver, ApplyWatch,
                Unlock, voiceVars
  <2>2. CASE own = NoMove
    BY <2>1, <2>2 DEF OwnInv, NoMove
  <2>3. CASE own # NoMove
    <3>1. worker[w].at \in {"try", "check", "drain", "unlock"}
      BY <1>0, <1>7, <2>3, RepairMoves DEF OwnInv
    <3>2. TryLock(w) \/ Check(w) \/ CheckFindsNoVoice(w) \/ Unlock(w)
      BY <1>7, <2>3, <3>1, UnhurtMeans
         DEF Repair, Drain, Leave, Recheck, Join, JoinError, Backoff, LoadApplier, CheckApply,
             ApplyProvider, ApplyReceiver, ApplyWatch, Goes
    <3>3. UNCHANGED <<conn, place>> /\ worker'[w].at \in {"off", "check", "drain", "unlock"}
      BY <1>0, <3>1, <3>2, GoesTypes, EndsTypes DEF TryLock, Check, CheckFindsNoVoice, Unlock, Goes, voiceVars, Stages
    <3> QED
      BY <1>0, <1>7, <2>1, <3>3, RepairMoves DEF OwnInv
  <2> QED
    BY <2>2, <2>3
<1> QED
  BY <1>1, <1>2, <1>3, <1>4, <1>5, <1>6, <1>7 DEF Next

LEMMA ReapplyStep ==
  ASSUME RepairInv, Unhurt, [Next]_vars
  PROVE  ReapplyInv'
<1>0. TypeOK /\ StartInv /\ SessionInv /\ ReapplyInv /\ DueInv /\ OneRepairAtATime
  BY DEF RepairInv, UnhurtInv
<1>1. CASE Start \/ StopTake \/ StopSteps
  BY <1>0, <1>1, StartNeeds, StopNeeds DEF ReapplyInv
<1>2. CASE Moved \/ Disconnected \/ Stalls
  BY <1>2, TroubleNeeds DEF Trouble, Moved, Disconnected, Stalls, ReapplyInv
<1>3. CASE FreshGateway
  BY <1>0, <1>3, TroubleNeeds, SpawnTypes DEF Trouble, FreshGateway, ReapplyInv, Stages, AnyConn
<1>4. CASE Reidentified
  <2>1. /\ session # 0 /\ news = 0 /\ own = NoMove /\ place = "bound"
        /\ \A w \in Workers : worker[w].at = "off"
    BY <1>4, TroubleNeeds DEF Trouble
  <2>2. /\ UNCHANGED <<session, conn, held, place, news, own, gaveUp>>
        /\ conn \in Conns /\ health' = "orphaned"
    BY <1>0, <1>4 DEF Reidentified, TypeOK, AnyConn, raidVars
  <2>3. ~gaveUp => held[conn] = WiredFor(session)
    <3>1. slot = FALSE
      BY <1>0, <2>1 DEF OneRepairAtATime, Busy, TypeOK
    <3> QED
      BY <1>0, <2>1, <3>1 DEF DueInv, Heard
  <2>4. CASE UNCHANGED worker
    BY <2>1, <2>4 DEF ReapplyInv
  <2>5. ASSUME NEW w \in Workers, Spawn(w, "tryApply", conn) PROVE ReapplyInv'
    <3>1. worker'[w].conn = conn /\ \A v \in Workers : v # w => worker'[v].at = "off"
      BY <1>0, <2>1, <2>2, <2>5, SpawnTypes DEF Stages, AnyConn
    <3> QED
      BY <2>1, <2>2, <2>3, <3>1 DEF ReapplyInv, NoMove, WiredFor
  <2> QED
    BY <1>4, <2>4, <2>5 DEF Reidentified
<1>5. CASE OwnListens
  BY <1>0, <1>5 DEF OwnListens, ReapplyInv, raidVars
<1>6. CASE HearNews \/ StallReport
  <2>1. session' = session
    BY <1>6 DEF HearNews, StallReport, raidVars
  <2> QED
    BY <1>0, <1>6, <2>1, SpawnStep DEF ReapplyInv
<1>7. CASE Tick \/ UNCHANGED vars
  BY <1>0, <1>7 DEF Tick, vars, ReapplyInv, voiceVars, raidVars
<1>8. ASSUME NEW v \in Workers, Repair(v) PROVE ReapplyInv'
  <2>1. session' = session
    BY <1>8, RaidAlone DEF Repair, TryLock, Check, CheckFindsNoVoice, Drain, Leave, Recheck, Join, JoinError, Backoff,
           LoadApplier, CheckApply, ApplyProvider, ApplyReceiver, ApplyWatch, Unlock, Local, raidVars
  <2>2. ASSUME NEW w \in Workers, session # 0, worker'[w].at \in {"tryApply", "checkApply"}
        PROVE  w = v /\ TryLock(v) /\ worker[v].at = "tryApply" /\ worker'[v].conn = worker[v].conn
    BY <1>0, <1>8, <2>2, RepairMoves DEF ReapplyInv, Busy
  <2>3. CASE TryLock(v)
    <3>1. UNCHANGED <<conn, held, health, place, news, own, gaveUp>>
      BY <2>3 DEF TryLock, voiceVars, Local
    <3>2. ASSUME NEW w \in Workers, session' # 0, worker'[w].at \in {"tryApply", "checkApply"}
          PROVE  /\ \A u \in Workers : u # w => worker'[u].at = "off"
                 /\ news' = 0 /\ own' = NoMove
                 /\ conn' \in Conns /\ conn' = worker'[w].conn /\ health' = "orphaned"
                 /\ ~gaveUp' => place' = "bound" /\ held'[conn'] = WiredFor(session')
      <4>1. w = v /\ session # 0 /\ worker[w].at = "tryApply" /\ worker'[w].conn = worker[w].conn
        BY <2>1, <2>2, <3>2
      <4>2. \A u \in Workers : u # w => worker'[u] = worker[u]
        BY <1>0, <1>8, <4>1, RepairMoves
      <4> QED
        BY <1>0, <2>1, <3>1, <4>1, <4>2 DEF ReapplyInv
    <3> QED
      BY <3>2 DEF ReapplyInv
  <2>4. CASE ~TryLock(v)
    BY <2>1, <2>2, <2>4 DEF ReapplyInv
  <2> QED
    BY <2>3, <2>4
<1> QED
  BY <1>1, <1>2, <1>3, <1>4, <1>5, <1>6, <1>7, <1>8 DEF Next, Trouble

\* The goroutine that steps is the only one past the mark, unless it is dropped.
LEMMA OthersWait ==
  ASSUME TypeOK, OneRepairAtATime, NEW v \in Workers, Repair(v)
  PROVE  \/ /\ TryLock(v) /\ worker'[v].at = "off" /\ \A w \in Workers : w # v => worker'[w] = worker[w]
            /\ UNCHANGED <<session, conn, held, health, place, news, own, gaveUp, slot>> /\ slot = TRUE
         \/ \A w \in Workers : w # v => worker'[w].at \in {"off", "try", "tryApply"}
<1>1. \A w \in Workers : w # v => worker'[w] = worker[w]
  BY RepairMoves
<1>2. CASE Busy(v)
  BY <1>1, <1>2 DEF OneRepairAtATime, Busy
<1>3. CASE ~Busy(v)
  <2>1. TryLock(v) /\ slot \in BOOLEAN
    BY <1>3, RepairMoves DEF TypeOK
  <2>2. UNCHANGED <<session, conn, held, health, place, news, own, gaveUp>>
    BY <2>1 DEF TryLock, voiceVars, Local, raidVars
  <2>3. CASE slot = TRUE
    BY <1>1, <1>3, <2>1, <2>2, <2>3, RepairMoves
  <2>4. CASE slot = FALSE
    BY <1>1, <2>4 DEF OneRepairAtATime, Busy
  <2> QED
    BY <2>1, <2>3, <2>4
<1> QED
  BY <1>2, <1>3

\* What a repair leaves alone.
LEMMA RepairLeaves ==
  ASSUME NEW w \in Workers, Repair(w)
  PROVE  /\ UNCHANGED <<allows, session, raids, starter, stopper, applier, own>>
         /\ gaveUp' = gaveUp \/ JoinError(w) \/ gaveUp' = TRUE
         /\ UNCHANGED <<conn, health, place, news>> \/ Leave(w) \/ Join(w) \/ JoinError(w) \/ ApplyReceiver(w)
         /\ held' = held \/ Leave(w) \/ JoinError(w) \/ ApplyProvider(w) \/ ApplyReceiver(w) \/ ApplyWatch(w)
<1>1. CASE TryLock(w) \/ Check(w) \/ Drain(w) \/ Leave(w) \/ Recheck(w) \/ Join(w) \/ JoinError(w)
  BY <1>1 DEF TryLock, Check, Drain, Leave, LeaveVoice, Recheck, Join, JoinAs, JoinError, JoinFails,
              voiceVars, Local, raidVars
<1>2. CASE Backoff(w) \/ LoadApplier(w) \/ CheckApply(w) \/ Unlock(w)
  BY <1>2 DEF Backoff, LoadApplier, CheckApply, Unlock, voiceVars, Local, raidVars
<1>3. CASE ApplyProvider(w) \/ ApplyReceiver(w) \/ ApplyWatch(w)
  BY <1>3 DEF ApplyProvider, ApplyReceiver, ApplyWatch, voiceVars, Local, raidVars
<1>4. CASE CheckFindsNoVoice(w)
  BY <1>4 DEF CheckFindsNoVoice, voiceVars, raidVars
<1> QED
  BY <1>1, <1>2, <1>3, <1>4 DEF Repair

LEMMA OnItsConnStep ==
  ASSUME RepairInv, Unhurt, [Next]_vars
  PROVE  OnItsConn'
<1>0. TypeOK /\ StartInv /\ SessionInv /\ OwnInv /\ ReapplyInv /\ OneRepairAtATime /\ OnItsConn
  BY DEF RepairInv, UnhurtInv
<1>1. CASE Start \/ StopTake \/ StopSteps
  BY <1>0, <1>1, StartNeeds, StopNeeds DEF OnItsConn
<1>2. CASE Trouble
  <2>1. \A w \in Workers : worker[w].at = "off"
    BY <1>2, TroubleNeeds
  <2>2. \A w \in Workers : worker'[w].at \in {"off", "try", "tryApply"}
    BY <1>0, <1>2, <2>1, SpawnTypes
       DEF Trouble, Moved, Disconnected, Reidentified, FreshGateway, Stalls, Stages, AnyConn, TypeOK
  <2> QED
    BY <2>2 DEF OnItsConn
<1>3. CASE OwnListens
  BY <1>0, <1>3 DEF OwnListens, OwnInv, OnItsConn
<1>4. CASE HearNews \/ StallReport
  <2>1. session' = session
    BY <1>4 DEF HearNews, StallReport, raidVars
  <2> QED
    BY <1>0, <1>4, <2>1, SpawnStep DEF OnItsConn
<1>5. CASE Tick \/ UNCHANGED vars
  BY <1>0, <1>5 DEF Tick, vars, OnItsConn, voiceVars, raidVars
<1>6. ASSUME NEW v \in Workers, Repair(v) PROVE OnItsConn'
  <2>1. session' = session
    BY <1>6, RepairLeaves
  <2>2. ASSUME session # 0, worker'[v].at \in {"load", "provider", "receiver", "watch"}
        PROVE  conn' \in Conns /\ conn' = worker'[v].conn
    <3>1. CASE Join(v)
      BY <1>0, <3>1, JoinsTypes DEF Join, JoinAs, AnyConn
    <3>2. CASE CheckApply(v)
      <4>1. worker[v].at = "checkApply" /\ worker' = [worker EXCEPT ![v].at = "load"] /\ conn' = conn
        BY <2>2, <3>2 DEF CheckApply, Goes, voiceVars
      <4>2. worker'[v].conn = worker[v].conn
        BY <1>0, <4>1, GoesTypes DEF Stages
      <4> QED
        BY <1>0, <2>2, <4>1, <4>2 DEF ReapplyInv
    <3>3. CASE LoadApplier(v)
      <4>1. worker[v].at = "load" /\ conn' = conn
        BY <3>3 DEF LoadApplier, voiceVars
      <4>2. PICK s \in {"unlock", "provider"} :
               worker' = [worker EXCEPT ![v].at = s, ![v].raid = applier]
        BY <3>3 DEF LoadApplier
      <4>3. worker'[v].conn = worker[v].conn
        BY <1>0, <4>2, LoadsTypes DEF Stages, TypeOK
      <4> QED
        BY <1>0, <2>2, <4>1, <4>3 DEF OnItsConn
    <3>4. CASE ApplyProvider(v) \/ ApplyReceiver(v) \/ ApplyWatch(v)
      BY <1>0, <2>2, <3>4, GoesTypes, ZenonT(40) DEF ApplyProvider, ApplyReceiver, ApplyWatch, Goes, OnItsConn, Stages
    <3>5. CASE \/ TryLock(v) \/ Check(v) \/ CheckFindsNoVoice(v) \/ Drain(v) \/ Leave(v) \/ Recheck(v) \/ JoinError(v)
               \/ Backoff(v) \/ Unlock(v)
      <4>1. worker'[v].at \notin {"load", "provider", "receiver", "watch"}
        BY <1>0, <3>5, GoesTypes, EndsTypes
           DEF TryLock, Check, CheckFindsNoVoice, Drain, Leave, Recheck, JoinError, Backoff, Unlock, Goes, Stages
      <4> QED
        BY <2>2, <4>1
    <3> QED
      BY <1>6, <3>1, <3>2, <3>3, <3>4, <3>5 DEF Repair
  <2> QED
    BY <1>0, <1>6, <2>1, <2>2, OthersWait, ZenonT(40) DEF OnItsConn
<1> QED
  BY <1>1, <1>2, <1>3, <1>4, <1>5, <1>6 DEF Next

LEMMA WatchedIsWired ==
  ASSUME NEW h, NEW r, h \in HeldType, h.sender = r, h.receiver = r
  PROVE  [h EXCEPT !.watch = TRUE] = WiredFor(r)
<1>1. PICK b : b = h.watch
  OBVIOUS
<1>2. h = [sender |-> r, receiver |-> r, watch |-> b]
  BY <1>1 DEF HeldType
<1>3. ASSUME NEW t
      PROVE  [[sender |-> r, receiver |-> r, watch |-> b] EXCEPT !.watch = t]
                = [sender |-> r, receiver |-> r, watch |-> t]
  OBVIOUS
<1> QED
  BY <1>2, <1>3 DEF WiredFor

LEMMA ProgressStep ==
  ASSUME RepairInv, Unhurt, [Next]_vars
  PROVE  ProgressInv'
<1>0. /\ TypeOK /\ OneRepairAtATime /\ StartInv /\ SessionInv /\ OwnInv /\ ReapplyInv
      /\ OnItsConn /\ ProgressInv
  BY DEF RepairInv, UnhurtInv
<1>a. ASSUME NEW w \in Workers,
             worker'[w].at \notin {"load", "provider", "receiver", "watch", "unlock"}
      PROVE  Progress(w)'
  BY <1>a DEF Progress
<1>b. ASSUME NEW w \in Workers, Progress(w), worker'[w] = worker[w],
             UNCHANGED <<session, conn, held, health, place>>
      PROVE  Progress(w)'
  BY <1>b DEF Progress, Heard
<1>1. CASE Start \/ StopTake \/ StopSteps
  BY <1>0, <1>1, <1>a, StartNeeds, StopNeeds DEF ProgressInv
<1>2. CASE Trouble
  <2>1. \A w \in Workers : worker[w].at = "off"
    BY <1>2, TroubleNeeds
  <2>2. \A w \in Workers : worker'[w].at \in {"off", "try", "tryApply"}
    BY <1>0, <1>2, <2>1, SpawnTypes
       DEF Trouble, Moved, Disconnected, Reidentified, FreshGateway, Stalls, Stages, AnyConn, TypeOK
  <2> QED
    BY <1>a, <2>2 DEF ProgressInv
<1>3. CASE OwnListens
  <2>1. own # NoMove /\ UNCHANGED <<session, worker, gaveUp>>
    BY <1>3 DEF OwnListens, raidVars
  <2>2. ASSUME NEW w \in Workers, session # 0, ~gaveUp
        PROVE  worker'[w].at \notin {"load", "provider", "receiver", "watch", "unlock"}
    BY <1>0, <2>1, <2>2 DEF OwnInv, ProgressInv, Progress, Heard
  <2> QED
    BY <1>a, <2>1, <2>2 DEF ProgressInv
<1>4. CASE HearNews \/ StallReport
  <2>1. session' = session
    BY <1>4 DEF HearNews, StallReport, raidVars
  <2> QED
    BY <1>0, <1>4, <1>a, <1>b, <2>1, SpawnStep DEF ProgressInv
<1>5. CASE Tick \/ UNCHANGED vars
  BY <1>0, <1>5, <1>b DEF Tick, vars, ProgressInv, voiceVars, raidVars
<1>6. ASSUME NEW v \in Workers, Repair(v) PROVE ProgressInv'
  <2>1. session' = session
    BY <1>6, RepairLeaves
  <2>2. ASSUME session # 0, ~gaveUp' PROVE Progress(v)'
    <3>0. session' = session /\ (~gaveUp \/ JoinError(v))
      BY <1>6, <2>2, RepairLeaves
    <3>1. CASE \/ TryLock(v) \/ Check(v) \/ CheckFindsNoVoice(v) \/ Drain(v) \/ Leave(v) \/ Recheck(v) \/ Backoff(v)
               \/ Unlock(v) \/ JoinError(v)
      <4>1. worker'[v].at \notin {"load", "provider", "receiver", "watch", "unlock"}
        BY <1>0, <2>2, <3>1, GoesTypes, EndsTypes
           DEF TryLock, Check, CheckFindsNoVoice, Drain, Leave, Recheck, Backoff, Unlock, JoinError, Goes, Stages
      <4> QED
        BY <1>a, <4>1
    <3>2. CASE Join(v)
      <4>1. worker'[v].at = "load" /\ place' = "bound" /\ health' = "good"
        BY <1>0, <3>2, JoinsTypes DEF Join, JoinAs, AnyConn
      <4> QED
        BY <4>1 DEF Progress
    <3>3. CASE CheckApply(v)
      <4>1. /\ worker[v].at = "checkApply" /\ worker' = [worker EXCEPT ![v].at = "load"]
            /\ UNCHANGED <<place, health, gaveUp>>
        BY <2>2, <3>3 DEF CheckApply, Goes, voiceVars, Local
      <4>2. worker'[v].at = "load"
        BY <1>0, <4>1, GoesTypes DEF Stages
      <4>3. place = "bound" /\ health = "orphaned"
        BY <1>0, <2>2, <4>1 DEF ReapplyInv
      <4> QED
        BY <4>1, <4>2, <4>3 DEF Progress
    <3>4. CASE LoadApplier(v)
      <4>1. /\ worker[v].at = "load" /\ UNCHANGED <<place, health, gaveUp>>
            /\ worker' = [worker EXCEPT ![v].at = "provider", ![v].raid = applier] /\ applier = session
        BY <1>0, <2>2, <3>4 DEF LoadApplier, voiceVars, Local, SessionInv
      <4>2. worker'[v].at = "provider" /\ worker'[v].raid = session
        BY <1>0, <4>1, LoadsTypes, ZenonT(40) DEF Stages, TypeOK
      <4>3. place = "bound" /\ health \in {"good", "orphaned"}
        BY <1>0, <2>2, <4>1 DEF ProgressInv, Progress
      <4> QED
        BY <3>0, <4>1, <4>2, <4>3 DEF Progress
    <3>5. CASE ApplyProvider(v) \/ ApplyReceiver(v) \/ ApplyWatch(v)
      <4> DEFINE c == conn
                 h == held[conn]
      <4>1. /\ UNCHANGED <<conn, place, gaveUp>>
            /\ worker[v].at \in {"provider", "receiver", "watch"}
        BY <3>5 DEF ApplyProvider, ApplyReceiver, ApplyWatch, Goes, Local
      <4>2. conn \in Conns /\ conn = worker[v].conn /\ Progress(v) /\ ~gaveUp
        BY <1>0, <2>2, <4>1 DEF OnItsConn, ProgressInv
      <4>3. place = "bound" /\ health \in {"good", "orphaned"} /\ worker[v].raid = session
        BY <4>1, <4>2 DEF Progress
      <4>4. held \in [Conns -> HeldType] /\ held[conn] \in HeldType
        BY <1>0, <4>2 DEF TypeOK, HeldType
      <4>5. CASE ApplyProvider(v)
        <5>1. /\ worker' = [worker EXCEPT ![v].at = "receiver"] /\ health' = health
              /\ held' = [held EXCEPT ![conn] = [held[conn] EXCEPT !.sender = session]]
          BY <4>2, <4>3, <4>5 DEF ApplyProvider, Goes, Holds
        <5>2. worker'[v].at = "receiver" /\ worker'[v].raid = session
          BY <1>0, <4>3, <5>1, GoesTypes DEF Stages
        <5>3. held'[conn].sender = session
          BY <4>2, <4>4, <5>1 DEF HeldType
        <5> QED
          BY <3>0, <4>1, <4>3, <5>1, <5>2, <5>3 DEF Progress
      <4>6. CASE ApplyReceiver(v)
        <5>1. /\ worker[v].at = "receiver" /\ worker' = [worker EXCEPT ![v].at = "watch"]
              /\ held' = [held EXCEPT ![conn] = [held[conn] EXCEPT !.receiver = session]]
              /\ health' = "good"
          BY <4>2, <4>3, <4>6 DEF ApplyReceiver, Goes, Holds
        <5>2. worker'[v].at = "watch" /\ worker'[v].raid = session
          BY <1>0, <4>3, <5>1, GoesTypes DEF Stages
        <5>3. held[conn].sender = session
          BY <4>2, <5>1 DEF Progress
        <5>4. held'[conn].sender = session /\ held'[conn].receiver = session
          BY <4>2, <4>4, <5>1, <5>3 DEF HeldType
        <5> QED
          BY <3>0, <4>1, <4>3, <5>1, <5>2, <5>4 DEF Progress
      <4>7. CASE ApplyWatch(v)
        <5>1. /\ worker[v].at = "watch" /\ worker' = [worker EXCEPT ![v].at = "unlock"]
              /\ held' = [held EXCEPT ![conn] = [held[conn] EXCEPT !.watch = TRUE]]
              /\ health' = health
          BY <4>2, <4>7 DEF ApplyWatch, Goes, Holds
        <5>2. worker'[v].at = "unlock"
          BY <1>0, <5>1, GoesTypes DEF Stages
        <5>3. held[conn].sender = session /\ held[conn].receiver = session /\ health = "good"
          BY <4>2, <5>1 DEF Progress
        <5>4. held'[conn] = WiredFor(session)
          BY <4>2, <4>4, <5>1, <5>3, WatchedIsWired
        <5> QED
          BY <3>0, <4>1, <4>2, <4>3, <5>1, <5>2, <5>3, <5>4 DEF Progress, Heard
      <4> QED
        BY <3>5, <4>5, <4>6, <4>7
    <3> QED
      BY <1>6, <3>1, <3>2, <3>3, <3>4, <3>5 DEF Repair
  <2> QED
    BY <1>0, <1>6, <1>a, <1>b, <2>1, <2>2, OthersWait, RepairLeaves DEF ProgressInv
<1> QED
  BY <1>1, <1>2, <1>3, <1>4, <1>5, <1>6 DEF Next

LEMMA DueStep ==
  ASSUME RepairInv, Unhurt, [Next]_vars
  PROVE  DueInv'
<1>0. /\ TypeOK /\ OneRepairAtATime /\ StartInv /\ SessionInv /\ OwnInv
      /\ ProgressInv /\ DueInv
  BY DEF RepairInv, UnhurtInv
<1>1. CASE Start
  <2>1. CASE session' = 0
    BY <2>1 DEF DueInv
  <2>2. CASE StartCommit
    BY <2>2, <1>0 DEF StartCommit, StartInv, DueInv, Heard, voiceVars
  <2> QED
    BY <1>0, <1>1, <2>1, <2>2, StartNeeds
<1>2. CASE StopTake \/ StopSteps
  BY <1>0, <1>2, StopNeeds DEF DueInv
<1>3. CASE Trouble
  <2>1. /\ session # 0 /\ news = 0 /\ own = NoMove /\ health = "good" /\ place = "bound"
        /\ \A w \in Workers : worker[w].at = "off"
    BY <1>3, TroubleNeeds
  <2>2. slot = FALSE
    BY <1>0, <2>1 DEF OneRepairAtATime, Busy, TypeOK
  <2>3. ~gaveUp => Heard
    BY <1>0, <2>1, <2>2 DEF DueInv
  <2>4. CASE Moved
    BY <2>1, <2>4 DEF Moved, DueInv
  <2>5. CASE Disconnected
    BY <1>0, <2>1, <2>5, LeaveTypes DEF Disconnected, DueInv, TypeOK
  <2>6. CASE Reidentified
    <3>1. CASE held[conn].watch
      <4>1. PICK w \in Workers : Spawn(w, "tryApply", conn)
        BY <2>6, <3>1 DEF Reidentified
      <4>2. worker'[w].at = "tryApply"
        BY <1>0, <4>1, SpawnTypes DEF Stages, TypeOK
      <4> QED
        BY <4>2 DEF DueInv
    <3>2. CASE ~held[conn].watch
      <4>1. ~Heard
        BY <3>2 DEF Heard, WiredFor
      <4> QED
        BY <2>3, <2>6, <4>1 DEF Reidentified, DueInv
    <3> QED
      BY <3>1, <3>2
  <2>7. CASE FreshGateway
    <3>1. PICK w \in Workers : Spawn(w, "try", NoConn)
      BY <2>7 DEF FreshGateway
    <3>2. worker'[w].at = "try"
      BY <1>0, <3>1, SpawnTypes DEF Stages, AnyConn
    <3> QED
      BY <3>2 DEF DueInv
  <2>8. CASE Stalls
    BY <2>3, <2>8 DEF Stalls, DueInv, Heard, raidVars
  <2> QED
    BY <1>3, <2>4, <2>5, <2>6, <2>7, <2>8 DEF Trouble
<1>4. CASE OwnListens
  <2>1. own # NoMove /\ UNCHANGED <<session, worker, gaveUp, slot, news>>
    BY <1>4 DEF OwnListens, raidVars
  <2>2. ~Heard
    BY <1>0, <2>1 DEF OwnInv, Heard
  <2> QED
    BY <1>0, <2>1, <2>2 DEF DueInv
<1>5. CASE HearNews \/ StallReport
  <2>1. session' = session
    BY <1>5 DEF HearNews, StallReport, raidVars
  <2>2. Heard' <=> Heard
    BY <1>0, <1>5, <2>1, SpawnStep DEF Heard
  <2> QED
    BY <1>0, <1>5, <2>1, <2>2, SpawnStep DEF DueInv
<1>6. CASE Tick \/ UNCHANGED vars
  BY <1>0, <1>6 DEF Tick, vars, DueInv, Heard, voiceVars, raidVars
<1>7. ASSUME NEW v \in Workers, Repair(v) PROVE DueInv'
  <2>1. CASE Unlock(v)
    <3>1. /\ worker[v].at = "unlock"
          /\ UNCHANGED <<session, conn, held, health, place, gaveUp>>
      BY <2>1 DEF Unlock, voiceVars, Local, raidVars
    <3>2. session # 0 /\ ~gaveUp => Heard
      BY <1>0, <3>1 DEF ProgressInv, Progress
    <3> QED
      BY <3>1, <3>2 DEF DueInv, Heard
  <2>2. CASE ~Unlock(v)
    <3>1. slot' = TRUE
      BY <1>0, <1>7, <2>2, RepairMoves DEF OneRepairAtATime, TypeOK
    <3> QED
      BY <3>1 DEF DueInv
  <2> QED
    BY <2>1, <2>2
<1> QED
  BY <1>1, <1>2, <1>3, <1>4, <1>5, <1>6, <1>7 DEF Next

LEMMA UnhurtStep ==
  ASSUME RepairInv, Unhurt, [Next]_vars
  PROVE  UnhurtInv'
BY StartStep, SessionStep, OwnStep, ReapplyStep, OnItsConnStep, ProgressStep, DueStep DEF UnhurtInv

-----------------------------------------------------------------------------
(***************************************************************************)
(* In calm.                                                                *)
(***************************************************************************)

\* A connection that is opened is the bot's, and one that is closed holds nothing.
LEMMA OpensOne ==
  ASSUME TypeOK, LeftoverInv, NEW c \in Conns, JoinAs(c), own = NoMove
  PROVE  LeftoverInv'
<1>1. conn' = c /\ held' = held /\ own' = NoMove /\ (conn = NoConn \/ conn = c)
  BY DEF JoinAs
<1>2. \A d \in Conns : d = c \/ held[d] = Nothing
  BY <1>1, Constants DEF LeftoverInv
<1> QED
  BY <1>1, <1>2, Constants DEF LeftoverInv, NoMove

LEMMA ClosesAll ==
  ASSUME TypeOK, LeftoverInv, RemoveConn
  PROVE  \A c \in Conns : held'[c] = Nothing
BY RemoveTypes DEF LeftoverInv

LEMMA LeftoverStep ==
  ASSUME RepairInv, Calm, [Next]_vars
  PROVE  LeftoverInv'
<1>0. /\ Unhurt /\ TypeOK /\ StartInv /\ OwnInv /\ OnItsConn
      /\ LeftoverInv /\ StoppedInv
  BY CalmMeans DEF RepairInv, UnhurtInv, CalmInv
<1>a. ASSUME UNCHANGED <<conn, held, place, own>> PROVE LeftoverInv'
  BY <1>0, <1>a DEF LeftoverInv
<1>b. ASSUME LeaveVoice, CanLeave PROVE LeftoverInv'
  BY <1>0, <1>b, ClosesAll, LeaveTypes, RemoveTypes DEF LeftoverInv
<1>1. CASE StartJoin
  BY <1>0, <1>1, OpensOne, UnhurtMeans DEF StartJoin
<1>2. CASE StartWire
  <2>1. starter.at # "idle" /\ held' = [held EXCEPT ![starter.conn] = WiredFor(raids)]
        /\ UNCHANGED <<conn, place, own>>
    BY <1>2 DEF StartWire, WiredFor
  <2>2. \A c \in Conns : c # conn => held'[c] = held[c]
    BY <1>0, <2>1 DEF StartInv, TypeOK
  <2> QED
    BY <1>0, <2>1, <2>2 DEF LeftoverInv
<1>3. CASE StartArm \/ StartCommit \/ StopTake \/ StopClear
  BY <1>3, <1>a DEF StartArm, StartCommit, StopTake, StopClear, voiceVars
<1>4. CASE StopLeave \/ Disconnected
  BY <1>4, <1>b DEF StopLeave, Disconnected
<1>5. CASE Moved
  BY <1>0, <1>5 DEF Moved, LeftoverInv
<1>6. CASE Reidentified \/ FreshGateway \/ Stalls \/ HearNews \/ StallReport \/ Tick \/ UNCHANGED vars
  BY <1>6, <1>a DEF Reidentified, FreshGateway, Stalls, HearNews, StallReport, Tick, vars, voiceVars
<1>7. CASE OwnListens
  <2>1. own' = NoMove /\ place' = place
    BY <1>7 DEF OwnListens
  <2>2. CASE own.what = "out" /\ RemoveConn
    BY <1>0, <2>1, <2>2, ClosesAll DEF LeftoverInv, NoMove
  <2>3. CASE UNCHANGED <<conn, held>>
    BY <1>0, <2>1, <2>3 DEF LeftoverInv, NoMove
  <2> QED
    BY <1>7, <2>2, <2>3 DEF OwnListens
<1>8. ASSUME NEW w \in Workers, Repair(w) PROVE LeftoverInv'
  <2>1. CASE Leave(w)
    BY <1>b, <2>1 DEF Leave
  <2>2. CASE Join(w)
    BY <1>0, <2>2, OpensOne DEF Join, OwnInv
  <2>3. CASE JoinError(w)
    BY <1>0, <2>3, ClosesAll DEF JoinError, JoinFails, LeftoverInv
  <2>4. CASE ApplyProvider(w) \/ ApplyReceiver(w) \/ ApplyWatch(w)
    <3>1. conn = worker[w].conn
      BY <1>0, <2>4 DEF ApplyProvider, ApplyReceiver, ApplyWatch, Goes, StoppedInv, PastTheCheck, OnItsConn
    <3>2. \A c \in Conns : c # conn => held'[c] = held[c]
      BY <1>0, <2>4, <3>1 DEF ApplyProvider, ApplyReceiver, ApplyWatch, Holds, TypeOK
    <3> QED
      BY <1>0, <2>4, <3>2 DEF ApplyProvider, ApplyReceiver, ApplyWatch, LeftoverInv
  <2> QED
    BY <1>8, <1>a, <2>1, <2>2, <2>3, <2>4, RepairLeaves
<1> QED
  BY <1>1, <1>2, <1>3, <1>4, <1>5, <1>6, <1>7, <1>8 DEF Next, Start, StopSteps, Trouble

LEMMA StoppedStep ==
  ASSUME RepairInv, Calm, [Next]_vars
  PROVE  StoppedInv'
<1>0. /\ Unhurt /\ "StopAtJoin" \notin allows /\ TypeOK /\ OneRepairAtATime /\ StartInv /\ SessionInv
      /\ LeftoverInv /\ StoppedInv
  BY CalmMeans DEF RepairInv, UnhurtInv, CalmInv
<1>1. CASE StartJoin \/ StartWire \/ StartArm
  <2>1. /\ \A w \in Workers : worker'[w].at = "off"
        /\ stopper' = "idle"
    BY <1>0, <1>1, StartNeeds DEF Start
  <2>2. starter'.at # "idle"
    BY <1>0, <1>1 DEF StartJoin, StartWire, StartArm, TypeOK
  <2> QED
    BY <2>1, <2>2 DEF StoppedInv, PastTheCheck
<1>2. CASE StartCommit
  <2>1. /\ \A w \in Workers : worker'[w].at = "off"
        /\ stopper' = "idle"
    BY <1>0, <1>2, StartNeeds DEF Start
  <2>2. session' # 0
    BY <1>0, <1>2 DEF StartCommit, StartInv
  <2> QED
    BY <2>1, <2>2 DEF StoppedInv, PastTheCheck
<1>3. CASE StopTake
  BY <1>0, <1>3 DEF StopTake, StoppedInv
<1>4. CASE StopLeave
  BY <1>0, <1>4, RemoveTypes DEF StopLeave, LeaveVoice, StoppedInv
<1>5. CASE StopClear
  BY <1>0, <1>5 DEF StopClear, ClearGuild, StoppedInv, voiceVars
<1>6. CASE Trouble
  <2>1. session # 0 /\ (\A w \in Workers : worker[w].at = "off") /\ UNCHANGED <<session, stopper>>
    BY <1>0, <1>6, TroubleNeeds DEF Trouble, Moved, Disconnected, Reidentified, FreshGateway, Stalls, raidVars
  <2> QED
    BY <1>0, <2>1 DEF StoppedInv, SessionInv
<1>7. CASE OwnListens
  BY <1>0, <1>7, RemoveTypes DEF OwnListens, StoppedInv, raidVars
<1>8. CASE HearNews \/ StallReport
  <2>1. UNCHANGED <<session, stopper, starter, applier>>
    BY <1>8 DEF HearNews, StallReport, raidVars
  <2> QED
    BY <1>0, <1>8, <2>1, SpawnStep DEF StoppedInv, PastTheCheck
<1>9. CASE Tick \/ UNCHANGED vars
  BY <1>0, <1>9 DEF Tick, vars, StoppedInv, voiceVars, raidVars
<1>10. ASSUME NEW v \in Workers, Repair(v) PROVE StoppedInv'
  <2>1. UNCHANGED <<session, stopper, starter, applier>>
    BY <1>10, RepairLeaves
  <2>2. CASE session # 0
    BY <1>0, <2>1, <2>2 DEF StoppedInv, SessionInv
  <2>3. CASE session = 0
    <3>1. worker[v].at \notin PastTheCheck
      BY <1>0, <2>3 DEF StoppedInv
    <3>2. ~Join(v) /\ ~JoinError(v) /\ ~ApplyReceiver(v)
      BY <3>1 DEF Join, JoinError, ApplyReceiver, Goes, PastTheCheck
    <3>3. conn' = conn \/ conn' = NoConn
      <4>1. conn' = conn \/ Leave(v)
        BY <1>10, <3>2, RepairLeaves
      <4>2. ASSUME Leave(v) PROVE conn' = conn \/ conn' = NoConn
        BY <4>2 DEF Leave, LeaveVoice, RemoveConn
      <4> QED
        BY <4>1, <4>2
    <3>4. worker'[v].at \notin PastTheCheck
      BY <1>0, <1>10, <2>3, <3>1, GoesTypes, EndsTypes
         DEF Repair, TryLock, Check, CheckFindsNoVoice, Drain, Leave, Recheck, Join, JoinError, Backoff, LoadApplier,
             CheckApply, ApplyProvider, ApplyReceiver, ApplyWatch, Unlock, Goes, PastTheCheck, Stages
    <3>5. \A w \in Workers : worker'[w].at \notin PastTheCheck
      BY <1>0, <1>10, <2>3, <3>4, RepairMoves DEF StoppedInv
    <3> QED
      BY <1>0, <2>1, <3>3, <3>5 DEF StoppedInv
  <2> QED
    BY <2>2, <2>3
<1> QED
  BY <1>1, <1>2, <1>3, <1>4, <1>5, <1>6, <1>7, <1>8, <1>9, <1>10 DEF Next, Start, StopSteps

-----------------------------------------------------------------------------
LEMMA InitRepair == Init => RepairInv
<1> SUFFICES ASSUME Init PROVE RepairInv
  OBVIOUS
<1>1. \A w \in Workers : worker[w].at = "off"
  BY DEF Init, Off
<1>2. OneRepairAtATime
  BY <1>1 DEF Init, OneRepairAtATime, Busy
<1>3. UnhurtInv
  BY <1>1 DEF Init, UnhurtInv, StartInv, SessionInv, OwnInv, ReapplyInv, OnItsConn, ProgressInv, DueInv
<1>4. CalmInv
  BY <1>1 DEF Init, CalmInv, LeftoverInv, StoppedInv, PastTheCheck, NoMove
<1> QED
  BY <1>2, <1>3, <1>4, InitTypes DEF RepairInv

LEMMA RepairStep == RepairInv /\ [Next]_vars => RepairInv'
<1> SUFFICES ASSUME RepairInv, [Next]_vars PROVE RepairInv'
  OBVIOUS
<1>1. TypeOK' /\ OneRepairAtATime'
  BY TypesStep, MarkHolds DEF RepairInv
<1>2. (Unhurt' <=> Unhurt) /\ (Calm' <=> Calm)
  BY RaidAlone DEF Unhurt, Calm
<1> QED
  BY <1>1, <1>2, UnhurtStep, LeftoverStep, StoppedStep DEF RepairInv, CalmInv

\* Whatever happens to the connection and whoever notices: one goroutine at a time
\* repairs it (inFlightSet.trySet); when nothing overlaps but late news and, for
\* the last part, a stop, what is taken down leaves nothing, and a raid whose
\* repairs are over is heard (ReconnectBotChannel, reapplyAfterVoiceReady).
THEOREM RepairsAreSafe == Spec => []ReconnectInv
<1>1. RepairInv => ReconnectInv
  <2> SUFFICES ASSUME RepairInv PROVE ReconnectInv
    OBVIOUS
  <2>1. TypeOK /\ OneRepairAtATime
    BY DEF RepairInv
  <2>2. NothingOutlivesItsConn
    BY DEF RepairInv, CalmInv, LeftoverInv, NothingOutlivesItsConn
  <2>3. StopLeavesNothing
    BY DEF RepairInv, CalmInv, LeftoverInv, StoppedInv, StopLeavesNothing, AtRest
  <2>4. RaidIsHeard
    <3> SUFFICES ASSUME Unhurt, AtRest, session # 0, ~gaveUp, health # "stalled"
                 PROVE  Heard
      BY Constants DEF RaidIsHeard, Heard, WiredFor
    <3>1. \A w \in Workers : worker[w].at = "off"
      BY DEF AtRest, Repairing
    <3>2. slot = FALSE
      BY <2>1, <3>1 DEF OneRepairAtATime, Busy, TypeOK
    <3> QED
      BY <3>1, <3>2 DEF RepairInv, UnhurtInv, DueInv, AtRest
  <2> QED
    BY <2>1, <2>2, <2>3, <2>4 DEF ReconnectInv
<1> QED
  BY <1>1, InitRepair, RepairStep, PTL DEF Spec
=============================================================================
