---------------------------- MODULE DaveSessions ----------------------------
(***************************************************************************)
(* The DAVE sessions of one bot and the statistics they share              *)
(* (internal/dave/session.go, stats.go).  Every voice connection has a     *)
(* session; its gateway goroutine adds and removes users, its receive      *)
(* goroutine decrypts and counts frames, its send goroutine encrypts, and  *)
(* a collector exports the counters and drops those of users that have     *)
(* left.  The backend, golibdave, is a set of users with a decryptor.      *)
(***************************************************************************)
EXTENDS Integers, FiniteSets, FiniteSetsExt

CONSTANTS Sessions, Users,
          Unknown,        \* UnknownUserID
          StallFrames,
          Environments    \* what goes on, one of which each behaviour begins in:
                          \* the goings-on below, and bounds on the gateway's
                          \* calls, on frames received and on changes of readiness

GoingsOn == {"Sending",         \* frames are sent
             "LateFrames",      \* frames come of users that are not in the session
             "CloseInCompany"}  \* a connection closes with users in its channel

ASSUME DaveConstants ==
    /\ IsFiniteSet(Sessions)
    /\ Unknown \notin Users
    /\ StallFrames \in Nat \ {0}
    /\ Environments \subseteq [allows : SUBSET GoingsOn, moves : Nat, frames : Nat, turns : Nat]

VARIABLES
    env,        \* the member of Environments this behaviour runs in
    life,       \* of a session: "open" or "closed"; a new connection has a new one
    backend,    \* users the backend has a decryptor for
    known,      \* countingSession.known
    gw,         \* where the gateway goroutine is in AddUser or RemoveUser, and of whom
    crypt,      \* the backend's encryptor: "waiting" (not ready), "ready" or "failing"
    rx,         \* the frame the receive goroutine has in hand
    fails,      \* encryptFails modulo StallFrames
    reported,   \* the last frame sent was reported as a stall
    counters,   \* Stats.counters, a map from user and outcome
    holders,    \* Stats.holders
    retiring,   \* Stats.retiring
    retired,    \* Stats.retired
    collector,  \* where the collector is
    moves, frames, turns

sessionVars == <<life, backend, known, gw>>
sendVars == <<crypt, fails, reported, turns>>
holdVars == <<holders, retiring>>
countVars == <<counters, retired, collector>>
vars == <<env, sessionVars, sendVars, rx, holdVars, countVars, moves, frames>>

Senders == Users \cup {Unknown}
Outcomes == {"success", "failure", "passthrough", "dropped"}
Keys == Senders \X Outcomes
Zero == [o \in Outcomes |-> 0]

\* Slip: each method mirrors the user on the wrong side of the backend call.
ThenMirrorWrong ==
    [AddUser |-> "remember", remember |-> "keep", keep |-> "add", add |-> "idle",
     RemoveUser |-> "remove", remove |-> "forget", forget |-> "retire", retire |-> "idle"]

\* The order of the calls in AddUser and in RemoveUser.
Then ==
    [AddUser |-> "add", add |-> "remember", remember |-> "keep", keep |-> "idle",
     RemoveUser |-> "forget", forget |-> "retire", retire |-> "remove", remove |-> "idle"]

Idle == [at |-> "idle", user |-> Unknown]
NoFrame == [at |-> "idle", user |-> Unknown, outcome |-> "dropped", lost |-> FALSE]

TypeOK ==
    /\ env \in Environments
    /\ life \in [Sessions -> {"open", "closed"}]
    /\ backend \in [Sessions -> SUBSET Users]
    /\ known \in [Sessions -> SUBSET Users]
    /\ gw \in [Sessions -> [at : {"idle", "add", "remember", "keep", "forget",
                                  "retire", "remove"}, user : Senders]]
    /\ crypt \in [Sessions -> {"waiting", "ready", "failing"}]
    /\ rx \in [Sessions -> [at : {"idle", "known", "unknown", "count", "add"},
                            user : Senders, outcome : Outcomes, lost : BOOLEAN]]
    /\ fails \in [Sessions -> 0..(StallFrames - 1)]
    /\ reported \in [Sessions -> BOOLEAN]
    /\ DOMAIN counters \subseteq Keys
    /\ \A k \in DOMAIN counters : counters[k] \in Nat
    /\ holders \in [Users -> Nat]
    /\ retiring \subseteq Users
    /\ DOMAIN retired = Outcomes
    /\ collector \in {"rest", "evict"}
    /\ moves \in 0..env.moves /\ frames \in 0..env.frames /\ turns \in 0..env.turns

Init ==
    /\ env \in Environments
    /\ life = [s \in Sessions |-> "open"]
    /\ backend = [s \in Sessions |-> {}] /\ known = [s \in Sessions |-> {}]
    /\ gw = [s \in Sessions |-> Idle] /\ rx = [s \in Sessions |-> NoFrame]
    /\ crypt = [s \in Sessions |-> "waiting"] /\ fails = [s \in Sessions |-> 0]
    /\ reported = [s \in Sessions |-> FALSE]
    /\ counters = [k \in {} |-> 0]
    /\ holders = [u \in Users |-> 0] /\ retiring = {}
    /\ retired = Zero /\ collector = "rest"
    /\ moves = 0 /\ frames = 0 /\ turns = 0

-----------------------------------------------------------------------------
(* Connections, and the gateway goroutine of a session *)

\* disgo's Conn.Close closes the backend and removes nobody.
SessionCloses(s) ==
    /\ life[s] = "open"
    /\ "CloseInCompany" \in env.allows \/ (known[s] = {} /\ gw[s].at = "idle")
    /\ life' = [life EXCEPT ![s] = "closed"]
    /\ backend' = [backend EXCEPT ![s] = {}]
    /\ known' = known
    /\ UNCHANGED <<env, gw, sendVars, rx, holdVars, countVars, moves, frames>>

\* The user whose frame a session has in hand.
InHand(s, u) == rx[s].at # "idle" /\ rx[s].user = u

\* The gateway may repeat an add, and remove a user it never added.
GatewayCalls(s, u, call) ==
    /\ life[s] = "open" /\ gw[s].at = "idle" /\ moves < env.moves
    /\ call = "AddUser" \/ "LateFrames" \in env.allows \/ ~InHand(s, u)
    /\ gw' = [gw EXCEPT ![s] = [at |-> Then[call], user |-> u]]
    /\ moves' = moves + 1
    /\ UNCHANGED <<env, life, backend, known, sendVars, rx, holdVars, countVars, frames>>

At(s, step) == gw[s].at = step
GoTo(s, step) == gw' = [gw EXCEPT ![s] = IF step = "idle" THEN Idle ELSE [@ EXCEPT !.at = step]]

BackendAdds(s) ==
    /\ At(s, "add")
    /\ backend' = [backend EXCEPT ![s] = IF life[s] = "open" THEN @ \cup {gw[s].user} ELSE @]
    /\ GoTo(s, Then["add"])
    /\ UNCHANGED <<env, life, known, sendVars, rx, holdVars, countVars, moves, frames>>

\* Slip: a repeated add counts again.
TakesHoldAlways(s) == TRUE

TakesHold(s) == gw[s].user \notin known[s]

\* A user that was known already is not kept again.
Remember(s) ==
    /\ At(s, "remember")
    /\ known' = [known EXCEPT ![s] = @ \cup {gw[s].user}]
    /\ GoTo(s, IF TakesHold(s) THEN Then["remember"] ELSE Then["keep"])
    /\ UNCHANGED <<env, life, backend, sendVars, rx, holdVars, countVars, moves, frames>>

Keep(s) ==
    /\ At(s, "keep")
    /\ holders' = [holders EXCEPT ![gw[s].user] = @ + 1]
    /\ retiring' = retiring \ {gw[s].user}
    /\ GoTo(s, Then["keep"])
    /\ UNCHANGED <<env, life, backend, known, sendVars, rx, countVars, moves, frames>>

\* Slip: a user the session never held is released as well.
DropsHoldAlways(s) == TRUE

DropsHold(s) == gw[s].user \in known[s]

Forget(s) ==
    /\ At(s, "forget")
    /\ known' = [known EXCEPT ![s] = @ \ {gw[s].user}]
    /\ GoTo(s, IF DropsHold(s) THEN Then["forget"] ELSE Then["retire"])
    /\ UNCHANGED <<env, life, backend, sendVars, rx, holdVars, countVars, moves, frames>>

\* Slip: the first session that drops a user retires its series.
ReleasedAtOnce(u) == 0

Released(u) == holders[u] - 1

Retire(s) ==
    LET u == gw[s].user IN
    /\ At(s, "retire")
    /\ holders' = [holders EXCEPT ![u] = Released(u)]
    /\ retiring' = IF Released(u) > 0 THEN retiring ELSE retiring \cup {u}
    /\ GoTo(s, Then["retire"])
    /\ UNCHANGED <<env, life, backend, known, sendVars, rx, countVars, moves, frames>>

BackendRemoves(s) ==
    /\ At(s, "remove")
    /\ backend' = [backend EXCEPT ![s] = @ \ {gw[s].user}]
    /\ GoTo(s, Then["remove"])
    /\ UNCHANGED <<env, life, known, sendVars, rx, holdVars, countVars, moves, frames>>

-----------------------------------------------------------------------------
(* The receive goroutine of a session: Decrypt *)

InFrame(s, to) == rx' = [rx EXCEPT ![s] = to]
OnlyRx == UNCHANGED <<env, sessionVars, sendVars, holdVars, moves>>

\* Decrypt looks the sender up.  disgo names a sender it has been told of.
Receive(s, u) ==
    /\ life[s] = "open"
    /\ rx[s].at = "idle" /\ frames < env.frames
    /\ \/ u = Unknown
       \/ "LateFrames" \in env.allows
       \/ u \in known[s] /\ ~(At(s, "forget") /\ gw[s].user = u)
    /\ frames' = frames + 1
    /\ InFrame(s, [NoFrame EXCEPT !.at = IF u \in known[s] THEN "known" ELSE "unknown", !.user = u])
    /\ OnlyRx /\ UNCHANGED countVars

Concluded(s, outcome) == InFrame(s, [rx[s] EXCEPT !.at = "count", !.outcome = outcome])

\* The backend's part.  It reports success of a frame it has no decryptor for.
Delegate(s) ==
    /\ rx[s].at = "known"
    /\ \/ Concluded(s, "success")
       \/ rx[s].user \in backend[s] /\ Concluded(s, "failure")
    /\ OnlyRx /\ UNCHANGED <<countVars, frames>>

\* A sender without a decryptor: ciphertext is dropped, plain Opus is passed.
PassOrDrop(s) ==
    /\ rx[s].at = "unknown"
    /\ Concluded(s, IF crypt[s] = "waiting" THEN "passthrough" ELSE "dropped")
    /\ OnlyRx /\ UNCHANGED <<countVars, frames>>

KeyOf(s) == <<rx[s].user, rx[s].outcome>>

\* lookup makes the counter on its first use ...
Lookup(s) ==
    /\ rx[s].at = "count"
    /\ counters' = [k \in DOMAIN counters \cup {KeyOf(s)} |->
                        IF k \in DOMAIN counters THEN counters[k] ELSE 0]
    /\ InFrame(s, [rx[s] EXCEPT !.at = "add"])
    /\ OnlyRx /\ UNCHANGED <<retired, collector, frames>>

\* ... and it is increased outside the lock, when it may have left the map.
Count(s) ==
    /\ rx[s].at = "add"
    /\ counters' = IF rx[s].lost THEN counters ELSE [counters EXCEPT ![KeyOf(s)] = @ + 1]
    /\ InFrame(s, NoFrame)
    /\ OnlyRx /\ UNCHANGED <<retired, collector, frames>>

-----------------------------------------------------------------------------
(* The send goroutine of a session, and the readiness of its backend *)

Turn(s, to) ==
    /\ turns < env.turns /\ life[s] = "open" /\ to # crypt[s]
    /\ crypt' = [crypt EXCEPT ![s] = to]
    /\ turns' = turns + 1
    /\ UNCHANGED <<env, sessionVars, fails, reported, rx, holdVars, countVars, moves, frames>>

Alone(s) == known[s] = {}

\* Slip: only a failed Encrypt counts, an unsent frame does not.
CountsAsFailureEncryptOnly(s) == crypt[s] = "failing"

\* Encrypt failed, or the frame was dropped unsent before people who would hear it.
CountsAsFailure(s) == crypt[s] = "failing" \/ (crypt[s] = "waiting" /\ ~Alone(s))

\* One frame of speech is due: Ready, then Encrypt or RecordUnsentFrame.
Tick(s) ==
    LET n == (fails[s] + 1) % StallFrames IN
    /\ "Sending" \in env.allows /\ life[s] = "open"
    /\ fails' = [fails EXCEPT ![s] = IF crypt[s] = "ready" THEN 0
                                     ELSE IF CountsAsFailure(s) THEN n ELSE @]
    /\ reported' = [reported EXCEPT ![s] = CountsAsFailure(s) /\ n = 0]
    /\ UNCHANGED <<env, sessionVars, crypt, turns, rx, holdVars, countVars, moves, frames>>

-----------------------------------------------------------------------------
(* The collector: observe *)

Live(o) == {k \in DOMAIN counters : k[2] = o}
TotalOf(o) == retired[o] + MapThenSumSet(LAMBDA k : counters[k], Live(o))

\* The totals are exported.
Observe ==
    /\ collector = "rest"
    /\ collector' = "evict"
    /\ UNCHANGED <<env, sessionVars, sendVars, rx, holdVars, counters, retired, moves, frames>>

\* Slip: the counts of evicted senders are dropped.
RetiredNow(o) == retired[o]

\* The final counts of the senders being evicted are kept.
RetiredWith(o) ==
    retired[o] + MapThenSumSet(LAMBDA k : counters[k], {k \in Live(o) : k[1] \in retiring})

EvictRetired ==
    /\ collector = "evict"
    /\ retired' = [o \in Outcomes |-> RetiredWith(o)]
    /\ counters' = [k \in {k \in DOMAIN counters : k[1] \notin retiring} |-> counters[k]]
    /\ rx' = [s \in Sessions |-> IF rx[s].at = "add" /\ rx[s].user \in retiring
                                 THEN [rx[s] EXCEPT !.lost = TRUE] ELSE rx[s]]
    /\ retiring' = {}
    /\ collector' = "rest"
    /\ UNCHANGED <<env, sessionVars, sendVars, holders, moves, frames>>

-----------------------------------------------------------------------------
(* The specification *)

Gateway(s) == BackendAdds(s) \/ Remember(s) \/ Keep(s) \/ Forget(s) \/ Retire(s) \/ BackendRemoves(s)
Decrypt(s) == Delegate(s) \/ PassOrDrop(s) \/ Lookup(s) \/ Count(s)

Next ==
    \/ \E s \in Sessions :
          \/ SessionCloses(s) \/ Gateway(s) \/ Decrypt(s) \/ Tick(s)
          \/ \E u \in Users, call \in {"AddUser", "RemoveUser"} : GatewayCalls(s, u, call)
          \/ \E u \in Senders : Receive(s, u)
          \/ \E to \in {"waiting", "ready", "failing"} : Turn(s, to)
    \/ Observe \/ EvictRetired

Spec == Init /\ [][Next]_vars

\* A call that has begun ends, speech keeps coming, and collections recur.
FairSpec ==
    /\ Spec
    /\ \A s \in Sessions : WF_vars(Gateway(s)) /\ WF_vars(Decrypt(s)) /\ WF_vars(Tick(s))
    /\ WF_vars(Observe) /\ WF_vars(EvictRetired)

-----------------------------------------------------------------------------
(* Properties *)

\* While a session is open its mirror names only users the backend certainly has
\* a decryptor for, at every point of AddUser and RemoveUser (session.go:269-276).
KnownIsConservative ==
    \A s \in Sessions : life[s] = "open" => known[s] \subseteq backend[s]

\* A session has a hold on the user's series.
Holds(s, u) ==
    \/ u \in known[s] /\ ~(At(s, "keep") /\ gw[s].user = u)
    \/ At(s, "retire") /\ gw[s].user = u

\* The reference count is the number of sessions that hold the user, whatever
\* the sessions' goroutines do between mirror and count, and no series of a user
\* that is held is about to be evicted (stats.go:130-134).
HoldersCount ==
    \A u \in Users :
        /\ holders[u] = Cardinality({s \in Sessions : Holds(s, u)})
        /\ u \in retiring => holders[u] = 0

\* What the sessions and the shared statistics know of the users agrees, in every
\* state: the types, the mirrors with the backends, the counts with the mirrors
\* (countingSession, Stats).
SessionsAgree == TypeOK /\ KnownIsConservative /\ HoldersCount

\* The totals never move downwards: no eviction reads as a counter reset, whatever
\* the sessions do meanwhile (stats.go:144-147).
ExportIsMonotone == [][\A o \in Outcomes : TotalOf(o)' >= TotalOf(o)]_vars

\* No open session has the user.
Left(u) == \A s \in Sessions : life[s] = "open" => u \notin known[s]
NoSeries(u) == \A k \in DOMAIN counters : k[1] # u

\* The series of a user that has left every session are removed, "nothing else
\* would ever remove them" (stats.go:124-128), where nobody's frames come late
\* and no connection is closed with users in it.
LeaversAreForgotten ==
    \A u \in Users :
        Left(u) /\ env.allows \cap {"LateFrames", "CloseInCompany"} = {}
            ~> NoSeries(u) \/ ~Left(u)

\* The same of connections that close while users are in their channel.
LeaversOfClosedAreForgotten ==
    \A u \in Users : Left(u) /\ "LateFrames" \notin env.allows ~> NoSeries(u) \/ ~Left(u)

\* A bot that others are with and that cannot encrypt is reported, and reported
\* again as long as that lasts (WithEncryptStall), however it came about.
Mute(s) == "Sending" \in env.allows /\ life[s] = "open" /\ crypt[s] # "ready" /\ ~Alone(s)
SilenceIsReported == \A s \in Sessions : Mute(s) ~> reported[s] \/ ~Mute(s)

\* No frame is delegated to a backend that has lost the sender meanwhile, to be
\* "counted as a success and silently replaced with silence" (session.go:275-276).
NoFrameSilenced ==
    \A s \in Sessions : life[s] = "open" /\ rx[s].at = "known" => rx[s].user \in backend[s]
=============================================================================
