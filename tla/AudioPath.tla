----------------------------- MODULE AudioPath -----------------------------
(***************************************************************************)
(* The way of an Opus packet through one destination channel: the bot's    *)
(* VoiceReceiver dispatches it raw to the speakers' queues (copy mode) or  *)
(* decoded to a ring per user (mix mode), a relay bridge feeds a ring of   *)
(* its own, the mixer's tick empties the rings and emits, and a            *)
(* VoiceProvider per speaker takes the packets off its queue.  Meanwhile   *)
(* the router switches modes.  The five goroutines share no lock; what     *)
(* they hand on are buffers of two pools, and a buffer must have one owner *)
(* at a time or two packets end up in the same memory.                     *)
(***************************************************************************)
EXTENDS Sequences, FiniteSets, SourceBuffer

CONSTANTS
    Users,        \* the users whose packets the receiver gets
    Outs,         \* the speakers' queues of this channel, a sequence
    Bufs,         \* bound: the names of buffers
    ProviderDrainThreshold,  \* providerDrainThreshold
    MaxPackets,   \* bound: packets received from Discord
    MaxRelayed,   \* bound: packets that come over the relay
    MaxSwitches   \* bound: how often the router installs a mode

ASSUME AudioConstants ==
    /\ ProviderDrainThreshold \in Nat \ {0}
    /\ MaxPackets \in Nat /\ MaxRelayed \in Nat /\ MaxSwitches \in Nat
    /\ None \notin Users \cup Bufs
    /\ Outs # <<>> /\ Outs \in Seq({Outs[i] : i \in DOMAIN Outs})

\* The capacity of a queue is the soft threshold, the hard one is its double.
AudioChanBuf == ProviderDrainThreshold
ProviderHardDrainThreshold == 2 * ProviderDrainThreshold

Relay == <<None, 0>>
Rings == (Users \X {0, 1}) \cup {Relay}
OutSet == {Outs[i] : i \in DOMAIN Outs}
Frames == [buf : Bufs, pcm : BOOLEAN]

VARIABLES
    pool, pcmPool,  \* the buffers in the two pools, those still to be allocated
                    \* included: an empty sync.Pool makes a new one
    twice,          \* a buffer was returned that was in the pool already
    ring,           \* the SourceBuffers; a mix install makes a new one per user,
                    \* so every user has two names for them, used in turn
    inputs,         \* Mixer.inputsSnap
    paused,         \* Mixer.paused
    install,        \* FanoutHandle.state
    tick,           \* the mixer goroutine
    recv,           \* the receiver's dispatch, and its same-user cache
    bridge,         \* the relay bridge and its input queue
    out,            \* the speakers' queues
    prov,           \* VoiceProvider.prev, the packet being sent
    closed,         \* the teardown has closed them
    switch,         \* the router's applyModes
    stray,          \* packets the goroutine that lost a queue still put into it
    packets, relayed, switches

pools == <<pool, pcmPool, twice>>
bounds == <<packets, relayed, switches>>
vars == <<pools, ring, inputs, paused, install, tick, recv, bridge, out, prov,
          closed, switch, stray, bounds>>

Off == [ver |-> 0, mode |-> "off", users |-> {}, gen |-> 0]
NoTick == [pc |-> "idle", paused |-> FALSE, entries |-> {}, frames |-> {}, pkt |-> None, at |-> 0]
NoCache == [ver |-> 0, user |-> None, rings |-> {}]
NoDispatch == [pc |-> "idle", user |-> None, in |-> Off, rings |-> {}, at |-> 0]

Init ==
    /\ pool = Bufs /\ pcmPool = Bufs /\ twice = FALSE
    /\ ring = [r \in Rings |-> NewSourceBuffer]
    /\ inputs = {Relay}
    /\ paused = FALSE
    /\ install = Off
    /\ tick = NoTick
    /\ recv = [run |-> NoDispatch, cache |-> NoCache]
    /\ bridge = [queue |-> <<>>, pkt |-> None]
    /\ out = [o \in OutSet |-> <<>>]
    /\ prov = [o \in OutSet |-> None]
    /\ closed = FALSE
    /\ switch = [pc |-> "idle", to |-> Off]
    /\ stray = [tick |-> 0, recv |-> 0]
    /\ packets = 0 /\ relayed = 0 /\ switches = 0

---------------------------------------------------------------------------
(* The pools *)

\* Where a buffer is.
InRings(b) == {<<"ring", r>> : r \in {x \in Rings : b \in Held(ring[x])}}
InTick(b) == {<<"tick", f>> : f \in {x \in tick.frames : x.buf = b}}
InPackets(b) == {<<"pkt", x>> : x \in {tick.pkt} \cap {b}}
InBridge(b) == {<<"bridge", x>> : x \in {bridge.pkt} \cap {b}}
InRelay(b) == {<<"relay", i>> : i \in {j \in DOMAIN bridge.queue : bridge.queue[j] = b}}
InQueues(b) == UNION {{<<"out", o, i>> : i \in {j \in DOMAIN out[o] : out[o][j] = b}} : o \in OutSet}
InProviders(b) == {<<"prev", o>> : o \in {x \in OutSet : prov[x] = b}}

Holders(b) == InRings(b) \cup InTick(b) \cup InPackets(b) \cup InBridge(b) \cup InRelay(b)
                \cup InQueues(b) \cup InProviders(b)
PCMHolders(b) == InRings(b) \cup InTick(b)

\* getRecvFrame, getEncodedFrame and GetPCM.  A frame's PCM buffer goes by the
\* name of its Opus buffer.
ForFrame == pool \cap pcmPool

\* PutEncodedFrame and PutPCM of a step that takes the buffers of got.
Pools(got, put, gotPCM, putPCM) ==
    /\ pool' = (pool \ got) \cup put
    /\ pcmPool' = (pcmPool \ gotPCM) \cup putPCM
    /\ twice' = (twice \/ put \cap (pool \ got) # {} \/ putPCM \cap (pcmPool \ gotPCM) # {})

---------------------------------------------------------------------------
(* The receiver: ReceiveOpusFrame, dispatchFanout, CleanupUser *)

RingOf(in, u) == IF in.mode = "mix" /\ u \in in.users THEN {<<u, in.gen>>} ELSE {}

\* The same-user cache; the mutant forgets to compare the install.
CachedByUser(in, u) ==
    IF recv.cache.user = u THEN recv.cache
                           ELSE [ver |-> in.ver, user |-> u, rings |-> RingOf(in, u)]

Cached(in, u) ==
    IF recv.cache.ver = in.ver /\ recv.cache.user = u
      THEN recv.cache
      ELSE [ver |-> in.ver, user |-> u, rings |-> RingOf(in, u)]

Receive(u) ==
    /\ recv.run.pc = "idle" /\ packets < MaxPackets
    /\ install.mode # "off"
    /\ packets' = packets + 1
    /\ recv' = [run |-> [pc |-> "send", user |-> u, in |-> install,
                         rings |-> Cached(install, u).rings,
                         at |-> IF install.mode = "copy" THEN 1 ELSE Len(Outs) + 1],
                cache |-> Cached(install, u)]
    /\ UNCHANGED <<closed, pools, ring, inputs, paused, install, tick, bridge, out, prov, switch,
                   stray, relayed, switches>>

\* One raw target: a pooled copy is queued, or returned when the queue is full.
SendRaw ==
    /\ recv.run.pc = "send" /\ recv.run.at <= Len(Outs)
    /\ \E b \in pool :
         LET o == Outs[recv.run.at]
             fits == Len(out[o]) < AudioChanBuf
         IN /\ out' = [out EXCEPT ![o] = IF fits THEN Append(@, b) ELSE @]
            /\ Pools({b}, IF fits THEN {} ELSE {b}, {}, {})
            /\ stray' = [stray EXCEPT !.recv =
                 IF fits /\ recv.run.at = 1 /\ recv.run.in.ver # install.ver /\ ~paused
                   THEN @ + 1 ELSE @]
    /\ recv' = [recv EXCEPT !.run.at = @ + 1]
    /\ UNCHANGED <<closed, ring, inputs, paused, install, tick, bridge, prov, switch, bounds>>

\* The decoded targets: every ring gets a PCM and an Opus copy of its own.  A
\* packet may fail to decode, or decode to nothing.
FeedUser ==
    /\ recv.run.pc = "send" /\ recv.run.at > Len(Outs)
    /\ \/ UNCHANGED <<pools, ring>>
       \/ \E r \in recv.run.rings, b \in ForFrame, pcm \in BOOLEAN :
            /\ ring' = [ring EXCEPT ![r] = Feed(@, [buf |-> b, pcm |-> pcm])]
            /\ Pools({b}, Evicted(ring[r]), {b}, Evicted(ring[r]))
    /\ recv' = [recv EXCEPT !.run = NoDispatch]
    /\ UNCHANGED <<closed, inputs, paused, install, tick, bridge, out, prov, switch, stray, bounds>>

CleanupUser(u) ==
    /\ recv.cache.user = u
    /\ recv' = [recv EXCEPT !.cache = NoCache]
    /\ UNCHANGED <<closed, pools, ring, inputs, paused, install, tick, bridge, out, prov, switch,
                   stray, bounds>>

---------------------------------------------------------------------------
(* The relay bridge of RegisterRelayInputs *)

\* External: the session broadcasts a packet of another guild into the queue.
RelayArrives ==
    /\ relayed < MaxRelayed /\ Len(bridge.queue) < AudioChanBuf
    /\ relayed' = relayed + 1
    /\ \E b \in pool : /\ bridge' = [bridge EXCEPT !.queue = Append(@, b)]
                       /\ Pools({b}, {}, {}, {})
    /\ UNCHANGED <<closed, ring, inputs, paused, install, tick, recv, out, prov, switch, stray,
                   packets, switches>>

BridgeTakes ==
    /\ bridge.pkt = None /\ bridge.queue # <<>>
    /\ bridge' = [queue |-> Tail(bridge.queue), pkt |-> Head(bridge.queue)]
    /\ UNCHANGED <<closed, pools, ring, inputs, paused, install, tick, recv, out, prov, switch,
                   stray, bounds>>

\* Decode, feed a copy (unless the packet does not decode), return the packet.
BridgeFeeds ==
    /\ bridge.pkt # None
    /\ \/ /\ Pools({}, {bridge.pkt}, {}, {})
          /\ UNCHANGED ring
       \/ \E b \in ForFrame :
            /\ ring' = [ring EXCEPT ![Relay] = Feed(@, [buf |-> b, pcm |-> TRUE])]
            /\ Pools({b}, {bridge.pkt} \cup Evicted(ring[Relay]), {b}, Evicted(ring[Relay]))
    /\ bridge' = [bridge EXCEPT !.pkt = None]
    /\ UNCHANGED <<closed, inputs, paused, install, tick, recv, out, prov, switch, stray, bounds>>
---------------------------------------------------------------------------
(* The mixer: tick, collectFrames, mixAndEncode, emit to the channel's sink *)

TickStart ==
    /\ tick.pc = "idle"
    /\ tick' = [NoTick EXCEPT !.pc = "collect", !.paused = paused, !.entries = inputs]
    /\ UNCHANGED <<closed, pools, ring, inputs, paused, install, recv, bridge, out, prov, switch,
                   stray, bounds>>

\* A running mixer takes one frame of the input and returns the buffers of one
\* without samples; a paused one empties the input.
Collect(r) ==
    /\ tick.pc = "collect" /\ r \in tick.entries
    /\ LET f == Oldest(ring[r])
           left == tick.entries \ {r}
       IN \/ /\ tick.paused
             /\ ring' = [ring EXCEPT ![r] = NewSourceBuffer]
             /\ Pools({}, Held(ring[r]), {}, Held(ring[r]))
             /\ tick' = [tick EXCEPT !.entries = left]
          \/ /\ ~tick.paused /\ ring[r].n = 0
             /\ tick' = [tick EXCEPT !.entries = left]
             /\ UNCHANGED <<pools, ring>>
          \/ /\ ~tick.paused /\ ring[r].n > 0
             /\ ring' = [ring EXCEPT ![r] = Pop(@)]
             /\ tick' = [tick EXCEPT !.entries = left,
                                     !.frames = IF f.pcm THEN @ \cup {f} ELSE @]
             /\ IF f.pcm THEN UNCHANGED pools ELSE Pools({}, {f.buf}, {}, {f.buf})
    /\ UNCHANGED <<closed, inputs, paused, install, recv, bridge, out, prov, switch, stray, bounds>>

\* Nothing to play ends the tick; one frame is passed on as it is; several are
\* mixed into a new packet (or the encoder fails).  The code leaves their Opus
\* buffers to the garbage collector, which makes their names free again.
TickMix ==
    /\ tick.pc = "collect" /\ tick.entries = {}
    /\ LET held == {f.buf : f \in tick.frames}
           emit(b) == [NoTick EXCEPT !.pc = "emit", !.pkt = b, !.at = 1]
       IN \/ /\ tick.frames = {}
             /\ tick' = NoTick
             /\ UNCHANGED pools
          \/ /\ Cardinality(tick.frames) = 1
             /\ \E b \in held : tick' = emit(b)
             /\ Pools({}, {}, {}, held)
          \/ /\ Cardinality(tick.frames) > 1
             /\ tick' = NoTick
             /\ Pools({}, held, {}, held)
          \/ /\ Cardinality(tick.frames) > 1
             /\ \E b \in pool : /\ tick' = emit(b)
                                /\ Pools({b}, held, {}, held)
    /\ UNCHANGED <<closed, ring, inputs, paused, install, recv, bridge, out, prov, switch, stray,
                   bounds>>

\* StartChannelMixers' sink: a copy for every queue but the last, which gets
\* the packet itself; what does not fit is returned.  The mutant hands the
\* packet itself to all.
Emit(copy) ==
    /\ tick.pc = "emit"
    /\ LET o == Outs[tick.at]
           last == tick.at = Len(Outs)
           own == last \/ ~copy
           fits == Len(out[o]) < AudioChanBuf
       IN /\ \E b \in IF own THEN {tick.pkt} ELSE pool :
               /\ out' = [out EXCEPT ![o] = IF fits THEN Append(@, b) ELSE @]
               /\ Pools(IF own THEN {} ELSE {b}, IF fits THEN {} ELSE {b}, {}, {})
          /\ tick' = IF last THEN NoTick ELSE [tick EXCEPT !.at = @ + 1]
          /\ stray' = [stray EXCEPT !.tick =
               IF fits /\ tick.at = 1 /\ install.mode = "copy" THEN @ + 1 ELSE @]
    /\ UNCHANGED <<closed, ring, inputs, paused, install, recv, bridge, prov, switch, bounds>>

TickEmitsShared == Emit(FALSE)
TickEmits == Emit(TRUE)

---------------------------------------------------------------------------
(* The providers *)

\* How many of the packets queued behind the one just read are skipped.
Bleed(depth) ==
    CASE depth > ProviderHardDrainThreshold -> depth - ProviderDrainThreshold
      [] depth > ProviderDrainThreshold /\ depth <= ProviderHardDrainThreshold -> 1
      [] OTHER -> 0

\* ProvideOpusFrame: the previous packet has been sent, its buffer goes back;
\* then the next one is read, the queue bled off, and the newest one read
\* handed over.  (With the provider closed and a packet there, Go's select may
\* take either.)
ProvideOpusFrame(o) ==
    /\ out[o] # <<>>
    /\ LET n == Bleed(Len(out[o]) - 1)
       IN /\ prov' = [prov EXCEPT ![o] = out[o][n + 1]]
          /\ Pools({}, ({prov[o]} \ {None}) \cup {out[o][i] : i \in 1 .. n}, {}, {})
          /\ out' = [out EXCEPT ![o] = SubSeq(@, n + 2, Len(@))]
    /\ UNCHANGED <<closed, ring, inputs, paused, install, tick, recv, bridge, switch, stray,
                   bounds>>

ProvideFails(o) ==
    /\ closed
    /\ prov' = [prov EXCEPT ![o] = None]
    /\ Pools({}, {prov[o]} \ {None}, {}, {})
    /\ UNCHANGED <<closed, ring, inputs, paused, install, tick, recv, bridge, out, switch,
                   stray, bounds>>

DiscardFrame(o) ==
    /\ out[o] # <<>>
    /\ out' = [out EXCEPT ![o] = Tail(@)]
    /\ Pools({}, {Head(out[o])}, {}, {})
    /\ UNCHANGED <<closed, ring, inputs, paused, install, tick, recv, bridge, prov, switch,
                   stray, bounds>>

\* The teardown has silenced the source (Router.Close installs nothing) before
\* it closes the providers.
CloseProviders ==
    /\ ~closed /\ switch.pc = "idle" /\ install.mode = "off" /\ install.ver > 0
    /\ closed' = TRUE
    /\ UNCHANGED <<pools, ring, inputs, paused, install, tick, recv, bridge, out, prov, switch,
                   stray, bounds>>

---------------------------------------------------------------------------
(* The router's applyModes for this source and destination *)

UserRings(in) == IF in.mode = "mix" THEN {<<u, in.gen>> : u \in in.users} ELSE {}

\* A new mode, or other users to mix; a mixer that is to stop is paused first.
\* The rings' names are free again when no goroutine holds the ones of two
\* installs ago.  The mutant leaves the mixer running.
Begins(mode, users) ==
    /\ switch.pc = "idle" /\ switches < MaxSwitches /\ ~closed
    /\ IF mode = "mix" THEN users # {} ELSE users = {}
    /\ mode # install.mode \/ users # install.users
    /\ LET g == 1 - install.gen
       IN /\ \A u \in Users : <<u, g>> \notin recv.run.rings \cup tick.entries
          /\ switch' = [pc |-> "teardown",
                        to |-> [ver |-> switches + 1, mode |-> mode, users |-> users, gen |-> g]]
    /\ switches' = switches + 1
    /\ UNCHANGED <<closed, pools, ring, inputs, install, tick, recv, bridge, out, prov, stray,
                   packets, relayed>>

SwitchToUnpaused(mode, users) == Begins(mode, users) /\ UNCHANGED paused

SwitchTo(mode, users) == Begins(mode, users) /\ paused' = (paused \/ mode # "mix")

\* The previous install's teardown detaches its rings and empties them; a tick
\* that has taken its snapshot, or a dispatch that has loaded the install, may
\* still use them.
Teardown ==
    /\ switch.pc = "teardown"
    /\ inputs' = inputs \ UserRings(install)
    /\ LET put == UNION {Held(ring[r]) : r \in UserRings(install)}
       IN Pools({}, put, {}, put)
    /\ ring' = [r \in Rings |-> IF r \in UserRings(install) THEN NewSourceBuffer ELSE ring[r]]
    /\ switch' = [switch EXCEPT !.pc = "install"]
    /\ UNCHANGED <<closed, paused, install, tick, recv, bridge, out, prov, stray, bounds>>

\* buildPerUserMixSpec attaches new rings; what a late dispatch left in the
\* old ones of that name is garbage.  Then Install.
Install ==
    /\ switch.pc = "install"
    /\ LET new == UserRings(switch.to)
           gone == UNION {Held(ring[r]) : r \in new}
       IN /\ ring' = [r \in Rings |-> IF r \in new THEN NewSourceBuffer ELSE ring[r]]
          /\ inputs' = inputs \cup new
          /\ Pools({}, gone, {}, gone)
    /\ install' = switch.to
    /\ stray' = [tick |-> 0, recv |-> 0]
    /\ switch' = [switch EXCEPT !.pc = "resume"]
    /\ UNCHANGED <<closed, paused, tick, recv, bridge, out, prov, bounds>>

Resume ==
    /\ switch.pc = "resume"
    /\ paused' = (install.mode # "mix")
    /\ switch' = [pc |-> "idle", to |-> Off]
    /\ UNCHANGED <<closed, pools, ring, inputs, install, tick, recv, bridge, out, prov, stray, bounds>>

---------------------------------------------------------------------------
Next ==
    \/ \E u \in Users : Receive(u) \/ CleanupUser(u)
    \/ SendRaw \/ FeedUser
    \/ RelayArrives \/ BridgeTakes \/ BridgeFeeds
    \/ TickStart \/ (\E r \in Rings : Collect(r)) \/ TickMix \/ TickEmits
    \/ \E o \in OutSet : ProvideOpusFrame(o) \/ ProvideFails(o) \/ DiscardFrame(o)
    \/ CloseProviders
    \/ \E mode \in {"off", "copy", "mix"}, users \in SUBSET Users : SwitchTo(mode, users)
    \/ Teardown \/ Install \/ Resume

Spec == Init /\ [][Next]_vars

---------------------------------------------------------------------------
Slots == Frames \cup {NoFrame}
SourceBuffers == [buf : [0 .. Cap - 1 -> Slots], head : 0 .. Cap - 1, n : 0 .. Cap]
Installs == [ver : 0 .. MaxSwitches, mode : {"off", "copy", "mix"}, users : SUBSET Users, gen : {0, 1}]
Ticks == [pc : {"idle", "collect", "emit"}, paused : BOOLEAN, entries : SUBSET Rings,
          frames : SUBSET Frames, pkt : Bufs \cup {None}, at : 0 .. Len(Outs)]
Dispatches == [pc : {"idle", "send"}, user : Users \cup {None}, in : Installs,
               rings : SUBSET Rings, at : 0 .. Len(Outs) + 1]
Caches == [ver : 0 .. MaxSwitches, user : Users \cup {None}, rings : SUBSET Rings]

\* The variables have their types, and no queue or ring exceeds its capacity.
TypeOK ==
    /\ pool \subseteq Bufs /\ pcmPool \subseteq Bufs /\ twice \in BOOLEAN
    /\ ring \in [Rings -> SourceBuffers]
    /\ inputs \subseteq Rings /\ paused \in BOOLEAN /\ closed \in BOOLEAN
    /\ install \in Installs
    /\ switch \in [pc : {"idle", "teardown", "install", "resume"}, to : Installs]
    /\ tick \in Ticks
    /\ recv \in [run : Dispatches, cache : Caches]
    /\ bridge \in [queue : Seq(Bufs), pkt : Bufs \cup {None}]
    /\ Len(bridge.queue) <= AudioChanBuf
    /\ out \in [OutSet -> Seq(Bufs)] /\ \A o \in OutSet : Len(out[o]) <= AudioChanBuf
    /\ prov \in [OutSet -> Bufs \cup {None}]
    /\ stray \in [tick : Nat, recv : Nat]
    /\ packets \in 0 .. MaxPackets /\ relayed \in 0 .. MaxRelayed /\ switches \in 0 .. MaxSwitches

\* A pooled buffer has one owner: whatever is evicted, drained, skipped,
\* passed through, copied for a second speaker or returned by a provider, no
\* buffer is in two places, in a place and in its pool, or returned twice
\* (helpers.go:61-64, voice_receiver.go:320-322, source.go:57-72).
OneOwner ==
    /\ ~twice
    /\ \A b \in Bufs :
         /\ Cardinality(Holders(b)) + Cardinality(pool \cap {b}) <= 1
         /\ Cardinality(PCMHolders(b)) + Cardinality(pcmPool \cap {b}) <= 1

\* A packet being dispatched goes to the ring its own install has for its own
\* user, whatever was installed or cleaned up since the cache was filled
\* (voice_receiver.go:193-197).
FedToItsRing ==
    recv.run.pc = "send" => recv.run.rings = RingOf(recv.run.in, recv.run.user)

\* What holds of the buffers in every state: the types, one owner of each pooled
\* buffer (helpers.go), each packet in the ring of its own user (voice_receiver.go).
AudioPathInv == TypeOK /\ OneOwner /\ FedToItsRing

\* After a switch the goroutine that lost the speakers' queues puts at most
\* the packet it was working on into them (router.go:476-481): pausing before
\* the install and resuming after it leaves no other overlap of raw and mixed.
AtMostOneStray == stray.tick <= 1 /\ stray.recv <= 1

\* While the raw packets of a copy-mode source go to a queue, the mixer puts
\* nothing into it (router.go:476-481).
NoStray == stray.tick = 0

\* The bleed-off "engages exactly when the buffer fills" (voice_provider.go:41-44):
\* a provider that finds its queue full skips a packet, so that the queue gets
\* shorter than the one packet taken makes it.
BleedsWhenFull ==
    [][\A o \in OutSet : ProvideOpusFrame(o) /\ Len(out[o]) = AudioChanBuf =>
          Len(out'[o]) < AudioChanBuf - 1]_vars

\* The rings implement the queues of FrameQueues.
Queues == INSTANCE FrameQueues WITH
    Sources <- Rings, queue <- [r \in Rings |-> Contents(ring[r])]
RingsAreQueues == Queues!Spec
=============================================================================
