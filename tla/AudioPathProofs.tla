---------------------------- MODULE AudioPathProofs ----------------------------
(***************************************************************************)
(* That a pooled buffer on its way through a destination channel has one   *)
(* owner at any time, whatever the receiver, the bridge, the mixer, the    *)
(* providers and the router do between each other's steps; that a switch   *)
(* of modes lets at most one packet stray; and that the rings behave as    *)
(* queues.  For any sets of users, buffers and speakers and any capacity.  *)
(***************************************************************************)
EXTENDS AudioPath, FiniteSetTheorems, SequenceTheorems, TLAPS

\* The slot of the j-th entry, the oldest being the 0-th.
Nth(s, j) == IF s.head + j < Cap THEN s.head + j ELSE s.head + j - Cap

\* The entries are in the slots they are counted in, nothing is anywhere else,
\* and no buffer is in two slots.
RingOK(s) ==
    /\ \A j \in 0 .. Cap - 1 : s.buf[Nth(s, j)] \in Frames <=> j < s.n
    /\ \A i, j \in 0 .. Cap - 1 : s.buf[i] \in Frames /\ s.buf[j].buf = s.buf[i].buf => i = j

RingsOK == \A r \in Rings : RingOK(ring[r])

\* Only the holder named by k, x and y may have the Opus buffer b.
OwnedBy(k, x, y, b) ==
    /\ b \in pool => k = "pool"
    /\ \A r \in Rings : b \in Held(ring[r]) => k = "ring" /\ x = r
    /\ \A f \in tick.frames : f.buf = b => k = "tick" /\ x = f
    /\ tick.pkt = b => k = "pkt"
    /\ bridge.pkt = b => k = "bridge"
    /\ \A i \in 1 .. Len(bridge.queue) : bridge.queue[i] = b => k = "relay" /\ x = i
    /\ \A o \in OutSet : /\ \A i \in 1 .. Len(out[o]) : out[o][i] = b => k = "out" /\ x = o /\ y = i
                         /\ prov[o] = b => k = "prev" /\ x = o

PCMOwnedBy(k, x, b) ==
    /\ b \in pcmPool => k = "pool"
    /\ \A r \in Rings : b \in Held(ring[r]) => k = "ring" /\ x = r
    /\ \A f \in tick.frames : f.buf = b => k = "tick" /\ x = f

Owned == \A b \in Bufs : \E k, x, y : OwnedBy(k, x, y, b)
PCMOwned == \A b \in Bufs : \E k, x : PCMOwnedBy(k, x, b)

\* What the mixer goroutine has in hand, depending on where it is.
TickInv ==
    /\ IF tick.pc = "emit" THEN tick.pkt \in Bufs /\ tick.at \in 1 .. Len(Outs) ELSE tick.pkt = None
    /\ tick.pc # "collect" \/ tick.paused => tick.frames = {}
    /\ IsFiniteSet(tick.frames)

\* A cache that is hit is that of the install that is read.
CacheInv ==
    /\ recv.cache.ver <= install.ver /\ install.ver <= switches
    /\ switch.pc \in {"teardown", "install"} => install.ver < switch.to.ver /\ switch.to.ver <= switches
    /\ recv.cache.ver = install.ver /\ recv.cache.user # None =>
          recv.cache.rings = RingOf(install, recv.cache.user)
    /\ recv.run.pc = "send" => recv.run.user \in Users /\ recv.run.at > 0
    /\ FedToItsRing

\* Who may still put a packet of the old mode into the queues.
MixerMayStray == (tick.pc = "collect" /\ ~tick.paused) \/ (tick.pc = "emit" /\ tick.at = 1)
ReceiverMayStray == recv.run.pc = "send" /\ recv.run.at = 1 /\ recv.run.in.ver # install.ver

StrayInv ==
    /\ AtMostOneStray
    /\ install.mode = "copy" => paused
    /\ switch.pc \in {"teardown", "install"} /\ switch.to.mode # "mix" => paused
    /\ install.mode = "copy" /\ MixerMayStray => stray.tick = 0
    /\ ReceiverMayStray => stray.recv = 0

PathInv ==
    /\ TypeOK /\ RingsOK /\ Owned /\ PCMOwned /\ ~twice
    /\ TickInv /\ CacheInv /\ StrayInv

-----------------------------------------------------------------------------
(***************************************************************************)
(* The ring.                                                               *)
(***************************************************************************)

LEMMA Modulus ==
  ASSUME NEW k \in 0 .. 2 * Cap - 1
  PROVE  k % Cap = IF k < Cap THEN k ELSE k - Cap
<1>1. CASE k < Cap
  BY <1>1, CapAssumption
<1>2. CASE k >= Cap
  <2>1. k = 1 * Cap + (k - Cap) /\ k - Cap \in 0 .. Cap - 1
    BY <1>2, CapAssumption
  <2> QED
    BY <1>2, <2>1, CapAssumption
<1> QED
  BY <1>1, <1>2, CapAssumption

\* An empty slot holds no buffer.
LEMMA EmptySlot == NoFrame \notin Frames /\ \A f \in Frames : f.buf \in Bufs /\ f.buf # None
BY AudioConstants DEF NoFrame, Frames

\* The frames in order are those in the counted slots.
LEMMA ContentsIs ==
  ASSUME NEW s \in SourceBuffers, RingOK(s)
  PROVE  /\ Contents(s) = [i \in 1 .. s.n |-> s.buf[Nth(s, i - 1)]]
         /\ Contents(s) \in Seq(Frames) /\ Len(Contents(s)) = s.n
<1>1. s.n \in 0 .. Cap /\ s.head \in 0 .. Cap - 1
  BY DEF SourceBuffers
<1>2. ASSUME NEW i \in 1 .. s.n PROVE (s.head + i - 1) % Cap = Nth(s, i - 1)
  <2>1. s.head + i - 1 \in 0 .. 2 * Cap - 1
    BY <1>1, CapAssumption
  <2> QED
    BY <1>1, <2>1, Modulus, CapAssumption DEF Nth
<1>3. ASSUME NEW i \in 1 .. s.n PROVE s.buf[Nth(s, i - 1)] \in Frames
  BY <1>1, CapAssumption DEF RingOK
<1>4. Contents(s) = [i \in 1 .. s.n |-> s.buf[Nth(s, i - 1)]]
  BY <1>2 DEF Contents
<1>5. Contents(s) \in [1 .. s.n -> Frames]
  BY <1>3, <1>4
<1>6. Contents(s) \in Seq(Frames)
  BY <1>1, <1>5, SeqDef
<1>7. Len(Contents(s)) \in Nat /\ DOMAIN Contents(s) = 1 .. Len(Contents(s)) /\ DOMAIN Contents(s) = 1 .. s.n
  BY <1>5, <1>6, LenProperties
<1>8. Len(Contents(s)) = s.n
  BY <1>1, <1>7
<1> QED
  BY <1>4, <1>6, <1>8

LEMMA NewRing ==
  /\ NewSourceBuffer \in SourceBuffers /\ RingOK(NewSourceBuffer)
  /\ Held(NewSourceBuffer) = {} /\ Contents(NewSourceBuffer) = <<>>
<1>1. NewSourceBuffer \in SourceBuffers
  BY CapAssumption DEF NewSourceBuffer, SourceBuffers, Slots
<1>2. RingOK(NewSourceBuffer)
  BY EmptySlot, CapAssumption DEF NewSourceBuffer, RingOK, Nth
<1>3. Held(NewSourceBuffer) = {}
  BY DEF NewSourceBuffer, Held, NoFrame
<1>4. NewSourceBuffer.n = 0
  BY DEF NewSourceBuffer
<1> QED
  BY <1>1, <1>2, <1>3, <1>4, ContentsIs, EmptySeq

\* Taking the oldest entry out (Pull, and Feed's eviction).
LEMMA PopRing ==
  ASSUME NEW s \in SourceBuffers, RingOK(s), s.n > 0
  PROVE  /\ Pop(s) \in SourceBuffers /\ RingOK(Pop(s))
         /\ Oldest(s) \in Frames /\ Oldest(s).buf \in Held(s)
         /\ Held(Pop(s)) = Held(s) \ {Oldest(s).buf}
         /\ Contents(s) # <<>> /\ Contents(Pop(s)) = Tail(Contents(s))
<1> DEFINE p == Pop(s)
<1>1. s.n \in 1 .. Cap /\ s.head \in 0 .. Cap - 1 /\ s.buf \in [0 .. Cap - 1 -> Slots]
  BY CapAssumption DEF SourceBuffers
<1>2. p.buf = [s.buf EXCEPT ![s.head] = NoFrame] /\ p.n = s.n - 1
  BY DEF Pop
<1>3. p.head = IF s.head + 1 < Cap THEN s.head + 1 ELSE 0
  BY <1>1, Modulus, CapAssumption DEF Pop
<1>4. p \in SourceBuffers
  <2>1. p.buf \in [0 .. Cap - 1 -> Slots]
    BY <1>1, <1>2 DEF Slots
  <2>2. p.head \in 0 .. Cap - 1 /\ p.n \in 0 .. Cap
    BY <1>1, <1>2, <1>3, CapAssumption
  <2> QED
    BY <2>1, <2>2 DEF SourceBuffers, Pop
<1>5. Nth(s, 0) = s.head /\ Oldest(s) = s.buf[s.head]
  BY <1>1, CapAssumption DEF Nth, Oldest
<1>6. Oldest(s) \in Frames
  BY <1>1, <1>5, CapAssumption DEF RingOK
<1> HIDE DEF p
<1>7. \A j \in 0 .. Cap - 1 :
         /\ Nth(s, j) \in 0 .. Cap - 1
         /\ j > 0 => Nth(s, j) # s.head
         /\ Nth(p, j) = IF j + 1 < Cap THEN Nth(s, j + 1) ELSE s.head
  BY SMTT(30), <1>1, <1>3, CapAssumption DEF Nth
<1>8. RingOK(p)
  <2>1. ASSUME NEW j \in 0 .. Cap - 1 PROVE p.buf[Nth(p, j)] \in Frames <=> j < p.n
    <3>1. CASE j + 1 < Cap
      <4>1. p.buf[Nth(p, j)] = s.buf[Nth(s, j + 1)]
        <5>1. j + 1 \in 0 .. Cap - 1 /\ j + 1 > 0
          BY <3>1, CapAssumption
        <5>2. Nth(p, j) = Nth(s, j + 1) /\ Nth(s, j + 1) # s.head /\ Nth(s, j + 1) \in 0 .. Cap - 1
          BY <1>7, <3>1, <5>1
        <5> QED
          BY <1>1, <1>2, <5>2
      <4> QED
        BY <1>1, <1>2, <3>1, <4>1, CapAssumption DEF RingOK
    <3>2. CASE j + 1 = Cap
      <4>1. p.buf[Nth(p, j)] = NoFrame
        BY SMTT(30), <1>1, <1>2, <1>7, <3>2, CapAssumption
      <4> QED
        BY <1>1, <1>2, <3>2, <4>1, EmptySlot
    <3> QED
      BY <3>1, <3>2, CapAssumption
  <2>2. ASSUME NEW i \in 0 .. Cap - 1, NEW j \in 0 .. Cap - 1,
               p.buf[i] \in Frames, p.buf[j].buf = p.buf[i].buf
        PROVE  i = j
    <3>1. i # s.head /\ p.buf[i] = s.buf[i]
      BY <1>1, <1>2, <2>2, EmptySlot
    <3>2. j # s.head /\ p.buf[j] = s.buf[j]
      <4>1. p.buf[j].buf # None /\ NoFrame.buf = None
        BY <2>2, EmptySlot DEF NoFrame
      <4> QED
        BY <1>1, <1>2, <4>1
    <3> QED
      BY <2>2, <3>1, <3>2 DEF RingOK
  <2> QED
    BY <2>1, <2>2 DEF RingOK
<1>9. Oldest(s).buf \in Held(s) /\ Held(p) = Held(s) \ {Oldest(s).buf}
  <2>1. Oldest(s).buf \in Held(s)
    BY <1>1, <1>5, <1>6, EmptySlot DEF Held
  <2>2. ASSUME NEW i \in 0 .. Cap - 1, i # s.head PROVE s.buf[i].buf # Oldest(s).buf
    BY <1>1, <1>5, <1>6, <2>2 DEF RingOK
  <2>3. \A i \in 0 .. Cap - 1 : p.buf[i] = IF i = s.head THEN NoFrame ELSE s.buf[i]
    BY <1>1, <1>2
  <2> QED
    BY <1>1, <1>5, <2>1, <2>2, <2>3 DEF Held, NoFrame
<1>10. Contents(s) # <<>> /\ Contents(p) = Tail(Contents(s))
  <2>1. /\ Contents(s) = [i \in 1 .. s.n |-> s.buf[Nth(s, i - 1)]]
        /\ Contents(s) \in Seq(Frames) /\ Len(Contents(s)) = s.n
        /\ Contents(p) = [i \in 1 .. p.n |-> p.buf[Nth(p, i - 1)]]
        /\ Contents(p) \in Seq(Frames) /\ Len(Contents(p)) = p.n
    BY <1>4, <1>8, ContentsIs DEF p
  <2>2. Contents(s) # <<>>
    BY <1>1, <2>1, EmptySeq
  <2>3. /\ Tail(Contents(s)) \in Seq(Frames) /\ Len(Tail(Contents(s))) = s.n - 1
        /\ \A i \in 1 .. s.n - 1 : Tail(Contents(s))[i] = Contents(s)[i + 1]
    BY <1>1, <2>1, <2>2, HeadTailProperties
  <2>4. ASSUME NEW i \in 1 .. s.n - 1 PROVE Contents(p)[i] = Contents(s)[i + 1]
    <3>1. Nth(p, i - 1) = Nth(s, i) /\ Nth(s, i) # s.head /\ Nth(s, i) \in 0 .. Cap - 1
      <4>1. i \in 0 .. Cap - 1 /\ i > 0 /\ i - 1 \in 0 .. Cap - 1 /\ (i - 1) + 1 = i /\ i < Cap
        BY <1>1, CapAssumption
      <4> QED
        BY <1>7, <4>1
    <3>2. Contents(p)[i] = p.buf[Nth(p, i - 1)] /\ Contents(s)[i + 1] = s.buf[Nth(s, i)]
      BY <1>1, <1>2, <2>1
    <3> QED
      BY <1>1, <1>2, <3>1, <3>2
  <2> QED
    <3>1. Len(Contents(p)) = Len(Tail(Contents(s))) /\ Len(Contents(p)) = s.n - 1
      BY <1>1, <1>2, <2>1, <2>3
    <3>2. \A i \in 1 .. s.n - 1 : Contents(p)[i] = Tail(Contents(s))[i]
      BY <2>3, <2>4
    <3>3. Contents(p) \in Seq(Frames) /\ Tail(Contents(s)) \in Seq(Frames)
      BY <2>1, <2>3
    <3> QED
      BY <2>2, <3>1, <3>2, <3>3, SeqEqual
<1> QED
  BY <1>4, <1>6, <1>8, <1>9, <1>10 DEF p

\* An entry more at the other end.
LEMMA PushRing ==
  ASSUME NEW s \in SourceBuffers, RingOK(s), s.n < Cap, NEW f \in Frames, f.buf \notin Held(s)
  PROVE  /\ Push(s, f) \in SourceBuffers /\ RingOK(Push(s, f))
         /\ Held(Push(s, f)) = Held(s) \cup {f.buf}
         /\ Contents(Push(s, f)) = Append(Contents(s), f)
<1> DEFINE p == Push(s, f)
           t == Nth(s, s.n)
<1>1. s.n \in 0 .. Cap - 1 /\ s.head \in 0 .. Cap - 1 /\ s.buf \in [0 .. Cap - 1 -> Slots]
  BY CapAssumption DEF SourceBuffers
<1>2. (s.head + s.n) % Cap = t /\ t \in 0 .. Cap - 1
  <2>1. s.head + s.n \in 0 .. 2 * Cap - 1
    BY <1>1, CapAssumption
  <2>2. (s.head + s.n) % Cap = IF s.head + s.n < Cap THEN s.head + s.n ELSE s.head + s.n - Cap
    <3> DEFINE k == s.head + s.n
    <3> HIDE DEF k
    <3>1. k % Cap = IF k < Cap THEN k ELSE k - Cap
      BY <2>1, Modulus DEF k
    <3> QED
      BY <1>1, <3>1, CapAssumption DEF k
  <2> QED
    BY SMTT(30), <1>1, <2>2, CapAssumption DEF Nth
<1>3. p.buf = [s.buf EXCEPT ![t] = f] /\ p.n = s.n + 1 /\ p.head = s.head
  BY <1>2 DEF Push, SourceBuffers
<1>4. p \in SourceBuffers
  <2>1. p.buf \in [0 .. Cap - 1 -> Slots]
    BY <1>1, <1>3 DEF Slots
  <2>2. p.head \in 0 .. Cap - 1 /\ p.n \in 0 .. Cap
    BY <1>1, <1>3, CapAssumption
  <2>3. p = [s EXCEPT !.buf = p.buf, !.n = p.n]
    BY <1>2, <1>3 DEF Push, SourceBuffers
  <2> QED
    BY <2>1, <2>2, <2>3 DEF SourceBuffers
<1>5. s.buf[t] = NoFrame
  BY <1>1, <1>2, CapAssumption DEF RingOK, Slots
<1> HIDE DEF p
<1>6. \A j \in 0 .. Cap - 1 : /\ Nth(p, j) = Nth(s, j) /\ Nth(s, j) \in 0 .. Cap - 1
                              /\ Nth(s, j) = t => j = s.n
  BY SMTT(30), <1>1, <1>3, CapAssumption DEF Nth
<1> HIDE DEF t
<1>7. \A i \in 0 .. Cap - 1 : p.buf[i] = IF i = t THEN f ELSE s.buf[i]
  BY <1>1, <1>3
<1>8. \A i \in 0 .. Cap - 1 : s.buf[i].buf # f.buf
  BY EmptySlot DEF Held
<1>9. RingOK(p)
  <2>1. ASSUME NEW j \in 0 .. Cap - 1 PROVE p.buf[Nth(p, j)] \in Frames <=> j < p.n
    <3>1. CASE j = s.n
      BY <1>1, <1>2, <1>3, <1>6, <1>7, <3>1 DEF t
    <3>2. CASE j # s.n
      <4>1. p.buf[Nth(p, j)] = s.buf[Nth(s, j)]
        BY <1>6, <1>7, <3>2
      <4> QED
        BY <1>1, <1>3, <3>2, <4>1 DEF RingOK
    <3> QED
      BY <3>1, <3>2
  <2>2. ASSUME NEW i \in 0 .. Cap - 1, NEW j \in 0 .. Cap - 1,
               p.buf[i] \in Frames, p.buf[j].buf = p.buf[i].buf
        PROVE  i = j
    BY <1>7, <1>8, <2>2 DEF RingOK
  <2> QED
    BY <2>1, <2>2 DEF RingOK
<1>10. Held(p) = Held(s) \cup {f.buf}
  BY <1>2, <1>5, <1>7, EmptySlot DEF Held, NoFrame
<1>11. Contents(p) = Append(Contents(s), f)
  <2>1. /\ Contents(s) = [i \in 1 .. s.n |-> s.buf[Nth(s, i - 1)]]
        /\ Contents(s) \in Seq(Frames) /\ Len(Contents(s)) = s.n
        /\ Contents(p) = [i \in 1 .. p.n |-> p.buf[Nth(p, i - 1)]]
        /\ Contents(p) \in Seq(Frames) /\ Len(Contents(p)) = p.n
    BY <1>4, <1>9, ContentsIs DEF p
  <2>2. /\ Append(Contents(s), f) \in Seq(Frames) /\ Len(Append(Contents(s), f)) = s.n + 1
        /\ \A i \in 1 .. s.n : Append(Contents(s), f)[i] = Contents(s)[i]
        /\ Append(Contents(s), f)[s.n + 1] = f
    <3>1. Contents(s) \in Seq(Frames) /\ Len(Contents(s)) = s.n
      BY <2>1
    <3> HIDE <2>1
    <3> QED
      BY <3>1, AppendProperties
  <2>3. ASSUME NEW i \in 1 .. s.n PROVE Contents(p)[i] = Contents(s)[i]
    <3>1. i - 1 \in 0 .. Cap - 1 /\ i - 1 # s.n
      BY <1>1, CapAssumption
    <3>2. p.buf[Nth(p, i - 1)] = s.buf[Nth(s, i - 1)]
      BY <1>6, <1>7, <3>1
    <3> QED
      BY <1>1, <1>3, <2>1, <3>2
  <2>4. Contents(p)[s.n + 1] = f
    <3>1. Contents(p)[s.n + 1] = p.buf[Nth(p, s.n)]
      BY <1>1, <1>3, <2>1
    <3> QED
      BY <1>1, <1>2, <1>6, <1>7, <3>1 DEF t
  <2>5. \A i \in 1 .. s.n + 1 : Contents(p)[i] = Append(Contents(s), f)[i]
    BY <1>1, <2>2, <2>3, <2>4
  <2>6. Contents(p) \in Seq(Frames) /\ Len(Contents(p)) = s.n + 1
    BY <1>3, <2>1
  <2>7. Append(Contents(s), f) \in Seq(Frames) /\ Len(Append(Contents(s), f)) = s.n + 1
    BY <2>2
  <2> QED
    BY <2>5, <2>6, <2>7, SeqEqual
<1> QED
  BY <1>4, <1>9, <1>10, <1>11 DEF p

\* Feed makes room first: it keeps the order and forgets only the oldest frame.
THEOREM FeedIsQueue ==
  ASSUME NEW s \in SourceBuffers, RingOK(s), NEW f \in Frames, f.buf \notin Held(s)
  PROVE  /\ Feed(s, f) \in SourceBuffers /\ RingOK(Feed(s, f))
         /\ Evicted(s) \subseteq Held(s)
         /\ Held(Feed(s, f)) = (Held(s) \ Evicted(s)) \cup {f.buf}
         /\ Contents(Feed(s, f)) =
               Append(IF Len(Contents(s)) = Cap THEN Tail(Contents(s)) ELSE Contents(s), f)
<1>1. s.n \in 0 .. Cap
  BY DEF SourceBuffers
<1>2. Len(Contents(s)) = s.n
  BY ContentsIs
<1>3. CASE s.n = Cap
  <2>1. Pop(s).n < Cap
    BY <1>1, <1>3, CapAssumption DEF Pop
  <2> QED
    BY <1>2, <1>3, <2>1, PopRing, PushRing, CapAssumption DEF Feed, Evicted
<1>4. CASE s.n # Cap
  BY <1>1, <1>2, <1>4, PushRing, CapAssumption DEF Feed, Evicted
<1> QED
  BY <1>3, <1>4

-----------------------------------------------------------------------------
(***************************************************************************)
(* Types, apart from the pools and the rings.                              *)
(***************************************************************************)

OtherTypes ==
    /\ inputs \subseteq Rings /\ paused \in BOOLEAN /\ closed \in BOOLEAN
    /\ install \in Installs
    /\ switch \in [pc : {"idle", "teardown", "install", "resume"}, to : Installs]
    /\ tick \in Ticks
    /\ recv \in [run : Dispatches, cache : Caches]
    /\ bridge \in [queue : Seq(Bufs), pkt : Bufs \cup {None}]
    /\ Len(bridge.queue) <= AudioChanBuf
    /\ out \in [OutSet -> Seq(Bufs)] /\ \A o \in OutSet : Len(out[o]) <= AudioChanBuf
    /\ prov \in [OutSet -> Bufs \cup {None}]
    /\ stray \in [tick : Nat, recv : Nat]
    /\ packets \in 0 .. MaxPackets /\ relayed \in 0 .. MaxRelayed /\ switches \in 0 .. MaxSwitches

LEMMA Speakers == Len(Outs) \in Nat \ {0} /\ \A i \in 1 .. Len(Outs) : Outs[i] \in OutSet
<1>1. Outs \in Seq(OutSet)
  BY AudioConstants DEF OutSet
<1> QED
  BY <1>1, AudioConstants, EmptySeq, ElementOfSeq

\* A dispatch works with the cache of its own install.
LEMMA ReceiveEffect ==
  ASSUME OtherTypes, CacheInv, NEW u \in Users, Receive(u)
  PROVE  /\ recv' \in [run : Dispatches, cache : Caches]
         /\ recv'.cache.ver = install.ver
         /\ recv'.cache.user # None => recv'.cache.rings = RingOf(install, recv'.cache.user)
         /\ recv'.run.user = u /\ recv'.run.in = install /\ recv'.run.rings = RingOf(install, u)
         /\ recv'.run.pc = "send" /\ recv'.run.at > 0
<1> DEFINE c == Cached(install, u)
<1>1. u # None /\ install \in Installs
  BY AudioConstants DEF OtherTypes
<1>2. RingOf(install, u) \subseteq Rings
  BY <1>1 DEF RingOf, Rings, Installs
<1>3. c \in Caches /\ c.ver = install.ver /\ c.user = u /\ c.rings = RingOf(install, u)
  <2>1. CASE recv.cache.ver = install.ver /\ recv.cache.user = u
    BY <1>1, <2>1 DEF Cached, CacheInv, OtherTypes
  <2>2. CASE ~(recv.cache.ver = install.ver /\ recv.cache.user = u)
    <3>1. c = [ver |-> install.ver, user |-> u, rings |-> RingOf(install, u)]
      BY <2>2 DEF Cached
    <3> QED
      BY <1>1, <1>2, <3>1 DEF Caches, Installs
  <2> QED
    BY <2>1, <2>2
<1> HIDE DEF c
<1> DEFINE n == IF install.mode = "copy" THEN 1 ELSE Len(Outs) + 1
<1>4. n \in 0 .. Len(Outs) + 1 /\ n > 0
  BY Speakers
<1> HIDE DEF n
<1>5. recv' = [run |-> [pc |-> "send", user |-> u, in |-> install, rings |-> c.rings, at |-> n],
               cache |-> c]
  BY DEF Receive, c, n
<1>6. [pc |-> "send", user |-> u, in |-> install, rings |-> c.rings, at |-> n] \in Dispatches
  BY <1>1, <1>2, <1>3, <1>4 DEF Dispatches
<1> QED
  BY <1>3, <1>4, <1>5, <1>6

\* A queue with room takes a packet more.
LEMMA QueueGrows ==
  ASSUME TypeOK, NEW o \in OutSet, NEW b \in Bufs, NEW fits \in BOOLEAN,
         fits => Len(out[o]) < AudioChanBuf,
         out' = [out EXCEPT ![o] = IF fits THEN Append(@, b) ELSE @]
  PROVE  out' \in [OutSet -> Seq(Bufs)] /\ \A q \in OutSet : Len(out'[q]) <= AudioChanBuf
<1>1. AudioChanBuf \in Nat
  BY AudioConstants DEF AudioChanBuf
<1>2. out[o] \in Seq(Bufs) /\ Len(out[o]) \in Nat
  BY EmptySeq, LenProperties DEF TypeOK
<1>3. Append(out[o], b) \in Seq(Bufs) /\ Len(Append(out[o], b)) = Len(out[o]) + 1
  BY <1>2, AppendProperties
<1>4. CASE fits
  BY <1>1, <1>2, <1>3, <1>4 DEF TypeOK
<1>5. CASE ~fits
  BY <1>5 DEF TypeOK
<1> QED
  BY <1>4, <1>5

\* The other steps of the receiver.
LEMMA DispatchTypes ==
  ASSUME PathInv, SendRaw \/ FeedUser \/ \E u \in Users : Receive(u) \/ CleanupUser(u)
  PROVE  OtherTypes'
<1> USE DEF PathInv
<1>0. OtherTypes
  BY DEF TypeOK, OtherTypes
<1>1. CASE SendRaw
  <2>1. recv.run.at =< Len(Outs) /\ recv.run.at > 0 /\ recv' = [recv EXCEPT !.run.at = @ + 1]
    BY <1>1 DEF SendRaw, CacheInv
  <2>2. recv.run.at \in 1 .. Len(Outs)
    BY <2>1, Speakers DEF TypeOK, Dispatches
  <2>3. recv' = [run |-> [recv.run EXCEPT !.at = @ + 1], cache |-> recv.cache]
    BY <2>1 DEF TypeOK
  <2>4. recv' \in [run : Dispatches, cache : Caches]
    <3>1. recv.run.at + 1 \in 0 .. Len(Outs) + 1
      BY <2>2, Speakers
    <3>2. recv.run \in Dispatches /\ recv.cache \in Caches
      BY DEF TypeOK
    <3>3. [recv.run EXCEPT !.at = @ + 1] \in Dispatches
      BY <3>1, <3>2 DEF Dispatches
    <3> QED
      BY <2>3, <3>2, <3>3
  <2> DEFINE o == Outs[recv.run.at]
             fits == Len(out[o]) < AudioChanBuf
  <2>5. o \in OutSet
    BY <2>2, Speakers
  <2>6. PICK b \in pool :
           /\ out' = [out EXCEPT ![o] = IF fits THEN Append(@, b) ELSE @]
           /\ stray' = [stray EXCEPT !.recv =
                 IF fits /\ recv.run.at = 1 /\ recv.run.in.ver # install.ver /\ ~paused THEN @ + 1 ELSE @]
    BY <1>1 DEF SendRaw
  <2>7. stray' \in [tick : Nat, recv : Nat]
    BY <2>6 DEF TypeOK
  <2>8. out' \in [OutSet -> Seq(Bufs)] /\ \A q \in OutSet : Len(out'[q]) <= AudioChanBuf
    BY <2>5, <2>6, QueueGrows DEF TypeOK
  <2>9. UNCHANGED <<closed, inputs, paused, install, tick, bridge, prov, switch, bounds>>
    BY <1>1 DEF SendRaw
  <2> QED
    BY <1>0, <2>4, <2>7, <2>8, <2>9 DEF OtherTypes, bounds
<1>2. CASE FeedUser
  <2>1. recv' = [recv EXCEPT !.run = NoDispatch]
        /\ UNCHANGED <<closed, inputs, paused, install, tick, bridge, out, prov, switch, stray, bounds>>
    BY <1>2 DEF FeedUser
  <2>2. NoDispatch \in Dispatches
    BY Speakers, AudioConstants DEF NoDispatch, Dispatches, Off, Installs
  <2>3. recv' \in [run : Dispatches, cache : Caches]
    BY <2>1, <2>2 DEF TypeOK
  <2> QED
    BY <1>0, <2>1, <2>3 DEF OtherTypes, bounds
<1>3. ASSUME NEW u \in Users, CleanupUser(u) PROVE OtherTypes'
  <2>1. recv' = [recv EXCEPT !.cache = NoCache]
        /\ UNCHANGED <<closed, inputs, paused, install, tick, bridge, out, prov, switch, stray, bounds>>
    BY <1>3 DEF CleanupUser
  <2>2. NoCache \in Caches
    BY AudioConstants DEF NoCache, Caches
  <2>3. recv' \in [run : Dispatches, cache : Caches]
    BY <2>1, <2>2 DEF TypeOK
  <2> QED
    BY <1>0, <2>1, <2>3 DEF OtherTypes, bounds
<1>4. ASSUME NEW u \in Users, Receive(u) PROVE OtherTypes'
  <2>1. recv' \in [run : Dispatches, cache : Caches]
    BY <1>0, <1>4, ReceiveEffect
  <2>2. packets' \in 0 .. MaxPackets
    BY <1>4, AudioConstants DEF Receive, TypeOK
  <2>3. UNCHANGED <<closed, inputs, paused, install, tick, bridge, out, prov, switch, stray, relayed, switches>>
    BY <1>4 DEF Receive
  <2> QED
    BY <1>0, <2>1, <2>2, <2>3 DEF OtherTypes
<1> QED
  BY <1>1, <1>2, <1>3, <1>4

LEMMA BridgeTypes ==
  ASSUME PathInv, RelayArrives \/ BridgeTakes \/ BridgeFeeds
  PROVE  OtherTypes'
<1> USE DEF PathInv
<1>0. OtherTypes
  BY DEF TypeOK, OtherTypes
<1>1. bridge.queue \in Seq(Bufs) /\ bridge.pkt \in Bufs \cup {None} /\ Len(bridge.queue) \in Nat
  BY EmptySeq, LenProperties DEF TypeOK
<1>2. CASE RelayArrives
  <2>1. PICK b \in pool : bridge' = [bridge EXCEPT !.queue = Append(@, b)]
    BY <1>2 DEF RelayArrives
  <2>2. Append(bridge.queue, b) \in Seq(Bufs) /\ Len(Append(bridge.queue, b)) = Len(bridge.queue) + 1
    BY <1>1, <2>1, AppendProperties DEF TypeOK
  <2>3. Len(bridge.queue) < AudioChanBuf /\ AudioChanBuf \in Nat
    BY <1>2, AudioConstants DEF RelayArrives, AudioChanBuf
  <2>4. bridge' \in [queue : Seq(Bufs), pkt : Bufs \cup {None}] /\ Len(bridge'.queue) <= AudioChanBuf
    <3>1. bridge'.queue = Append(bridge.queue, b) /\ bridge'.pkt = bridge.pkt
          /\ bridge' = [queue |-> Append(bridge.queue, b), pkt |-> bridge.pkt]
      BY <2>1 DEF TypeOK
    <3>2. Len(bridge.queue) + 1 <= AudioChanBuf
      BY <1>1, <2>3
    <3> QED
      BY <1>1, <2>2, <3>1, <3>2
  <2>5. relayed' \in 0 .. MaxRelayed
    BY <1>2, AudioConstants DEF RelayArrives, TypeOK
  <2> QED
    BY <1>0, <1>2, <2>4, <2>5 DEF OtherTypes, RelayArrives
<1>3. CASE BridgeTakes
  <2>1. bridge' = [queue |-> Tail(bridge.queue), pkt |-> Head(bridge.queue)] /\ bridge.queue # <<>>
    BY <1>3 DEF BridgeTakes
  <2>2. /\ Tail(bridge.queue) \in Seq(Bufs) /\ Head(bridge.queue) \in Bufs
        /\ Len(Tail(bridge.queue)) = Len(bridge.queue) - 1
    BY <1>1, <2>1, HeadTailProperties
  <2>3. Len(bridge'.queue) <= AudioChanBuf
    BY <1>1, <2>1, <2>2, AudioConstants DEF TypeOK, AudioChanBuf
  <2>4. bridge' \in [queue : Seq(Bufs), pkt : Bufs \cup {None}]
    BY <2>1, <2>2
  <2> QED
    BY <1>0, <1>3, <2>3, <2>4 DEF OtherTypes, BridgeTakes, bounds
<1>4. CASE BridgeFeeds
  <2>1. bridge' = [bridge EXCEPT !.pkt = None]
    BY <1>4 DEF BridgeFeeds
  <2>2. bridge' \in [queue : Seq(Bufs), pkt : Bufs \cup {None}] /\ bridge'.queue = bridge.queue
    BY <2>1 DEF TypeOK
  <2> QED
    BY <1>0, <1>4, <2>2 DEF OtherTypes, BridgeFeeds, bounds
<1> QED
  BY <1>2, <1>3, <1>4

LEMMA NoTickType ==
  /\ NoTick \in Ticks /\ NoTick.pc = "idle" /\ NoTick.frames = {} /\ NoTick.pkt = None
  /\ ~NoTick.paused /\ IsFiniteSet({})
<1>1. IsFiniteSet({})
  BY FS_EmptySet
<1> QED
  BY <1>1, Speakers DEF NoTick, Ticks

\* An input with entries has a frame to give.
LEMMA OldestIsFrame ==
  ASSUME PathInv, NEW r \in Rings, ring[r].n > 0
  PROVE  Oldest(ring[r]) \in Frames /\ ring[r] \in SourceBuffers /\ RingOK(ring[r])
<1>1. ring[r] \in SourceBuffers /\ RingOK(ring[r])
  BY DEF PathInv, TypeOK, RingsOK
<1> QED
  BY <1>1, PopRing

LEMMA CollectTypes ==
  ASSUME PathInv, NEW r \in Rings, Collect(r)
  PROVE  OtherTypes' /\ TickInv'
<1> USE DEF PathInv
<1>0. OtherTypes
  BY DEF TypeOK, OtherTypes
<1> DEFINE f == Oldest(ring[r])
<1>1. /\ tick \in Ticks /\ tick.pc = "collect" /\ r \in tick.entries
      /\ UNCHANGED <<closed, inputs, paused, install, recv, bridge, out, prov, switch, stray, bounds>>
  BY DEF Collect, TypeOK
<1>2. \/ tick' = [tick EXCEPT !.entries = @ \ {r}]
      \/ /\ ~tick.paused /\ f \in Frames
         /\ tick' = [tick EXCEPT !.entries = @ \ {r}, !.frames = @ \cup {f}]
  BY <1>1, OldestIsFrame DEF Collect
<1>3. tick' \in Ticks /\ TickInv'
  <2>1. CASE tick' = [tick EXCEPT !.entries = @ \ {r}]
    BY <1>1, <2>1 DEF Ticks, TickInv
  <2>2. CASE /\ ~tick.paused /\ f \in Frames
             /\ tick' = [tick EXCEPT !.entries = @ \ {r}, !.frames = @ \cup {f}]
    <3>1. IsFiniteSet(tick.frames \cup {f})
      BY FS_AddElement DEF TickInv
    <3> QED
      BY <1>1, <2>2, <3>1 DEF Ticks, TickInv
  <2> QED
    BY <1>2, <2>1, <2>2
<1> QED
  BY <1>0, <1>1, <1>3 DEF OtherTypes, bounds

\* The end of a tick, with and without a packet.
LEMMA MixEffect ==
  ASSUME PathInv, TickMix
  PROVE  \/ tick' = NoTick
         \/ \E b \in Bufs : tick' = [NoTick EXCEPT !.pc = "emit", !.pkt = b, !.at = 1] /\ tick.frames # {}
<1>1. \A g \in tick.frames : g.buf \in Bufs
  BY EmptySlot DEF PathInv, TypeOK, Ticks
<1>2. pool \subseteq Bufs
  BY DEF PathInv, TypeOK
<1>3. CASE tick.frames = {}
  <2>1. Cardinality(tick.frames) = 0
    BY <1>3, FS_EmptySet
  <2>2. ~(Cardinality(tick.frames) > 1) /\ ~(Cardinality(tick.frames) = 1)
    BY <2>1
  <2>3. tick' = NoTick
    BY <2>2 DEF TickMix
  <2> QED
    BY <2>3
<1>4. CASE tick.frames # {}
  <2>1. CASE tick' = NoTick
    BY <2>1
  <2>2. CASE \E b \in {g.buf : g \in tick.frames} \cup pool :
                tick' = [NoTick EXCEPT !.pc = "emit", !.pkt = b, !.at = 1]
    BY <1>1, <1>2, <1>4, <2>2
  <2> QED
    BY <1>4, <2>1, <2>2 DEF TickMix
<1> QED
  BY <1>3, <1>4

LEMMA EmitEffect ==
  ASSUME PathInv, TickEmits
  PROVE  /\ tick.pc = "emit" /\ tick.pkt \in Bufs /\ tick.at \in 1 .. Len(Outs) /\ Outs[tick.at] \in OutSet
         /\ tick' = IF tick.at = Len(Outs) THEN NoTick ELSE [tick EXCEPT !.at = @ + 1]
         /\ \E b \in Bufs :
               LET fits == Len(out[Outs[tick.at]]) < AudioChanBuf IN
               /\ IF tick.at = Len(Outs) THEN b = tick.pkt ELSE b \in pool
               /\ out' = [out EXCEPT ![Outs[tick.at]] = IF fits THEN Append(@, b) ELSE @]
               /\ Pools(IF tick.at = Len(Outs) THEN {} ELSE {b}, IF fits THEN {} ELSE {b}, {}, {})
         /\ stray' \in [tick : Nat, recv : Nat] /\ stray'.recv = stray.recv
         /\ stray'.tick = stray.tick \/ (stray'.tick = stray.tick + 1 /\ tick.at = 1 /\ install.mode = "copy")
         /\ UNCHANGED <<closed, ring, inputs, paused, install, recv, bridge, prov, switch, bounds>>
<1> USE DEF PathInv
<1>1. tick.pc = "emit" /\ tick.pkt \in Bufs /\ tick.at \in 1 .. Len(Outs)
  BY DEF TickEmits, Emit, TickInv
<1>2. Outs[tick.at] \in OutSet
  BY <1>1, Speakers
<1>3. stray \in [tick : Nat, recv : Nat] /\ pool \subseteq Bufs
  BY DEF TypeOK
<1>4. PICK k \in BOOLEAN :
         stray' = [stray EXCEPT !.tick = IF k /\ tick.at = 1 /\ install.mode = "copy" THEN @ + 1 ELSE @]
  BY DEF TickEmits, Emit
<1>5. /\ stray' \in [tick : Nat, recv : Nat] /\ stray'.recv = stray.recv
      /\ stray'.tick = stray.tick \/ (stray'.tick = stray.tick + 1 /\ tick.at = 1 /\ install.mode = "copy")
  BY <1>3, <1>4
<1> DEFINE last == tick.at = Len(Outs)
           fits == Len(out[Outs[tick.at]]) < AudioChanBuf
<1>6. PICK b \in IF last THEN {tick.pkt} ELSE pool :
         /\ out' = [out EXCEPT ![Outs[tick.at]] = IF fits THEN Append(@, b) ELSE @]
         /\ Pools(IF last THEN {} ELSE {b}, IF fits THEN {} ELSE {b}, {}, {})
  BY DEF TickEmits, Emit
<1>7. b \in Bufs /\ IF last THEN b = tick.pkt ELSE b \in pool
  BY <1>1, <1>3, <1>6
<1>8. tick' = IF last THEN NoTick ELSE [tick EXCEPT !.at = @ + 1]
  BY DEF TickEmits, Emit
<1>9. UNCHANGED <<closed, ring, inputs, paused, install, recv, bridge, prov, switch, bounds>>
  BY DEF TickEmits, Emit
<1> QED
  BY <1>1, <1>2, <1>5, <1>6, <1>7, <1>8, <1>9

LEMMA TickTypes ==
  ASSUME PathInv, TickStart \/ TickMix \/ TickEmits
  PROVE  OtherTypes' /\ TickInv'
<1> USE DEF PathInv
<1>0. OtherTypes
  BY DEF TypeOK, OtherTypes
<1>1. CASE TickStart
  <2>1. tick' = [NoTick EXCEPT !.pc = "collect", !.paused = paused, !.entries = inputs]
    BY <1>1 DEF TickStart
  <2>2. tick' \in Ticks /\ TickInv'
    <3>1. tick' \in Ticks /\ tick'.pc = "collect" /\ tick'.frames = {} /\ tick'.pkt = None
      BY <2>1, NoTickType DEF Ticks, TypeOK
    <3> QED
      BY <3>1, NoTickType DEF TickInv
  <2> QED
    BY <1>0, <1>1, <2>2 DEF OtherTypes, TickStart, bounds
<1>2. CASE TickMix
  <2>1. tick' \in Ticks /\ TickInv'
    <3>1. CASE tick' = NoTick
      BY <3>1, NoTickType DEF TickInv
    <3>2. ASSUME NEW b \in Bufs, tick' = [NoTick EXCEPT !.pc = "emit", !.pkt = b, !.at = 1]
          PROVE  tick' \in Ticks /\ TickInv'
      <4>1. tick' = [pc |-> "emit", paused |-> FALSE, entries |-> {}, frames |-> {}, pkt |-> b, at |-> 1]
        BY <3>2 DEF NoTick
      <4>2. 1 \in 0 .. Len(Outs) /\ 1 \in 1 .. Len(Outs)
        BY Speakers
      <4> QED
        BY <4>1, <4>2, NoTickType DEF TickInv, Ticks
    <3> QED
      BY <1>2, <3>1, <3>2, MixEffect
  <2> QED
    BY <1>0, <1>2, <2>1 DEF OtherTypes, TickMix, bounds
<1>3. CASE TickEmits
  <2>1. tick' \in Ticks /\ TickInv'
    <3>1. CASE tick.at = Len(Outs)
      <4>1. tick' = NoTick
        BY <1>3, <3>1, EmitEffect
      <4> QED
        BY <4>1, NoTickType DEF TickInv
    <3>2. CASE tick.at # Len(Outs)
      <4>1. /\ tick' = [tick EXCEPT !.at = @ + 1] /\ tick \in Ticks /\ tick.at + 1 \in 1 .. Len(Outs)
            /\ tick.pc = "emit"
        BY <1>3, <3>2, EmitEffect, Speakers DEF TypeOK
      <4> QED
        BY <4>1 DEF Ticks, TickInv
    <3> QED
      BY <3>1, <3>2
  <2>2. out' \in [OutSet -> Seq(Bufs)] /\ \A q \in OutSet : Len(out'[q]) <= AudioChanBuf
    <3> DEFINE fits == Len(out[Outs[tick.at]]) < AudioChanBuf
    <3>1. PICK b \in Bufs : out' = [out EXCEPT ![Outs[tick.at]] = IF fits THEN Append(@, b) ELSE @]
      BY <1>3, EmitEffect
    <3>2. Outs[tick.at] \in OutSet /\ fits \in BOOLEAN
      BY <1>3, EmitEffect
    <3> QED
      BY <3>1, <3>2, QueueGrows
  <2>3. /\ stray' \in [tick : Nat, recv : Nat]
        /\ UNCHANGED <<closed, inputs, paused, install, recv, bridge, prov, switch, bounds>>
    BY <1>3, EmitEffect
  <2> QED
    BY <1>0, <2>1, <2>2, <2>3 DEF OtherTypes, bounds
<1> QED
  BY <1>1, <1>2, <1>3

\* A queue holds no more than the soft threshold, and one packet of it has been
\* taken when the depth is compared: the bleed-off never engages.
LEMMA BleedIsDead ==
  ASSUME NEW d \in Int, d <= AudioChanBuf - 1
  PROVE  Bleed(d) = 0
<1>1. ProviderDrainThreshold \in Nat /\ d < ProviderDrainThreshold
  BY AudioConstants DEF AudioChanBuf
<1>2. ~(d > ProviderHardDrainThreshold) /\ ~(d > ProviderDrainThreshold)
  BY <1>1 DEF ProviderHardDrainThreshold
<1> QED
  BY <1>2 DEF Bleed

\* What a provider does with its queue.
LEMMA ProvideEffect ==
  ASSUME TypeOK, NEW o \in OutSet, ProvideOpusFrame(o)
  PROVE  /\ out[o] # <<>> /\ out[o] \in Seq(Bufs)
         /\ prov' = [prov EXCEPT ![o] = Head(out[o])]
         /\ out' = [out EXCEPT ![o] = Tail(@)]
         /\ Pools({}, {prov[o]} \ {None}, {}, {})
         /\ UNCHANGED <<closed, ring, inputs, paused, install, tick, recv, bridge, switch, stray, bounds>>
<1>1. out[o] \in Seq(Bufs) /\ out[o] # <<>> /\ Len(out[o]) \in Nat /\ Len(out[o]) <= AudioChanBuf
  BY EmptySeq, LenProperties DEF TypeOK, ProvideOpusFrame
<1>2. Bleed(Len(out[o]) - 1) = 0
  <2>1. AudioChanBuf \in Nat
    BY AudioConstants DEF AudioChanBuf
  <2>2. Len(out[o]) - 1 \in Int /\ Len(out[o]) - 1 <= AudioChanBuf - 1
    BY <1>1, <2>1
  <2> QED
    BY <2>2, BleedIsDead
<1>3. SubSeq(out[o], 2, Len(out[o])) = Tail(out[o]) /\ out[o][1] = Head(out[o])
  BY <1>1
<1> DEFINE n == Bleed(Len(out[o]) - 1)
<1> HIDE DEF n
<1>4. n = 0
  BY <1>2 DEF n
<1>5. /\ prov' = [prov EXCEPT ![o] = out[o][n + 1]]
      /\ Pools({}, ({prov[o]} \ {None}) \cup {out[o][i] : i \in 1 .. n}, {}, {})
      /\ out' = [out EXCEPT ![o] = SubSeq(@, n + 2, Len(@))]
      /\ UNCHANGED <<closed, ring, inputs, paused, install, tick, recv, bridge, switch, stray, bounds>>
  BY DEF ProvideOpusFrame, n
<1>6. {out[o][i] : i \in 1 .. n} = {} /\ n + 1 = 1 /\ n + 2 = 2
  BY <1>4
<1> HIDE <1>2
<1>7. Pools({}, {prov[o]} \ {None}, {}, {})
  <2>1. ({prov[o]} \ {None}) \cup {out[o][i] : i \in 1 .. n} = {prov[o]} \ {None}
    BY <1>6
  <2> QED
    BY <1>5, <2>1
<1>8. out' = [out EXCEPT ![o] = Tail(@)]
  BY <1>3, <1>5, <1>6
<1> QED
  BY <1>1, <1>3, <1>5, <1>6, <1>7, <1>8

\* A queue without its first packet.
LEMMA QueueShrinks ==
  ASSUME TypeOK, NEW o \in OutSet, out[o] # <<>>, out' = [out EXCEPT ![o] = Tail(@)]
  PROVE  /\ out' \in [OutSet -> Seq(Bufs)] /\ \A q \in OutSet : Len(out'[q]) <= AudioChanBuf
         /\ Head(out[o]) \in Bufs
<1>1. out[o] \in Seq(Bufs) /\ Len(out[o]) \in Nat /\ Len(out[o]) <= AudioChanBuf
  BY EmptySeq, LenProperties DEF TypeOK
<1>2. Tail(out[o]) \in Seq(Bufs) /\ Len(Tail(out[o])) = Len(out[o]) - 1 /\ Head(out[o]) \in Bufs
  BY <1>1, HeadTailProperties
<1>3. Len(Tail(out[o])) <= AudioChanBuf
  BY <1>1, <1>2, AudioConstants DEF AudioChanBuf
<1> QED
  BY <1>2, <1>3 DEF TypeOK

LEMMA ProviderTypes ==
  ASSUME PathInv, NEW o \in OutSet, ProvideOpusFrame(o) \/ ProvideFails(o) \/ DiscardFrame(o)
  PROVE  OtherTypes'
<1> USE DEF PathInv
<1>0. OtherTypes
  BY DEF TypeOK, OtherTypes
<1>1. CASE ProvideOpusFrame(o)
  <2>1. /\ out' \in [OutSet -> Seq(Bufs)] /\ \A q \in OutSet : Len(out'[q]) <= AudioChanBuf
        /\ Head(out[o]) \in Bufs
    BY <1>1, ProvideEffect, QueueShrinks
  <2>2. /\ prov' = [prov EXCEPT ![o] = Head(out[o])]
        /\ UNCHANGED <<closed, ring, inputs, paused, install, tick, recv, bridge, switch, stray, bounds>>
    BY <1>1, ProvideEffect
  <2>3. prov' \in [OutSet -> Bufs \cup {None}]
    BY <2>1, <2>2 DEF TypeOK
  <2> QED
    BY <1>0, <2>1, <2>2, <2>3 DEF OtherTypes, bounds
<1>2. CASE ProvideFails(o)
  <2>1. prov' \in [OutSet -> Bufs \cup {None}]
    BY <1>2 DEF ProvideFails, TypeOK
  <2> QED
    BY <1>0, <1>2, <2>1 DEF OtherTypes, ProvideFails, bounds
<1>3. CASE DiscardFrame(o)
  <2>1. out' \in [OutSet -> Seq(Bufs)] /\ \A q \in OutSet : Len(out'[q]) <= AudioChanBuf
    BY <1>3, QueueShrinks DEF DiscardFrame
  <2> QED
    BY <1>0, <1>3, <2>1 DEF OtherTypes, DiscardFrame, bounds
<1> QED
  BY <1>1, <1>2, <1>3

LEMMA UserRingsAreRings ==
  ASSUME NEW in \in Installs
  PROVE  UserRings(in) \subseteq Rings
BY DEF UserRings, Installs, Rings

LEMMA SwitchTypes ==
  ASSUME PathInv,
         \/ CloseProviders \/ Teardown \/ Install \/ Resume
         \/ \E mode \in {"off", "copy", "mix"}, users \in SUBSET Users : SwitchTo(mode, users)
  PROVE  OtherTypes'
<1> USE DEF PathInv
<1>0. OtherTypes
  BY DEF TypeOK, OtherTypes
<1>1. CASE CloseProviders
  BY <1>0, <1>1 DEF OtherTypes, CloseProviders, bounds
<1>2. CASE Teardown
  <2>1. inputs' \subseteq Rings
    BY <1>0, <1>2 DEF Teardown, OtherTypes
  <2>2. switch' \in [pc : {"idle", "teardown", "install", "resume"}, to : Installs]
    BY <1>0, <1>2 DEF Teardown, OtherTypes
  <2> QED
    BY <1>0, <1>2, <2>1, <2>2 DEF OtherTypes, Teardown, bounds
<1>3. CASE Install
  <2>1. switch.to \in Installs
    BY DEF TypeOK
  <2>2. inputs' \subseteq Rings /\ install' \in Installs
    BY <1>0, <1>3, <2>1, UserRingsAreRings DEF Install, OtherTypes
  <2>3. switch' \in [pc : {"idle", "teardown", "install", "resume"}, to : Installs]
    BY <1>0, <1>3 DEF Install, OtherTypes
  <2>4. stray' \in [tick : Nat, recv : Nat]
    BY <1>3 DEF Install
  <2> QED
    BY <1>0, <1>3, <2>2, <2>3, <2>4 DEF OtherTypes, Install, bounds
<1>4. CASE Resume
  <2>1. switch' \in [pc : {"idle", "teardown", "install", "resume"}, to : Installs]
    BY <1>4, AudioConstants DEF Resume, Off, Installs
  <2>2. paused' \in BOOLEAN
    BY <1>4 DEF Resume
  <2> QED
    BY <1>0, <1>4, <2>1, <2>2 DEF OtherTypes, Resume, bounds
<1>5. ASSUME NEW mode \in {"off", "copy", "mix"}, NEW users \in SUBSET Users, SwitchTo(mode, users)
      PROVE  OtherTypes'
  <2>1. switches + 1 \in 0 .. MaxSwitches /\ switches' = switches + 1
    BY <1>5, AudioConstants DEF SwitchTo, Begins, TypeOK
  <2> DEFINE g == 1 - install.gen
  <2>2. g \in {0, 1}
    BY DEF TypeOK, Installs
  <2>3. switch' = [pc |-> "teardown",
                   to |-> [ver |-> switches + 1, mode |-> mode, users |-> users, gen |-> g]]
    BY <1>5 DEF SwitchTo, Begins
  <2> HIDE DEF g
  <2>4. [ver |-> switches + 1, mode |-> mode, users |-> users, gen |-> g] \in Installs
    BY <2>1, <2>2 DEF Installs
  <2>5. switch' \in [pc : {"idle", "teardown", "install", "resume"}, to : Installs]
    BY <2>3, <2>4
  <2>6. paused' \in BOOLEAN
    BY <1>5 DEF SwitchTo
  <2> QED
    BY <1>0, <1>5, <2>1, <2>5, <2>6 DEF OtherTypes, SwitchTo, Begins
<1> QED
  BY <1>1, <1>2, <1>3, <1>4, <1>5

-----------------------------------------------------------------------------
(***************************************************************************)
(* The cache of the dispatch, and what strays after a switch.              *)
(***************************************************************************)

\* The steps that leave the receiver and the router alone.
LEMMA CacheQuiet ==
  ASSUME CacheInv, UNCHANGED <<recv, install, switch, switches>>
  PROVE  CacheInv'
BY DEF CacheInv, FedToItsRing, RingOf

LEMMA CacheOfReceiver ==
  ASSUME PathInv, SendRaw \/ FeedUser \/ \E u \in Users : Receive(u) \/ CleanupUser(u)
  PROVE  CacheInv'
<1> USE DEF PathInv
<1>0. OtherTypes /\ recv \in [run : Dispatches, cache : Caches] /\ install \in Installs
  BY DEF TypeOK, OtherTypes
<1>1. UNCHANGED <<install, switch, switches>>
  BY DEF SendRaw, FeedUser, Receive, CleanupUser, bounds
<1>2. CASE SendRaw
  <2>1. recv' = [run |-> [recv.run EXCEPT !.at = @ + 1], cache |-> recv.cache] /\ recv.run.at > 0
    BY <1>0, <1>2 DEF SendRaw, CacheInv
  <2>2. recv.run.at + 1 > 0 /\ recv.run \in Dispatches
    BY <1>0, <2>1 DEF Dispatches
  <2>3. /\ recv'.cache = recv.cache /\ recv'.run.pc = recv.run.pc /\ recv'.run.user = recv.run.user
        /\ recv'.run.in = recv.run.in /\ recv'.run.rings = recv.run.rings /\ recv'.run.at > 0
    BY <2>1, <2>2 DEF Dispatches
  <2> QED
    BY <1>1, <2>3 DEF CacheInv, FedToItsRing, RingOf
<1>3. CASE FeedUser
  <2>1. recv'.run.pc = "idle" /\ recv'.cache = recv.cache
    BY <1>0, <1>3 DEF FeedUser, NoDispatch
  <2> QED
    BY <1>1, <2>1 DEF CacheInv, FedToItsRing, RingOf
<1>4. ASSUME NEW u \in Users, Receive(u) PROVE CacheInv'
  <2>1. /\ recv'.cache.ver = install.ver
        /\ recv'.cache.user # None => recv'.cache.rings = RingOf(install, recv'.cache.user)
        /\ recv'.run.user = u /\ recv'.run.in = install /\ recv'.run.rings = RingOf(install, u)
        /\ recv'.run.at > 0
    BY <1>0, <1>4, ReceiveEffect
  <2>2. RingOf(install', recv'.cache.user) = RingOf(install, recv'.cache.user)
        /\ RingOf(recv'.run.in, u) = RingOf(install, u)
    BY <1>1, <2>1
  <2>3. install.ver <= install.ver
    BY <1>0 DEF Installs
  <2> QED
    BY <1>1, <2>1, <2>2, <2>3 DEF CacheInv, FedToItsRing
<1>5. ASSUME NEW u \in Users, CleanupUser(u) PROVE CacheInv'
  <2>1. recv'.run = recv.run /\ recv'.cache = NoCache
    BY <1>0, <1>5 DEF CleanupUser
  <2>2. NoCache.ver = 0 /\ NoCache.user = None /\ 0 <= install.ver
    BY <1>0 DEF NoCache, Installs
  <2> QED
    BY <1>1, <2>1, <2>2 DEF CacheInv, FedToItsRing, RingOf
<1> QED
  BY <1>2, <1>3, <1>4, <1>5

LEMMA CacheOfSwitch ==
  ASSUME PathInv,
         \/ Teardown \/ Install \/ Resume
         \/ \E mode \in {"off", "copy", "mix"}, users \in SUBSET Users : SwitchTo(mode, users)
  PROVE  CacheInv'
<1> USE DEF PathInv
<1>0. /\ install \in Installs /\ switch.to \in Installs /\ recv.cache \in Caches /\ switches \in Nat
      /\ switch \in [pc : {"idle", "teardown", "install", "resume"}, to : Installs]
  BY AudioConstants DEF TypeOK
<1>1. UNCHANGED recv
  BY DEF Teardown, Install, Resume, SwitchTo, Begins
<1>2. CASE Teardown
  <2>1. UNCHANGED <<install, switches>> /\ switch.pc = "teardown" /\ switch'.to = switch.to
    BY <1>0, <1>2 DEF Teardown, bounds
  <2> QED
    BY <1>1, <2>1 DEF CacheInv, FedToItsRing, RingOf
<1>3. CASE Install
  <2>1. UNCHANGED switches /\ switch.pc = "install" /\ switch'.pc = "resume" /\ install' = switch.to
    BY <1>0, <1>3 DEF Install, bounds
  <2>2. recv.cache.ver < switch.to.ver /\ switch.to.ver <= switches
    BY <1>0, <2>1 DEF CacheInv, Installs, Caches
  <2>3. recv.cache.ver <= switch.to.ver /\ recv.cache.ver # switch.to.ver
    BY <1>0, <2>2 DEF Installs, Caches
  <2> QED
    BY <1>1, <2>1, <2>2, <2>3 DEF CacheInv, FedToItsRing, RingOf
<1>4. CASE Resume
  <2>1. UNCHANGED <<install, switches>> /\ switch'.pc = "idle"
    BY <1>4 DEF Resume, bounds
  <2> QED
    BY <1>1, <2>1 DEF CacheInv, FedToItsRing, RingOf
<1>5. ASSUME NEW mode \in {"off", "copy", "mix"}, NEW users \in SUBSET Users, SwitchTo(mode, users)
      PROVE  CacheInv'
  <2>1. UNCHANGED install /\ switches' = switches + 1 /\ switch'.to.ver = switches + 1
    BY <1>5 DEF SwitchTo, Begins
  <2>2. install.ver <= switches' /\ install.ver < switch'.to.ver /\ switch'.to.ver <= switches'
    BY <1>0, <2>1 DEF CacheInv, Installs
  <2> QED
    BY <1>1, <2>1, <2>2 DEF CacheInv, FedToItsRing, RingOf
<1> QED
  BY <1>2, <1>3, <1>4, <1>5

LEMMA StrayQuiet ==
  ASSUME StrayInv, UNCHANGED <<stray, install, paused, switch, tick, recv>>
  PROVE  StrayInv'
BY DEF StrayInv, AtMostOneStray, MixerMayStray, ReceiverMayStray

\* The dispatch: only the packet it was working on when the mode changed.
LEMMA StrayOfReceiver ==
  ASSUME PathInv, SendRaw \/ FeedUser \/ \E u \in Users : Receive(u) \/ CleanupUser(u)
  PROVE  StrayInv'
<1> USE DEF PathInv
<1>0. OtherTypes /\ recv \in [run : Dispatches, cache : Caches] /\ stray \in [tick : Nat, recv : Nat]
  BY DEF TypeOK, OtherTypes
<1>1. UNCHANGED <<install, paused, switch, tick>>
  BY DEF SendRaw, FeedUser, Receive, CleanupUser
<1>2. CASE SendRaw
  <2>1. /\ recv.run.pc = "send" /\ recv.run.at > 0
        /\ recv' = [run |-> [recv.run EXCEPT !.at = @ + 1], cache |-> recv.cache]
    BY <1>0, <1>2 DEF SendRaw, CacheInv
  <2>2. recv'.run.at # 1
    BY <1>0, <2>1 DEF Dispatches
  <2>3. PICK fits \in BOOLEAN :
           stray' = [stray EXCEPT !.recv =
              IF fits /\ recv.run.at = 1 /\ recv.run.in.ver # install.ver /\ ~paused THEN @ + 1 ELSE @]
    BY <1>2 DEF SendRaw
  <2>4. /\ stray'.tick = stray.tick
        /\ stray'.recv = stray.recv \/ (ReceiverMayStray /\ stray'.recv = stray.recv + 1)
    BY <1>0, <2>1, <2>3 DEF ReceiverMayStray
  <2>5. stray'.recv <= 1
    BY <1>0, <2>4 DEF StrayInv, AtMostOneStray
  <2> QED
    BY <1>1, <2>2, <2>4, <2>5 DEF StrayInv, AtMostOneStray, MixerMayStray, ReceiverMayStray
<1>3. CASE FeedUser
  <2>1. recv'.run.pc = "idle" /\ stray' = stray
    BY <1>0, <1>3 DEF FeedUser, NoDispatch
  <2> QED
    BY <1>1, <2>1 DEF StrayInv, AtMostOneStray, MixerMayStray, ReceiverMayStray
<1>4. ASSUME NEW u \in Users, Receive(u) PROVE StrayInv'
  <2>1. recv'.run.in = install /\ stray' = stray
    BY <1>0, <1>4, ReceiveEffect DEF Receive
  <2> QED
    BY <1>1, <2>1 DEF StrayInv, AtMostOneStray, MixerMayStray, ReceiverMayStray
<1>5. ASSUME NEW u \in Users, CleanupUser(u) PROVE StrayInv'
  <2>1. recv'.run = recv.run /\ stray' = stray
    BY <1>0, <1>5 DEF CleanupUser
  <2> QED
    BY <1>1, <2>1 DEF StrayInv, AtMostOneStray, MixerMayStray, ReceiverMayStray
<1> QED
  BY <1>2, <1>3, <1>4, <1>5

\* The mixer: while it is to be silent it starts no tick that takes frames.
LEMMA StrayOfMixer ==
  ASSUME PathInv, TickStart \/ TickMix \/ TickEmits \/ \E r \in Rings : Collect(r)
  PROVE  StrayInv'
<1> USE DEF PathInv
<1>0. stray \in [tick : Nat, recv : Nat] /\ tick \in Ticks
  BY SMTT(30) DEF TypeOK
<1>1. UNCHANGED <<install, paused, switch, recv>>
  BY DEF TickStart, TickMix, TickEmits, Emit, Collect
<1>2. CASE TickStart
  <2>1. tick'.pc = "collect" /\ (tick'.paused <=> paused) /\ stray' = stray
    BY <1>2 DEF TickStart, NoTick
  <2> QED
    BY <1>1, <2>1 DEF StrayInv, AtMostOneStray, MixerMayStray, ReceiverMayStray
<1>3. CASE TickMix
  <2>1. tick.pc = "collect" /\ stray' = stray
    BY <1>3 DEF TickMix
  <2>2. CASE tick' = NoTick
    <3>1. tick'.pc = "idle"
      BY <2>2, NoTickType
    <3> QED
      BY <1>1, <2>1, <3>1 DEF StrayInv, AtMostOneStray, MixerMayStray, ReceiverMayStray
  <2>3. CASE tick.frames # {}
    <3>1. MixerMayStray
      BY <2>1, <2>3 DEF MixerMayStray, TickInv
    <3> QED
      BY <1>1, <2>1, <3>1 DEF StrayInv, AtMostOneStray, ReceiverMayStray
  <2> QED
    BY <1>3, <2>2, <2>3, MixEffect
<1>4. CASE TickEmits
  <2>1. /\ tick.pc = "emit" /\ tick.at \in 1 .. Len(Outs) /\ stray'.recv = stray.recv
        /\ tick' = IF tick.at = Len(Outs) THEN NoTick ELSE [tick EXCEPT !.at = @ + 1]
        /\ stray'.tick = stray.tick \/ (stray'.tick = stray.tick + 1 /\ tick.at = 1 /\ install.mode = "copy")
    BY <1>4, EmitEffect
  <2>2. ~MixerMayStray'
    <3>1. CASE tick.at = Len(Outs)
      BY <2>1, <3>1, NoTickType DEF MixerMayStray
    <3>2. CASE tick.at # Len(Outs)
      <4>1. tick'.pc = "emit" /\ tick'.at = tick.at + 1 /\ tick.at + 1 # 1
        BY <1>0, <2>1, <3>2, Speakers DEF Ticks
      <4> QED
        BY <4>1 DEF MixerMayStray
    <3> QED
      BY <3>1, <3>2
  <2>3. stray'.tick <= 1
    BY <1>0, <2>1 DEF StrayInv, AtMostOneStray, MixerMayStray
  <2> QED
    BY <1>1, <2>1, <2>2, <2>3 DEF StrayInv, AtMostOneStray, ReceiverMayStray
<1>5. ASSUME NEW r \in Rings, Collect(r) PROVE StrayInv'
  <2>1. /\ tick'.pc = tick.pc /\ (tick'.paused <=> tick.paused) /\ tick'.at = tick.at /\ stray' = stray
    BY <1>0, <1>5 DEF Collect, Ticks
  <2> QED
    BY <1>1, <2>1 DEF StrayInv, AtMostOneStray, MixerMayStray, ReceiverMayStray
<1> QED
  BY <1>2, <1>3, <1>4, <1>5

\* The switch: pausing comes before the install, resuming after it.
LEMMA StrayOfSwitch ==
  ASSUME PathInv,
         \/ Teardown \/ Install \/ Resume
         \/ \E mode \in {"off", "copy", "mix"}, users \in SUBSET Users : SwitchTo(mode, users)
  PROVE  StrayInv'
<1> USE DEF PathInv
<1>0. /\ switch \in [pc : {"idle", "teardown", "install", "resume"}, to : Installs]
      /\ stray \in [tick : Nat, recv : Nat]
  BY DEF TypeOK
<1>1. UNCHANGED <<tick, recv>>
  BY DEF Teardown, Install, Resume, SwitchTo, Begins
<1>2. CASE Teardown
  <2>1. UNCHANGED <<install, paused, stray>> /\ switch.pc = "teardown" /\ switch'.to = switch.to
    BY <1>0, <1>2 DEF Teardown
  <2> QED
    BY <1>1, <2>1 DEF StrayInv, AtMostOneStray, MixerMayStray, ReceiverMayStray
<1>3. CASE Install
  <2>1. /\ UNCHANGED paused /\ switch.pc = "install" /\ switch'.pc = "resume" /\ install' = switch.to
        /\ stray' = [tick |-> 0, recv |-> 0]
    BY <1>0, <1>3 DEF Install
  <2> QED
    BY <1>1, <2>1 DEF StrayInv, AtMostOneStray
<1>4. CASE Resume
  <2>1. UNCHANGED <<install, stray>> /\ switch'.pc = "idle" /\ (install.mode = "copy" => paused')
    BY <1>4 DEF Resume
  <2> QED
    BY <1>1, <2>1 DEF StrayInv, AtMostOneStray, MixerMayStray, ReceiverMayStray
<1>5. ASSUME NEW mode \in {"off", "copy", "mix"}, NEW users \in SUBSET Users, SwitchTo(mode, users)
      PROVE  StrayInv'
  <2>1. UNCHANGED <<install, stray>> /\ switch'.to.mode = mode /\ (paused \/ mode # "mix" => paused')
    BY <1>5 DEF SwitchTo, Begins
  <2> QED
    BY <1>1, <2>1 DEF StrayInv, AtMostOneStray, MixerMayStray, ReceiverMayStray
<1> QED
  BY <1>2, <1>3, <1>4, <1>5

-----------------------------------------------------------------------------
(***************************************************************************)
(* Buffers: the rings and pools have their types, and every buffer has at  *)
(* most one owner.                                                         *)
(***************************************************************************)

BuffersOK ==
    /\ pool \subseteq Bufs /\ pcmPool \subseteq Bufs /\ ring \in [Rings -> SourceBuffers]
    /\ RingsOK /\ Owned /\ PCMOwned /\ twice = FALSE

LEMMA BuffersNow ==
  ASSUME PathInv
  PROVE  BuffersOK
<1>1. twice = FALSE
  BY DEF PathInv
<1> QED
  BY <1>1 DEF PathInv, TypeOK, BuffersOK

LEMMA HeldAreBufs ==
  ASSUME NEW s \in SourceBuffers
  PROVE  Held(s) \subseteq Bufs
<1>1. \A i \in 0 .. Cap - 1 : s.buf[i] \in Frames \/ s.buf[i] = NoFrame
  BY DEF SourceBuffers, Slots
<1>2. \A i \in 0 .. Cap - 1 : s.buf[i].buf \in Bufs \/ s.buf[i].buf = None
  BY <1>1 DEF Frames, NoFrame
<1> QED
  BY <1>2 DEF Held

\* What is returned was not in its pool.
LEMMA PoolsEffect ==
  ASSUME pool \subseteq Bufs, pcmPool \subseteq Bufs, twice = FALSE,
         NEW got, NEW put, NEW gotPCM, NEW putPCM, Pools(got, put, gotPCM, putPCM),
         put \subseteq Bufs, putPCM \subseteq Bufs,
         put \cap (pool \ got) = {}, putPCM \cap (pcmPool \ gotPCM) = {}
  PROVE  /\ pool' = (pool \ got) \cup put /\ pcmPool' = (pcmPool \ gotPCM) \cup putPCM
         /\ pool' \subseteq Bufs /\ pcmPool' \subseteq Bufs /\ twice' = FALSE
<1>1. pool' = (pool \ got) \cup put /\ pcmPool' = (pcmPool \ gotPCM) \cup putPCM
  BY DEF Pools
<1>2. twice' = (FALSE \/ put \cap (pool \ got) # {} \/ putPCM \cap (pcmPool \ gotPCM) # {})
  BY DEF Pools
<1>3. twice' = FALSE
  BY <1>2
<1> QED
  BY <1>1, <1>3

LEMMA PoolsReturn ==
  ASSUME pool \subseteq Bufs, pcmPool \subseteq Bufs, twice = FALSE,
         NEW put \in SUBSET Bufs, Pools({}, put, {}, put), put \cap pool = {}, put \cap pcmPool = {}
  PROVE  /\ pool' = pool \cup put /\ pcmPool' = pcmPool \cup put
         /\ pool' \subseteq Bufs /\ pcmPool' \subseteq Bufs /\ twice' = FALSE
<1>1. pool \ {} = pool /\ pcmPool \ {} = pcmPool
  OBVIOUS
<1>2. pool' = pool \cup put /\ pcmPool' = pcmPool \cup put
  BY <1>1 DEF Pools
<1>3. twice' = (FALSE \/ put \cap pool # {} \/ put \cap pcmPool # {})
  BY <1>1 DEF Pools
<1>4. twice' = FALSE
  BY <1>3
<1> QED
  BY <1>2, <1>4

LEMMA OwnedQuiet ==
  ASSUME Owned, UNCHANGED <<pool, ring, bridge, out, prov>>,
         tick'.frames = tick.frames, tick'.pkt = tick.pkt
  PROVE  Owned'
<1>1. ASSUME NEW b \in Bufs PROVE \E k, x, y : OwnedBy(k, x, y, b)'
  <2>1. PICK k, x, y : OwnedBy(k, x, y, b)
    BY DEF Owned
  <2>2. OwnedBy(k, x, y, b)'
    BY <2>1 DEF OwnedBy
  <2> QED
    BY <2>2
<1> QED
  BY <1>1 DEF Owned

LEMMA PCMQuiet ==
  ASSUME PCMOwned, UNCHANGED <<pcmPool, ring>>, tick'.frames = tick.frames
  PROVE  PCMOwned'
<1>1. ASSUME NEW b \in Bufs PROVE \E k, x : PCMOwnedBy(k, x, b)'
  <2>1. PICK k, x : PCMOwnedBy(k, x, b)
    BY DEF PCMOwned
  <2>2. PCMOwnedBy(k, x, b)'
    BY <2>1 DEF PCMOwnedBy
  <2> QED
    BY <2>2
<1> QED
  BY <1>1 DEF PCMOwned

LEMMA BuffersQuiet ==
  ASSUME BuffersOK, UNCHANGED <<pool, pcmPool, twice, ring, bridge, out, prov>>,
         tick'.frames = tick.frames, tick'.pkt = tick.pkt
  PROVE  BuffersOK'
<1>1. RingsOK'
  BY DEF BuffersOK, RingsOK
<1>2. Owned' /\ PCMOwned'
  BY OwnedQuiet, PCMQuiet DEF BuffersOK
<1> QED
  BY <1>1, <1>2 DEF BuffersOK

\* A step that moves Opus buffers past the rings.
LEMMA RingsQuiet ==
  ASSUME BuffersOK, NEW got, NEW put, Pools(got, put, {}, {}), put \subseteq Bufs,
         put \cap (pool \ got) = {}, ring' = ring, tick'.frames = tick.frames,
         pool' = (pool \ got) \cup put => Owned'
  PROVE  BuffersOK'
<1>1. /\ pool' = (pool \ got) \cup put /\ pcmPool' = pcmPool
      /\ pool' \subseteq Bufs /\ pcmPool' \subseteq Bufs /\ twice' = FALSE
  <2>1. {} \subseteq Bufs /\ {} \cap (pcmPool \ {}) = {} /\ (pcmPool \ {}) \cup {} = pcmPool
    OBVIOUS
  <2>2. pool \subseteq Bufs /\ pcmPool \subseteq Bufs /\ twice = FALSE
    BY DEF BuffersOK
  <2>3. /\ pool' = (pool \ got) \cup put /\ pcmPool' = (pcmPool \ {}) \cup {}
        /\ pool' \subseteq Bufs /\ pcmPool' \subseteq Bufs /\ twice' = FALSE
    BY <2>1, <2>2, PoolsEffect
  <2> QED
    BY <2>1, <2>3
<1>2. RingsOK' /\ PCMOwned'
  BY <1>1, PCMQuiet DEF BuffersOK, RingsOK
<1> QED
  BY <1>1, <1>2 DEF BuffersOK

\* A buffer that was in no place but its old one comes to the end of a queue.
LEMMA Queued ==
  ASSUME NEW o \in OutSet, out \in [OutSet -> Seq(Bufs)], NEW c \in Bufs,
         out' = [out EXCEPT ![o] = Append(@, c)]
  PROVE  /\ Len(out'[o]) = Len(out[o]) + 1 /\ Len(out[o]) \in Nat
         /\ \A i \in 1 .. Len(out[o]) : out'[o][i] = out[o][i]
         /\ out'[o][Len(out[o]) + 1] = c
         /\ \A q \in OutSet : q # o => out'[q] = out[q]
<1>1. out[o] \in Seq(Bufs) /\ out'[o] = Append(out[o], c)
  OBVIOUS
<1>2. Len(out[o]) \in Nat
  BY <1>1, EmptySeq, LenProperties
<1> QED
  BY <1>1, <1>2, AppendProperties

\* A pooled buffer, or the packet of a tick, comes to the end of a queue.
LEMMA QueuedOwned ==
  ASSUME Owned, NEW o \in OutSet, out \in [OutSet -> Seq(Bufs)], NEW c \in Bufs,
         out' = [out EXCEPT ![o] = Append(@, c)],
         UNCHANGED <<ring, bridge, prov>>, tick'.frames = tick.frames,
         c \in pool \/ tick.pkt = c, c \notin pool', pool' \subseteq pool,
         tick'.pkt \in {tick.pkt, None}, tick'.pkt # c
  PROVE  Owned'
<1>1. PICK n : n = Len(out[o]) + 1
  OBVIOUS
<1>2. /\ n \in Nat /\ Len(out'[o]) = n /\ out'[o][n] = c
      /\ \A i \in 1 .. n : i # n => i \in 1 .. Len(out[o]) /\ out'[o][i] = out[o][i]
      /\ \A q \in OutSet : q # o => out'[q] = out[q]
  BY <1>1, Queued
<1>3. ASSUME NEW b \in Bufs PROVE \E k, x, y : OwnedBy(k, x, y, b)'
  <2>1. PICK k, x, y : OwnedBy(k, x, y, b)
    BY DEF Owned
  <2>2. CASE b = c
    <3>1. k \in {"pool", "pkt"}
      BY <2>1, <2>2 DEF OwnedBy
    <3>2. /\ b \notin pool' /\ \A r \in Rings : b \notin Held(ring'[r])
          /\ \A f \in tick'.frames : f.buf # b
          /\ tick'.pkt # b /\ bridge'.pkt # b /\ \A q \in OutSet : prov'[q] # b
          /\ \A i \in 1 .. Len(bridge'.queue) : bridge'.queue[i] # b
      BY <2>1, <2>2, <3>1 DEF OwnedBy
    <3>3. ASSUME NEW q \in OutSet, NEW i \in 1 .. Len(out'[q]), out'[q][i] = b
          PROVE  q = o /\ i = n
      BY <1>2, <2>1, <3>1, <3>3 DEF OwnedBy
    <3>4. OwnedBy("out", o, n, b)'
      BY <3>2, <3>3 DEF OwnedBy
    <3> QED
      BY <3>4
  <2>3. CASE b # c
    <3>1. tick'.pkt = b => tick.pkt = b
      BY AudioConstants
    <3>2. OwnedBy(k, x, y, b)'
      BY <1>2, <2>1, <2>3, <3>1 DEF OwnedBy
    <3> QED
      BY <3>2
  <2> QED
    BY <2>2, <2>3
<1> QED
  BY <1>3 DEF Owned

LEMMA SendRawBuffers ==
  ASSUME PathInv, SendRaw
  PROVE  BuffersOK'
<1>1. PICK o \in OutSet : o = Outs[recv.run.at]
  <2>1. recv.run.at \in 1 .. Len(Outs)
    BY Speakers DEF PathInv, TypeOK, Dispatches, SendRaw, CacheInv
  <2> QED
    BY <2>1, Speakers
<1>2. PICK fits \in BOOLEAN : fits <=> Len(out[o]) < AudioChanBuf
  OBVIOUS
<1>3. PICK c \in pool : /\ out' = [out EXCEPT ![o] = IF fits THEN Append(@, c) ELSE @]
                        /\ Pools({c}, IF fits THEN {} ELSE {c}, {}, {})
  BY <1>1, <1>2 DEF SendRaw
<1>4. BuffersOK /\ c \in Bufs /\ UNCHANGED <<ring, tick, bridge, prov>> /\ out \in [OutSet -> Seq(Bufs)]
  BY BuffersNow DEF BuffersOK, SendRaw, PathInv, TypeOK
<1>5. CASE fits
  <2>1. Pools({c}, {}, {}, {}) /\ out' = [out EXCEPT ![o] = Append(@, c)]
    BY <1>3, <1>5
  <2>2. tick.pkt # c
    BY <1>3, <1>4 DEF BuffersOK, Owned, OwnedBy
  <2>3. ASSUME pool' = (pool \ {c}) \cup {} PROVE Owned'
    BY <1>3, <1>4, <2>1, <2>2, <2>3, QueuedOwned DEF BuffersOK
  <2> QED
    BY <1>4, <2>1, <2>3, RingsQuiet
<1>6. CASE ~fits
  <2>1. Pools({c}, {c}, {}, {}) /\ out' = out
    BY <1>3, <1>4, <1>6
  <2>2. ASSUME pool' = (pool \ {c}) \cup {c} PROVE Owned'
    <3>1. pool' = pool
      BY <1>3, <2>2
    <3> QED
      BY <1>4, <2>1, <3>1, OwnedQuiet DEF BuffersOK
  <2> QED
    BY <1>4, <2>1, <2>2, RingsQuiet
<1> QED
  BY <1>5, <1>6

LEMMA EmitBuffers ==
  ASSUME PathInv, TickEmits
  PROVE  BuffersOK'
<1>0. BuffersOK /\ out \in [OutSet -> Seq(Bufs)] /\ tick \in Ticks
  BY BuffersNow DEF PathInv, TypeOK
<1>1. PICK o \in OutSet : o = Outs[tick.at]
  BY EmitEffect
<1>2. PICK fits \in BOOLEAN : fits <=> Len(out[o]) < AudioChanBuf
  OBVIOUS
<1>3. PICK last \in BOOLEAN : last <=> tick.at = Len(Outs)
  OBVIOUS
<1>4. PICK c \in Bufs :
         /\ IF last THEN c = tick.pkt ELSE c \in pool
         /\ out' = [out EXCEPT ![o] = IF fits THEN Append(@, c) ELSE @]
         /\ Pools(IF last THEN {} ELSE {c}, IF fits THEN {} ELSE {c}, {}, {})
  BY <1>1, <1>2, <1>3, EmitEffect
<1>5. /\ UNCHANGED <<ring, bridge, prov>> /\ tick.pc = "emit" /\ tick.pkt \in Bufs
      /\ tick' = IF last THEN NoTick ELSE [tick EXCEPT !.at = @ + 1]
  BY <1>3, EmitEffect
<1>6. tick'.frames = tick.frames /\ tick'.pkt = IF last THEN None ELSE tick.pkt
  <2>1. tick.frames = {}
    BY <1>5 DEF PathInv, TickInv
  <2> QED
    BY <1>0, <1>5, <2>1, NoTickType DEF Ticks
<1>7. /\ last \/ tick.pkt # c
      /\ last => c \notin pool
  BY <1>0, <1>4 DEF BuffersOK, Owned, OwnedBy
<1>8. None # c
  BY AudioConstants
<1>9. CASE fits
  <2> DEFINE got == IF last THEN {} ELSE {c}
  <2>1. Pools(got, {}, {}, {}) /\ out' = [out EXCEPT ![o] = Append(@, c)]
    BY <1>4, <1>9
  <2>2. ASSUME pool' = (pool \ got) \cup {} PROVE Owned'
    <3>1. /\ c \notin pool' /\ pool' \subseteq pool /\ (c \in pool \/ tick.pkt = c)
          /\ tick'.pkt \in {tick.pkt, None} /\ tick'.pkt # c
      BY <1>4, <1>6, <1>7, <1>8, <2>2
    <3> QED
      BY <1>0, <1>5, <1>6, <2>1, <3>1, QueuedOwned DEF BuffersOK
  <2> QED
    BY <1>0, <1>5, <1>6, <2>1, <2>2, RingsQuiet
<1>10. CASE ~fits /\ ~last
  <2>1. Pools({c}, {c}, {}, {}) /\ out' = out
    BY <1>0, <1>4, <1>10
  <2>2. ASSUME pool' = (pool \ {c}) \cup {c} PROVE Owned'
    <3>1. pool' = pool
      BY <1>4, <1>10, <2>2
    <3> QED
      BY <1>0, <1>5, <1>6, <1>10, <2>1, <3>1, OwnedQuiet DEF BuffersOK
  <2> QED
    BY <1>0, <1>5, <1>6, <2>1, <2>2, RingsQuiet
<1>11. CASE ~fits /\ last
  <2>1. Pools({}, {c}, {}, {}) /\ out' = out /\ tick.pkt = c /\ tick'.pkt = None
    BY <1>0, <1>4, <1>6, <1>11
  <2>2. ASSUME pool' = (pool \ {}) \cup {c} PROVE Owned'
    <3>1. ASSUME NEW b \in Bufs PROVE \E k, x, y : OwnedBy(k, x, y, b)'
      <4>1. PICK k, x, y : OwnedBy(k, x, y, b)
        BY <1>0 DEF BuffersOK, Owned
      <4>2. CASE b = c
        <5>1. k = "pkt"
          BY <2>1, <4>1, <4>2 DEF OwnedBy
        <5>2. OwnedBy("pool", x, y, b)'
          BY <1>5, <1>6, <1>8, <2>1, <2>2, <4>1, <4>2, <5>1 DEF OwnedBy
        <5> QED
          BY <5>2
      <4>3. CASE b # c
        <5>1. OwnedBy(k, x, y, b)'
          BY <1>5, <1>6, <2>1, <2>2, <4>1, <4>3, AudioConstants DEF OwnedBy
        <5> QED
          BY <5>1
      <4> QED
        BY <4>2, <4>3
    <3> QED
      BY <3>1 DEF Owned
  <2> QED
    BY <1>0, <1>5, <1>6, <1>7, <1>11, <2>1, <2>2, RingsQuiet
<1> QED
  BY <1>9, <1>10, <1>11

LEMMA RelayArrivesBuffers ==
  ASSUME PathInv, RelayArrives
  PROVE  BuffersOK'
<1>0. BuffersOK /\ bridge \in [queue : Seq(Bufs), pkt : Bufs \cup {None}]
  BY BuffersNow DEF PathInv, TypeOK
<1>1. PICK c \in pool : bridge' = [bridge EXCEPT !.queue = Append(@, c)] /\ Pools({c}, {}, {}, {})
  BY DEF RelayArrives
<1>2. UNCHANGED <<ring, tick, out, prov>> /\ c \in Bufs
  BY <1>0 DEF RelayArrives, BuffersOK
<1>3. PICK n : n = Len(bridge.queue) + 1
  OBVIOUS
<1>4. bridge.queue \in Seq(Bufs) /\ Len(bridge.queue) \in Nat
  BY <1>0, EmptySeq, LenProperties
<1>5. /\ n \in Nat /\ Len(bridge'.queue) = n /\ bridge'.queue[n] = c /\ bridge'.pkt = bridge.pkt
      /\ \A i \in 1 .. n : i # n => i \in 1 .. Len(bridge.queue) /\ bridge'.queue[i] = bridge.queue[i]
  <2>1. bridge'.queue = Append(bridge.queue, c) /\ bridge'.pkt = bridge.pkt
    BY <1>0, <1>1
  <2> QED
    BY <1>2, <1>3, <1>4, <2>1, AppendProperties
<1>6. ASSUME pool' = (pool \ {c}) \cup {} PROVE Owned'
  <2>1. ASSUME NEW b \in Bufs PROVE \E k, x, y : OwnedBy(k, x, y, b)'
    <3>1. PICK k, x, y : OwnedBy(k, x, y, b)
      BY <1>0 DEF BuffersOK, Owned
    <3>2. CASE b = c
      <4>1. k = "pool"
        BY <1>1, <3>1, <3>2 DEF OwnedBy
      <4>2. OwnedBy("relay", n, y, b)'
        BY <1>2, <1>5, <1>6, <3>1, <3>2, <4>1 DEF OwnedBy
      <4> QED
        BY <4>2
    <3>3. CASE b # c
      <4>1. OwnedBy(k, x, y, b)'
        BY <1>2, <1>5, <1>6, <3>1, <3>3 DEF OwnedBy
      <4> QED
        BY <4>1
    <3> QED
      BY <3>2, <3>3
  <2> QED
    BY <2>1 DEF Owned
<1> QED
  BY <1>0, <1>1, <1>2, <1>6, RingsQuiet

LEMMA BridgeTakesBuffers ==
  ASSUME PathInv, BridgeTakes
  PROVE  BuffersOK'
<1>0. BuffersOK /\ bridge \in [queue : Seq(Bufs), pkt : Bufs \cup {None}]
  BY BuffersNow DEF PathInv, TypeOK
<1>1. /\ UNCHANGED <<pools, ring, tick, out, prov>> /\ bridge.pkt = None /\ bridge.queue # <<>>
      /\ bridge' = [queue |-> Tail(bridge.queue), pkt |-> Head(bridge.queue)]
  BY DEF BridgeTakes
<1>2. /\ bridge.queue \in Seq(Bufs) /\ Len(bridge.queue) \in Nat \ {0}
      /\ bridge'.pkt = bridge.queue[1] /\ Len(bridge'.queue) = Len(bridge.queue) - 1
      /\ \A i \in 1 .. Len(bridge'.queue) :
            i + 1 \in 1 .. Len(bridge.queue) /\ i + 1 # 1 /\ bridge'.queue[i] = bridge.queue[i + 1]
  <2>1. bridge.queue \in Seq(Bufs) /\ Len(bridge.queue) \in Nat \ {0}
    BY <1>0, <1>1, EmptySeq, LenProperties
  <2>2. bridge'.pkt = Head(bridge.queue) /\ bridge'.queue = Tail(bridge.queue)
    BY <1>1
  <2> QED
    BY <1>1, <2>1, <2>2, HeadTailProperties
<1>3. Owned'
  <2>1. ASSUME NEW b \in Bufs PROVE \E k, x, y : OwnedBy(k, x, y, b)'
    <3>1. PICK k, x, y : OwnedBy(k, x, y, b)
      BY <1>0 DEF BuffersOK, Owned
    <3>2. CASE b = bridge.queue[1]
      <4>1. k = "relay" /\ x = 1
        BY <1>2, <3>1, <3>2 DEF OwnedBy
      <4>2. OwnedBy("bridge", x, y, b)'
        BY <1>1, <1>2, <3>1, <3>2, <4>1 DEF OwnedBy, pools
      <4> QED
        BY <4>2
    <3>3. CASE b # bridge.queue[1]
      <4>1. PICK z : \A i \in 1 .. Len(bridge'.queue) : bridge'.queue[i] = b => k = "relay" /\ i = z
        <5>1. CASE \E i \in 1 .. Len(bridge'.queue) : bridge'.queue[i] = b
          <6>1. PICK j \in 1 .. Len(bridge'.queue) : bridge'.queue[j] = b
            BY <5>1
          <6>2. \A i \in 1 .. Len(bridge'.queue) : bridge'.queue[i] = b => k = "relay" /\ x = i + 1
            BY <1>2, <3>1 DEF OwnedBy
          <6>3. \A i \in 1 .. Len(bridge'.queue) : bridge'.queue[i] = b => k = "relay" /\ i = j
            <7>1. ASSUME NEW i \in Int, NEW m \in Int, x = i + 1, x = m + 1 PROVE i = m
              BY <7>1
            <7> QED
              BY <6>1, <6>2, <7>1
          <6> QED
            BY <6>3
        <5>2. CASE ~ \E i \in 1 .. Len(bridge'.queue) : bridge'.queue[i] = b
          BY <5>2
        <5> QED
          BY <5>1, <5>2
      <4>2. CASE k = "relay"
        <5>1. OwnedBy("relay", z, y, b)'
          BY <1>1, <1>2, <3>1, <3>3, <4>1, <4>2 DEF OwnedBy, pools
        <5> QED
          BY <5>1
      <4>3. CASE k # "relay"
        <5>1. OwnedBy(k, x, y, b)'
          BY <1>1, <1>2, <3>1, <3>3, <4>1, <4>3 DEF OwnedBy, pools
        <5> QED
          BY <5>1
      <4> QED
        BY <4>2, <4>3
    <3> QED
      BY <3>2, <3>3
  <2> QED
    BY <2>1 DEF Owned
<1> QED
  BY <1>0, <1>1, <1>3, PCMQuiet DEF BuffersOK, RingsOK, pools

\* The first packet of a queue goes to the provider or back to the pool, and
\* with it the one that the provider had.
LEMMA TakenOwned ==
  ASSUME BuffersOK, NEW o \in OutSet, out \in [OutSet -> Seq(Bufs)], out[o] # <<>>,
         prov \in [OutSet -> Bufs \cup {None}],
         out' = [out EXCEPT ![o] = Tail(@)], UNCHANGED <<ring, tick, bridge>>,
         \/ prov' = [prov EXCEPT ![o] = Head(out[o])] /\ pool' = pool \cup ({prov[o]} \ {None})
         \/ prov' = prov /\ pool' = pool \cup {Head(out[o])}
  PROVE  Owned'
<1>1. PICK h : h = Head(out[o])
  OBVIOUS
<1>2. PICK p : p = prov[o]
  OBVIOUS
<1>3. /\ Len(out[o]) \in Nat \ {0} /\ 1 \in 1 .. Len(out[o]) /\ out[o][1] = h
      /\ Len(out'[o]) = Len(out[o]) - 1
      /\ \A i \in 1 .. Len(out'[o]) :
            i + 1 \in 1 .. Len(out[o]) /\ i + 1 # 1 /\ out'[o][i] = out[o][i + 1]
      /\ \A q \in OutSet : q # o => out'[q] = out[q]
  <2>1. out[o] \in Seq(Bufs) /\ out'[o] = Tail(out[o])
    OBVIOUS
  <2>2. Len(out[o]) \in Nat \ {0}
    BY <2>1, EmptySeq, LenProperties
  <2> QED
    BY <1>1, <2>1, <2>2, HeadTailProperties
<1>4. /\ \A q \in OutSet : q # o => prov'[q] = prov[q]
      /\ \/ prov'[o] = h /\ pool' = pool \cup ({p} \ {None})
         \/ prov'[o] = p /\ pool' = pool \cup {h}
  BY <1>1, <1>2
<1>5. ASSUME NEW b \in Bufs PROVE \E k, x, y : OwnedBy(k, x, y, b)'
  <2>1. PICK k, x, y : OwnedBy(k, x, y, b)
    BY DEF BuffersOK, Owned
  <2>2. CASE b = h
    <3>1. k = "out" /\ x = o /\ y = 1
      BY <1>3, <2>1, <2>2 DEF OwnedBy
    <3>2. p # b
      BY <1>2, <2>1, <3>1 DEF OwnedBy
    <3>3. \A q \in OutSet : \A i \in 1 .. Len(out'[q]) : out'[q][i] # b
      BY <1>3, <2>1, <3>1 DEF OwnedBy
    <3>4. CASE prov'[o] = h /\ pool' = pool \cup ({p} \ {None})
      <4>1. OwnedBy("prev", o, y, b)'
        BY <1>4, <2>1, <2>2, <3>1, <3>2, <3>3, <3>4 DEF OwnedBy
      <4> QED
        BY <4>1
    <3>5. CASE prov'[o] = p /\ pool' = pool \cup {h}
      <4>1. OwnedBy("pool", x, y, b)'
        BY <1>4, <2>1, <2>2, <3>1, <3>2, <3>3, <3>5 DEF OwnedBy
      <4> QED
        BY <4>1
    <3> QED
      BY <1>4, <3>4, <3>5
  <2>3. CASE b # h /\ b = p
    <3>1. k = "prev" /\ x = o
      BY <1>2, <2>1, <2>3 DEF OwnedBy
    <3>2. b # None
      BY AudioConstants
    <3>3. \A q \in OutSet : \A i \in 1 .. Len(out'[q]) : out'[q][i] # b
      <4>1. \A q \in OutSet : \A i \in 1 .. Len(out[q]) : out[q][i] # b
        BY <2>1, <3>1 DEF OwnedBy
      <4> QED
        BY <1>3, <4>1
    <3>4. CASE prov'[o] = h /\ pool' = pool \cup ({p} \ {None})
      <4>1. OwnedBy("pool", x, y, b)'
        BY <1>4, <2>1, <2>3, <3>1, <3>2, <3>3, <3>4 DEF OwnedBy
      <4> QED
        BY <4>1
    <3>5. CASE prov'[o] = p /\ pool' = pool \cup {h}
      <4>1. OwnedBy("prev", o, y, b)'
        BY <1>4, <2>1, <2>3, <3>1, <3>2, <3>3, <3>5 DEF OwnedBy
      <4> QED
        BY <4>1
    <3> QED
      BY <1>4, <3>4, <3>5
  <2>4. CASE b # h /\ b # p
    <3>1. /\ b \in pool' <=> b \in pool
          /\ prov'[o] # b
      BY <1>4, <2>4
    <3>2. CASE k = "out" /\ x = o
      <4>1. PICK z : \A i \in 1 .. Len(out'[o]) : out'[o][i] = b => i = z
        <5>1. CASE \E i \in 1 .. Len(out'[o]) : out'[o][i] = b
          <6>1. PICK j \in 1 .. Len(out'[o]) : out'[o][j] = b
            BY <5>1
          <6>2. \A i \in 1 .. Len(out'[o]) : out'[o][i] = b => y = i + 1
            BY <1>3, <2>1 DEF OwnedBy
          <6>3. \A i \in 1 .. Len(out'[o]) : out'[o][i] = b => i = j
            <7>1. ASSUME NEW i \in Int, NEW m \in Int, y = i + 1, y = m + 1 PROVE i = m
              BY <7>1
            <7> QED
              BY <6>1, <6>2, <7>1
          <6> QED
            BY <6>3
        <5>2. CASE ~ \E i \in 1 .. Len(out'[o]) : out'[o][i] = b
          BY <5>2
        <5> QED
          BY <5>1, <5>2
      <4>2. OwnedBy("out", o, z, b)'
        BY <1>3, <1>4, <2>1, <2>4, <3>1, <3>2, <4>1 DEF OwnedBy
      <4> QED
        BY <4>2
    <3>3. CASE ~(k = "out" /\ x = o)
      <4>1. \A i \in 1 .. Len(out'[o]) : out'[o][i] # b
        BY <1>3, <2>1, <3>3 DEF OwnedBy
      <4>2. OwnedBy(k, x, y, b)'
        BY <1>3, <1>4, <2>1, <2>4, <3>1, <3>3, <4>1 DEF OwnedBy
      <4> QED
        BY <4>2
    <3> QED
      BY <3>2, <3>3
  <2> QED
    BY <2>2, <2>3, <2>4
<1> QED
  BY <1>5 DEF Owned

LEMMA ProviderBuffers ==
  ASSUME PathInv, NEW o \in OutSet, ProvideOpusFrame(o) \/ ProvideFails(o) \/ DiscardFrame(o)
  PROVE  BuffersOK'
<1>0. /\ BuffersOK /\ out \in [OutSet -> Seq(Bufs)] /\ prov \in [OutSet -> Bufs \cup {None}]
      /\ prov[o] \in Bufs \cup {None} /\ pool \subseteq Bufs
  BY BuffersNow DEF PathInv, TypeOK
<1>1. prov[o] \in Bufs => prov[o] \notin pool
  BY <1>0 DEF BuffersOK, Owned, OwnedBy
<1>2. CASE ProvideOpusFrame(o)
  <2>1. /\ out[o] # <<>> /\ prov' = [prov EXCEPT ![o] = Head(out[o])] /\ out' = [out EXCEPT ![o] = Tail(@)]
        /\ Pools({}, {prov[o]} \ {None}, {}, {}) /\ UNCHANGED <<ring, tick, bridge>>
    BY <1>2, ProvideEffect DEF PathInv
  <2>2. ASSUME pool' = (pool \ {}) \cup ({prov[o]} \ {None}) PROVE Owned'
    <3>1. pool' = pool \cup ({prov[o]} \ {None})
      BY <2>2
    <3> QED
      BY <1>0, <2>1, <3>1, TakenOwned
  <2>3. {prov[o]} \ {None} \subseteq Bufs /\ ({prov[o]} \ {None}) \cap (pool \ {}) = {}
    BY <1>0, <1>1
  <2> QED
    BY <1>0, <2>1, <2>2, <2>3, RingsQuiet
<1>3. CASE DiscardFrame(o)
  <2>1. /\ out[o] # <<>> /\ prov' = prov /\ out' = [out EXCEPT ![o] = Tail(@)]
        /\ Pools({}, {Head(out[o])}, {}, {}) /\ UNCHANGED <<ring, tick, bridge>>
    BY <1>3 DEF DiscardFrame
  <2>2. ASSUME pool' = (pool \ {}) \cup {Head(out[o])} PROVE Owned'
    <3>1. pool' = pool \cup {Head(out[o])}
      BY <2>2
    <3> QED
      BY <1>0, <2>1, <3>1, TakenOwned
  <2>3. {Head(out[o])} \subseteq Bufs /\ {Head(out[o])} \cap (pool \ {}) = {}
    <3>1. Head(out[o]) \in Bufs /\ Head(out[o]) = out[o][1] /\ 1 \in 1 .. Len(out[o])
      <4>1. out[o] \in Seq(Bufs) /\ out[o] # <<>>
        BY <1>0, <2>1
      <4> QED
        BY <4>1, EmptySeq, LenProperties, HeadTailProperties
    <3>2. Head(out[o]) \notin pool
      BY <1>0, <3>1 DEF BuffersOK, Owned, OwnedBy
    <3> QED
      BY <3>1, <3>2
  <2> QED
    BY <1>0, <2>1, <2>2, <2>3, RingsQuiet
<1>4. CASE ProvideFails(o)
  <2>1. /\ prov' = [prov EXCEPT ![o] = None] /\ Pools({}, {prov[o]} \ {None}, {}, {})
        /\ UNCHANGED <<ring, tick, bridge, out>>
    BY <1>4 DEF ProvideFails
  <2>2. ASSUME pool' = (pool \ {}) \cup ({prov[o]} \ {None}) PROVE Owned'
    <3>1. PICK p : p = prov[o]
      OBVIOUS
    <3>2. /\ pool' = pool \cup ({p} \ {None}) /\ prov'[o] = None
          /\ \A q \in OutSet : q # o => prov'[q] = prov[q]
      BY <1>0, <2>1, <2>2, <3>1
    <3>3. ASSUME NEW b \in Bufs PROVE \E k, x, y : OwnedBy(k, x, y, b)'
      <4>1. PICK k, x, y : OwnedBy(k, x, y, b)
        BY <1>0 DEF BuffersOK, Owned
      <4>2. b # None
        BY AudioConstants
      <4>3. CASE b = p
        <5>1. k = "prev" /\ x = o
          BY <3>1, <4>1, <4>3 DEF OwnedBy
        <5>2. OwnedBy("pool", x, y, b)'
          BY <2>1, <3>2, <4>1, <4>2, <4>3, <5>1 DEF OwnedBy
        <5> QED
          BY <5>2
      <4>4. CASE b # p
        <5>1. OwnedBy(k, x, y, b)'
          BY <2>1, <3>1, <3>2, <4>1, <4>2, <4>4 DEF OwnedBy
        <5> QED
          BY <5>1
      <4> QED
        BY <4>3, <4>4
    <3> QED
      BY <3>3 DEF Owned
  <2>3. {prov[o]} \ {None} \subseteq Bufs /\ ({prov[o]} \ {None}) \cap (pool \ {}) = {}
    BY <1>0, <1>1
  <2> QED
    BY <1>0, <2>1, <2>2, <2>3, RingsQuiet
<1> QED
  BY <1>2, <1>3, <1>4

\* One ring changes.
LEMMA RingsStep ==
  ASSUME BuffersOK, NEW r \in Rings, NEW s \in SourceBuffers, RingOK(s), ring' = [ring EXCEPT ![r] = s]
  PROVE  /\ ring' \in [Rings -> SourceBuffers] /\ RingsOK'
         /\ ring'[r] = s /\ \A q \in Rings : q # r => ring'[q] = ring[q]
<1>1. /\ ring' \in [Rings -> SourceBuffers]
      /\ ring'[r] = s /\ \A q \in Rings : q # r => ring'[q] = ring[q]
  BY DEF BuffersOK
<1>2. ASSUME NEW q \in Rings PROVE RingOK(ring'[q])
  BY <1>1 DEF BuffersOK, RingsOK
<1> QED
  BY <1>1, <1>2 DEF RingsOK

\* What no one but its ring has.
LEMMA HeldAlone ==
  ASSUME BuffersOK, NEW r \in Rings
  PROVE  /\ ring[r] \in SourceBuffers /\ RingOK(ring[r]) /\ Held(ring[r]) \subseteq Bufs
         /\ Held(ring[r]) \cap pool = {} /\ Held(ring[r]) \cap pcmPool = {}
<1>1. ring[r] \in SourceBuffers /\ RingOK(ring[r])
  BY DEF BuffersOK, RingsOK
<1>2. Held(ring[r]) \subseteq Bufs
  BY <1>1, HeldAreBufs
<1>3. ASSUME NEW b \in Held(ring[r]) PROVE b \notin pool /\ b \notin pcmPool
  <2>1. PICK k, x, y : OwnedBy(k, x, y, b)
    BY <1>2 DEF BuffersOK, Owned
  <2>2. PICK l, z : PCMOwnedBy(l, z, b)
    BY <1>2 DEF BuffersOK, PCMOwned
  <2> QED
    BY <2>1, <2>2 DEF OwnedBy, PCMOwnedBy
<1> QED
  BY <1>1, <1>2, <1>3

\* A ring gets a frame in buffers of the pools, which get back those of the
\* frame it forgets, and perhaps the packet of the bridge.
LEMMA FedBuffers ==
  ASSUME BuffersOK, NEW r \in Rings, NEW c \in ForFrame, NEW pcm \in BOOLEAN, NEW put,
         ring' = [ring EXCEPT ![r] = Feed(@, [buf |-> c, pcm |-> pcm])],
         Pools({c}, put, {c}, Evicted(ring[r])),
         UNCHANGED <<tick, out, prov>>, bridge'.queue = bridge.queue,
         \/ bridge'.pkt = bridge.pkt /\ put = Evicted(ring[r])
         \/ bridge'.pkt = None /\ bridge.pkt \in Bufs /\ put = {bridge.pkt} \cup Evicted(ring[r])
  PROVE  BuffersOK'
<1> DEFINE f == [buf |-> c, pcm |-> pcm]
<1>1. c \in Bufs /\ c \in pool /\ c \in pcmPool /\ c # None /\ f \in Frames /\ f.buf = c
  BY AudioConstants DEF ForFrame, BuffersOK, Frames
<1>2. PICK s : s = ring[r]
  OBVIOUS
<1>3. s \in SourceBuffers /\ RingOK(s) /\ Held(s) \subseteq Bufs /\ Held(s) \cap pool = {} /\ Held(s) \cap pcmPool = {}
  BY <1>2, HeldAlone
<1>4. c \notin Held(s)
  BY <1>1, <1>3
<1>5. /\ Feed(s, f) \in SourceBuffers /\ RingOK(Feed(s, f)) /\ Evicted(s) \subseteq Held(s)
      /\ Held(Feed(s, f)) = (Held(s) \ Evicted(s)) \cup {c}
  <2> HIDE DEF f
  <2> QED
    BY <1>1, <1>3, <1>4, FeedIsQueue
<1>6. /\ ring' \in [Rings -> SourceBuffers] /\ RingsOK'
      /\ ring'[r] = Feed(s, f) /\ \A q \in Rings : q # r => ring'[q] = ring[q]
  <2>1. ring' = [ring EXCEPT ![r] = Feed(s, f)]
    BY <1>2
  <2> HIDE DEF f
  <2> QED
    BY <1>5, <2>1, RingsStep
<1> HIDE DEF f
<1>7. Held(ring'[r]) = (Held(s) \ Evicted(s)) \cup {c}
  BY <1>5, <1>6
<1>8. PICK e : e = Evicted(s)
  OBVIOUS
<1>9. e \subseteq Held(ring[r]) /\ Held(ring'[r]) = (Held(ring[r]) \ e) \cup {c}
  BY <1>2, <1>5, <1>7, <1>8
<1>10. bridge.pkt \in Bufs => bridge.pkt \notin pool
  <2>1. ASSUME bridge.pkt \in Bufs PROVE bridge.pkt \notin pool
    <3>1. PICK k, x, y : OwnedBy(k, x, y, bridge.pkt)
      BY <2>1 DEF BuffersOK, Owned
    <3> QED
      BY <3>1 DEF OwnedBy
  <2> QED
    BY <2>1
<1>11. /\ pool' = (pool \ {c}) \cup put /\ pcmPool' = (pcmPool \ {c}) \cup e
       /\ pool' \subseteq Bufs /\ pcmPool' \subseteq Bufs /\ twice' = FALSE
  <2>1. e \subseteq Bufs /\ e \cap (pcmPool \ {c}) = {} /\ put \subseteq Bufs /\ put \cap (pool \ {c}) = {}
    BY <1>2, <1>3, <1>8, <1>9, <1>10
  <2>2. Pools({c}, put, {c}, e)
    BY <1>2, <1>8
  <2>3. pool \subseteq Bufs /\ pcmPool \subseteq Bufs /\ twice = FALSE
    BY DEF BuffersOK
  <2> QED
    BY <2>1, <2>2, <2>3, PoolsEffect
<1>12. \/ bridge'.pkt = bridge.pkt /\ put = e
       \/ bridge'.pkt = None /\ bridge.pkt \in Bufs /\ put = {bridge.pkt} \cup e
  BY <1>2, <1>8
<1>13. PCMOwned'
  <2>1. ASSUME NEW b \in Bufs PROVE \E k, x : PCMOwnedBy(k, x, b)'
    <3>1. PICK k, x : PCMOwnedBy(k, x, b)
      BY DEF BuffersOK, PCMOwned
    <3>2. CASE b = c
      <4>1. k = "pool"
        BY <1>1, <3>1, <3>2 DEF PCMOwnedBy
      <4>2. PCMOwnedBy("ring", r, b)'
        BY <1>6, <1>9, <1>11, <3>1, <3>2, <4>1 DEF PCMOwnedBy
      <4> QED
        BY <4>2
    <3>3. CASE b \in e
      <4>1. k = "ring" /\ x = r
        BY <1>9, <3>1, <3>3 DEF PCMOwnedBy
      <4>2. PCMOwnedBy("pool", x, b)'
        <5>1. b # c
          BY <1>2, <1>4, <1>9, <3>3
        <5> QED
          BY <1>6, <1>9, <1>11, <3>1, <3>3, <4>1, <5>1 DEF PCMOwnedBy
      <4> QED
        BY <4>2
    <3>4. CASE b # c /\ b \notin e
      <4>1. PCMOwnedBy(k, x, b)'
        BY <1>6, <1>9, <1>11, <3>1, <3>4 DEF PCMOwnedBy
      <4> QED
        BY <4>1
    <3> QED
      BY <3>2, <3>3, <3>4
  <2> QED
    BY <2>1 DEF PCMOwned
<1>14. Owned'
  <2>1. ASSUME NEW b \in Bufs PROVE \E k, x, y : OwnedBy(k, x, y, b)'
    <3>1. PICK k, x, y : OwnedBy(k, x, y, b)
      BY DEF BuffersOK, Owned
    <3>0. b # None
      BY AudioConstants
    <3>2. CASE b = c
      <4>1. k = "pool"
        BY <1>1, <3>1, <3>2 DEF OwnedBy
      <4>2. b \notin pool'
        BY <1>9, <1>11, <1>12, <3>1, <3>2, <4>1, <1>2, <1>4 DEF OwnedBy
      <4>3. OwnedBy("ring", r, y, b)'
        BY <1>6, <1>9, <1>12, <3>0, <3>1, <3>2, <4>1, <4>2 DEF OwnedBy
      <4> QED
        BY <4>3
    <3>3. CASE b \in e
      <4>1. k = "ring" /\ x = r /\ b # c
        BY <1>2, <1>4, <1>9, <3>1, <3>3 DEF OwnedBy
      <4>2. OwnedBy("pool", x, y, b)'
        BY <1>6, <1>9, <1>12, <3>0, <3>1, <3>3, <4>1 DEF OwnedBy
      <4> QED
        BY <4>2
    <3>4. CASE b # c /\ b \notin e /\ b = bridge.pkt /\ bridge'.pkt = None /\ put = {bridge.pkt} \cup e
      <4>1. k = "bridge"
        BY <3>1, <3>4 DEF OwnedBy
      <4>2. OwnedBy("pool", x, y, b)'
        BY <1>6, <1>9, <3>0, <3>1, <3>4, <4>1 DEF OwnedBy
      <4> QED
        BY <4>2
    <3>5. CASE b # c /\ b \notin e /\ ~(b = bridge.pkt /\ bridge'.pkt = None /\ put = {bridge.pkt} \cup e)
      <4>1. /\ b \in pool' => b \in pool
            /\ bridge'.pkt = b => bridge.pkt = b
        BY <1>11, <1>12, <3>0, <3>5
      <4>2. OwnedBy(k, x, y, b)'
        BY <1>6, <1>9, <3>1, <3>5, <4>1 DEF OwnedBy
      <4> QED
        BY <4>2
    <3> QED
      BY <1>12, <3>2, <3>3, <3>4, <3>5
  <2> QED
    BY <2>1 DEF Owned
<1> QED
  BY <1>6, <1>11, <1>13, <1>14 DEF BuffersOK

LEMMA FeedBuffers ==
  ASSUME PathInv, FeedUser \/ BridgeFeeds
  PROVE  BuffersOK'
<1>0. BuffersOK /\ bridge \in [queue : Seq(Bufs), pkt : Bufs \cup {None}] /\ bridge.pkt \in Bufs \cup {None}
  BY BuffersNow DEF PathInv, TypeOK
<1>1. CASE FeedUser
  <2>1. UNCHANGED <<tick, bridge, out, prov>>
    BY <1>1 DEF FeedUser
  <2>2. CASE UNCHANGED <<pools, ring>>
    BY <1>0, <2>1, <2>2, BuffersQuiet DEF pools
  <2>3. ASSUME NEW r \in recv.run.rings, NEW c \in ForFrame, NEW pcm \in BOOLEAN,
               ring' = [ring EXCEPT ![r] = Feed(@, [buf |-> c, pcm |-> pcm])],
               Pools({c}, Evicted(ring[r]), {c}, Evicted(ring[r]))
        PROVE  BuffersOK'
    <3>1. r \in Rings
      BY DEF PathInv, TypeOK, Dispatches
    <3> QED
      BY <1>0, <2>1, <2>3, <3>1, FedBuffers
  <2> QED
    BY <1>1, <2>2, <2>3 DEF FeedUser
<1>2. CASE BridgeFeeds
  <2>1. /\ UNCHANGED <<tick, out, prov>> /\ bridge'.queue = bridge.queue /\ bridge'.pkt = None
        /\ bridge.pkt \in Bufs
    BY <1>0, <1>2 DEF BridgeFeeds
  <2>2. ASSUME NEW c \in ForFrame,
               ring' = [ring EXCEPT ![Relay] = Feed(@, [buf |-> c, pcm |-> TRUE])],
               Pools({c}, {bridge.pkt} \cup Evicted(ring[Relay]), {c}, Evicted(ring[Relay]))
        PROVE  BuffersOK'
    <3>1. Relay \in Rings
      BY DEF Rings
    <3> QED
      BY <1>0, <2>1, <2>2, <3>1, FedBuffers
  <2>3. ASSUME Pools({}, {bridge.pkt}, {}, {}), UNCHANGED ring PROVE BuffersOK'
    <3>1. bridge.pkt \notin pool
      <4>1. PICK k, x, y : OwnedBy(k, x, y, bridge.pkt)
        BY <1>0, <2>1 DEF BuffersOK, Owned
      <4> QED
        BY <4>1 DEF OwnedBy
    <3>2. ASSUME pool' = (pool \ {}) \cup {bridge.pkt} PROVE Owned'
      <4>1. ASSUME NEW b \in Bufs PROVE \E k, x, y : OwnedBy(k, x, y, b)'
        <5>0. b # None
          BY AudioConstants
        <5>1. PICK k, x, y : OwnedBy(k, x, y, b)
          BY <1>0 DEF BuffersOK, Owned
        <5>2. CASE b = bridge.pkt
          <6>1. k = "bridge"
            BY <5>1, <5>2 DEF OwnedBy
          <6>2. OwnedBy("pool", x, y, b)'
            BY <2>1, <2>3, <5>0, <5>1, <5>2, <6>1 DEF OwnedBy
          <6> QED
            BY <6>2
        <5>3. CASE b # bridge.pkt
          <6>1. OwnedBy(k, x, y, b)'
            BY <2>1, <2>3, <3>2, <5>0, <5>1, <5>3 DEF OwnedBy
          <6> QED
            BY <6>1
        <5> QED
          BY <5>2, <5>3
      <4> QED
        BY <4>1 DEF Owned
    <3>3. {bridge.pkt} \subseteq Bufs /\ {bridge.pkt} \cap (pool \ {}) = {} /\ tick'.frames = tick.frames
      BY <2>1, <3>1
    <3> QED
      BY <1>0, <2>3, <3>2, <3>3, RingsQuiet
  <2> QED
    BY <1>2, <2>2, <2>3 DEF BridgeFeeds
<1> QED
  BY <1>1, <1>2

\* Rings are emptied and their frames' buffers returned.
LEMMA DrainedBuffers ==
  ASSUME BuffersOK, NEW R \in SUBSET Rings, NEW put, put = UNION {Held(ring[r]) : r \in R},
         ring' = [r \in Rings |-> IF r \in R THEN NewSourceBuffer ELSE ring[r]],
         Pools({}, put, {}, put),
         UNCHANGED <<bridge, out, prov>>, tick'.frames = tick.frames, tick'.pkt = tick.pkt
  PROVE  BuffersOK'
<1>1. put \in SUBSET Bufs /\ put \cap pool = {} /\ put \cap pcmPool = {}
  BY HeldAlone
<1>2. /\ pool' = pool \cup put /\ pcmPool' = pcmPool \cup put
      /\ pool' \subseteq Bufs /\ pcmPool' \subseteq Bufs /\ twice' = FALSE
  <2>1. pool \subseteq Bufs /\ pcmPool \subseteq Bufs /\ twice = FALSE
    BY DEF BuffersOK
  <2> QED
    BY <1>1, <2>1, PoolsReturn
<1>3. ASSUME NEW r \in Rings
      PROVE  /\ ring'[r] \in SourceBuffers /\ RingOK(ring'[r])
             /\ Held(ring'[r]) = IF r \in R THEN {} ELSE Held(ring[r])
  <2>1. ring'[r] = IF r \in R THEN NewSourceBuffer ELSE ring[r]
    OBVIOUS
  <2> QED
    BY <2>1, NewRing, HeldAlone
<1>4. ring' \in [Rings -> SourceBuffers] /\ RingsOK'
  BY <1>3 DEF RingsOK
<1>5. PCMOwned'
  <2>1. ASSUME NEW b \in Bufs PROVE \E k, x : PCMOwnedBy(k, x, b)'
    <3>1. PICK k, x : PCMOwnedBy(k, x, b)
      BY DEF BuffersOK, PCMOwned
    <3>2. CASE b \in put
      <4>1. PICK r \in R : b \in Held(ring[r])
        BY <3>2
      <4>2. k = "ring" /\ x = r
        BY <3>1, <4>1 DEF PCMOwnedBy
      <4>3. PCMOwnedBy("pool", x, b)'
        BY <1>3, <3>1, <4>1, <4>2 DEF PCMOwnedBy
      <4> QED
        BY <4>3
    <3>3. CASE b \notin put
      <4>1. PCMOwnedBy(k, x, b)'
        BY <1>2, <1>3, <3>1, <3>3 DEF PCMOwnedBy
      <4> QED
        BY <4>1
    <3> QED
      BY <3>2, <3>3
  <2> QED
    BY <2>1 DEF PCMOwned
<1>6. Owned'
  <2>1. ASSUME NEW b \in Bufs PROVE \E k, x, y : OwnedBy(k, x, y, b)'
    <3>1. PICK k, x, y : OwnedBy(k, x, y, b)
      BY DEF BuffersOK, Owned
    <3>2. CASE b \in put
      <4>1. PICK r \in R : b \in Held(ring[r])
        BY <3>2
      <4>2. k = "ring" /\ x = r
        BY <3>1, <4>1 DEF OwnedBy
      <4>3. OwnedBy("pool", x, y, b)'
        BY <1>3, <3>1, <4>1, <4>2 DEF OwnedBy
      <4> QED
        BY <4>3
    <3>3. CASE b \notin put
      <4>1. OwnedBy(k, x, y, b)'
        BY <1>2, <1>3, <3>1, <3>3 DEF OwnedBy
      <4> QED
        BY <4>1
    <3> QED
      BY <3>2, <3>3
  <2> QED
    BY <2>1 DEF Owned
<1> QED
  BY <1>2, <1>4, <1>5, <1>6 DEF BuffersOK

LEMMA SwitchBuffers ==
  ASSUME PathInv, Teardown \/ Install
  PROVE  BuffersOK'
<1>0. BuffersOK /\ install \in Installs /\ switch.to \in Installs
  BY BuffersNow DEF PathInv, TypeOK
<1>1. CASE Teardown
  <2>1. UserRings(install) \in SUBSET Rings
    BY <1>0, UserRingsAreRings
  <2> QED
    BY <1>0, <1>1, <2>1, DrainedBuffers DEF Teardown
<1>2. CASE Install
  <2>1. UserRings(switch.to) \in SUBSET Rings
    BY <1>0, UserRingsAreRings
  <2> QED
    BY <1>0, <1>2, <2>1, DrainedBuffers DEF Install
<1> QED
  BY <1>1, <1>2

\* The mixer takes the oldest frame of an input.
LEMMA PoppedBuffers ==
  ASSUME BuffersOK, NEW r \in Rings, ring[r].n > 0, NEW f, f = Oldest(ring[r]),
         ring' = [ring EXCEPT ![r] = Pop(@)],
         UNCHANGED <<bridge, out, prov>>, tick'.pkt = tick.pkt,
         \/ tick'.frames = tick.frames \cup {f} /\ UNCHANGED pools
         \/ tick'.frames = tick.frames /\ Pools({}, {f.buf}, {}, {f.buf})
  PROVE  BuffersOK'
<1>1. PICK s : s = ring[r]
  OBVIOUS
<1>2. s \in SourceBuffers /\ RingOK(s) /\ Held(s) \subseteq Bufs /\ Held(s) \cap pool = {} /\ Held(s) \cap pcmPool = {}
  BY <1>1, HeldAlone
<1>3. /\ Pop(s) \in SourceBuffers /\ RingOK(Pop(s)) /\ f.buf \in Held(s)
      /\ Held(Pop(s)) = Held(s) \ {f.buf}
  BY <1>1, <1>2, PopRing
<1>4. /\ ring' \in [Rings -> SourceBuffers] /\ RingsOK'
      /\ ring'[r] = Pop(s) /\ \A q \in Rings : q # r => ring'[q] = ring[q]
  <2>1. ring' = [ring EXCEPT ![r] = Pop(s)]
    BY <1>1
  <2> QED
    BY <1>3, <2>1, RingsStep
<1>5. PICK c : c = f.buf
  OBVIOUS
<1>6. /\ c \in Held(ring[r]) /\ Held(ring'[r]) = Held(ring[r]) \ {c} /\ c \in Bufs
      /\ c \notin pool /\ c \notin pcmPool
  BY <1>1, <1>2, <1>3, <1>4, <1>5
<1>7. \/ /\ tick'.frames = tick.frames \cup {f} /\ pool' = pool /\ pcmPool' = pcmPool /\ twice' = FALSE
      \/ /\ tick'.frames = tick.frames /\ pool' = pool \cup {c} /\ pcmPool' = pcmPool \cup {c}
         /\ twice' = FALSE
  <2>1. CASE tick'.frames = tick.frames \cup {f} /\ UNCHANGED pools
    BY <2>1 DEF BuffersOK, pools
  <2>2. CASE tick'.frames = tick.frames /\ Pools({}, {f.buf}, {}, {f.buf})
    <3>1. pool \subseteq Bufs /\ pcmPool \subseteq Bufs /\ twice = FALSE
      BY DEF BuffersOK
    <3>2. {c} \in SUBSET Bufs /\ {c} \cap pool = {} /\ {c} \cap pcmPool = {} /\ Pools({}, {c}, {}, {c})
      BY <1>5, <1>6, <2>2
    <3>3. pool' = pool \cup {c} /\ pcmPool' = pcmPool \cup {c} /\ twice' = FALSE
      BY <3>1, <3>2, PoolsReturn
    <3> QED
      BY <2>2, <3>3
  <2> QED
    BY <2>1, <2>2
<1>8. PCMOwned'
  <2>1. ASSUME NEW b \in Bufs PROVE \E k, x : PCMOwnedBy(k, x, b)'
    <3>1. PICK k, x : PCMOwnedBy(k, x, b)
      BY DEF BuffersOK, PCMOwned
    <3>2. CASE b = c
      <4>1. k = "ring" /\ x = r
        BY <1>6, <3>1, <3>2 DEF PCMOwnedBy
      <4>2. PCMOwnedBy("tick", f, b)' \/ PCMOwnedBy("pool", x, b)'
        BY <1>4, <1>6, <1>7, <3>1, <3>2, <4>1 DEF PCMOwnedBy
      <4> QED
        BY <4>2
    <3>3. CASE b # c
      <4>1. PCMOwnedBy(k, x, b)'
        BY <1>4, <1>5, <1>6, <1>7, <3>1, <3>3 DEF PCMOwnedBy
      <4> QED
        BY <4>1
    <3> QED
      BY <3>2, <3>3
  <2> QED
    BY <2>1 DEF PCMOwned
<1>9. Owned'
  <2>1. ASSUME NEW b \in Bufs PROVE \E k, x, y : OwnedBy(k, x, y, b)'
    <3>1. PICK k, x, y : OwnedBy(k, x, y, b)
      BY DEF BuffersOK, Owned
    <3>2. CASE b = c
      <4>1. k = "ring" /\ x = r
        BY <1>6, <3>1, <3>2 DEF OwnedBy
      <4>2. CASE tick'.frames = tick.frames \cup {f} /\ pool' = pool
        <5>1. OwnedBy("tick", f, y, b)'
          BY <1>4, <1>6, <3>1, <3>2, <4>1, <4>2 DEF OwnedBy
        <5> QED
          BY <5>1
      <4>3. CASE tick'.frames = tick.frames /\ pool' = pool \cup {c}
        <5>1. OwnedBy("pool", x, y, b)'
          BY <1>4, <1>6, <3>1, <3>2, <4>1, <4>3 DEF OwnedBy
        <5> QED
          BY <5>1
      <4> QED
        BY <1>7, <4>2, <4>3
    <3>3. CASE b # c
      <4>1. OwnedBy(k, x, y, b)'
        BY <1>4, <1>5, <1>6, <1>7, <3>1, <3>3 DEF OwnedBy
      <4> QED
        BY <4>1
    <3> QED
      BY <3>2, <3>3
  <2> QED
    BY <2>1 DEF Owned
<1>10. pool' \subseteq Bufs /\ pcmPool' \subseteq Bufs
  BY <1>6, <1>7 DEF BuffersOK
<1> QED
  BY <1>4, <1>7, <1>8, <1>9, <1>10 DEF BuffersOK

LEMMA CollectBuffers ==
  ASSUME PathInv, NEW r \in Rings, Collect(r)
  PROVE  BuffersOK'
<1>0. BuffersOK /\ tick \in Ticks /\ UNCHANGED <<bridge, out, prov>>
  BY BuffersNow DEF PathInv, TypeOK, Collect
<1>1. PICK f : f = Oldest(ring[r])
  OBVIOUS
<1>2. PICK left : left = tick.entries \ {r}
  OBVIOUS
<1>3. CASE /\ ring' = [ring EXCEPT ![r] = NewSourceBuffer]
           /\ Pools({}, Held(ring[r]), {}, Held(ring[r]))
           /\ tick' = [tick EXCEPT !.entries = left]
  <2>1. tick'.frames = tick.frames /\ tick'.pkt = tick.pkt
    BY <1>0, <1>3 DEF Ticks
  <2>2. Held(ring[r]) = UNION {Held(ring[x]) : x \in {r}}
    OBVIOUS
  <2>3. ring' = [x \in Rings |-> IF x \in {r} THEN NewSourceBuffer ELSE ring[x]]
    BY <1>0, <1>3 DEF BuffersOK
  <2>4. {r} \in SUBSET Rings
    OBVIOUS
  <2> QED
    BY <1>0, <1>3, <2>1, <2>2, <2>3, <2>4, DrainedBuffers
<1>4. CASE tick' = [tick EXCEPT !.entries = left] /\ UNCHANGED <<pools, ring>>
  <2>1. tick'.frames = tick.frames /\ tick'.pkt = tick.pkt
    BY <1>0, <1>4 DEF Ticks
  <2> QED
    BY <1>0, <1>4, <2>1, BuffersQuiet DEF pools
<1>5. CASE /\ ring[r].n > 0 /\ ring' = [ring EXCEPT ![r] = Pop(@)]
           /\ tick' = [tick EXCEPT !.entries = left, !.frames = IF f.pcm THEN @ \cup {f} ELSE @]
           /\ IF f.pcm THEN UNCHANGED pools ELSE Pools({}, {f.buf}, {}, {f.buf})
  <2>1. /\ tick'.pkt = tick.pkt
        /\ tick'.frames = IF f.pcm THEN tick.frames \cup {f} ELSE tick.frames
    BY <1>0, <1>5 DEF Ticks
  <2> QED
    BY <1>0, <1>1, <1>5, <2>1, PoppedBuffers
<1> QED
  BY <1>1, <1>2, <1>3, <1>4, <1>5 DEF Collect

\* The end of a tick gives the PCM buffers of its frames back.
LEMMA MixedBuffers ==
  ASSUME BuffersOK, NEW held, held = {f.buf : f \in tick.frames}, held \subseteq Bufs,
         UNCHANGED <<ring, bridge, out, prov>>, tick.pkt = None, tick'.frames = {},
         NEW got, NEW put, Pools(got, put, {}, held), put \subseteq held,
         \/ tick'.pkt = None
         \/ tick'.pkt \in pool \cup held /\ tick'.pkt \notin (pool \ got) \cup put
  PROVE  BuffersOK'
<1>1. ASSUME NEW b \in held PROVE b \notin pool /\ b \notin pcmPool
  <2>1. PICK f \in tick.frames : f.buf = b
    BY <1>1
  <2>2. PICK k, x, y : OwnedBy(k, x, y, b)
    BY <1>1 DEF BuffersOK, Owned
  <2>3. PICK l, z : PCMOwnedBy(l, z, b)
    BY <1>1 DEF BuffersOK, PCMOwned
  <2> QED
    BY <2>1, <2>2, <2>3 DEF OwnedBy, PCMOwnedBy
<1>2. /\ pool' = (pool \ got) \cup put /\ pcmPool' = pcmPool \cup held
      /\ pool' \subseteq Bufs /\ pcmPool' \subseteq Bufs /\ twice' = FALSE
  <2>1. pool \subseteq Bufs /\ pcmPool \subseteq Bufs /\ twice = FALSE
    BY DEF BuffersOK
  <2>2. /\ put \subseteq Bufs /\ put \cap (pool \ got) = {}
        /\ held \cap (pcmPool \ {}) = {}
    BY <1>1
  <2>3. /\ pool' = (pool \ got) \cup put /\ pcmPool' = (pcmPool \ {}) \cup held
        /\ pool' \subseteq Bufs /\ pcmPool' \subseteq Bufs
    BY <2>1 DEF Pools
  <2>4. twice' = (FALSE \/ put \cap (pool \ got) # {} \/ held \cap (pcmPool \ {}) # {})
    BY <2>1 DEF Pools
  <2>5. twice' = FALSE
    BY <2>2, <2>4
  <2> QED
    BY <2>3, <2>5
<1>3. PCMOwned'
  <2>1. ASSUME NEW b \in Bufs PROVE \E k, x : PCMOwnedBy(k, x, b)'
    <3>1. PICK k, x : PCMOwnedBy(k, x, b)
      BY DEF BuffersOK, PCMOwned
    <3>2. CASE b \in held
      <4>1. k = "tick"
        BY <3>1, <3>2 DEF PCMOwnedBy
      <4>2. PCMOwnedBy("pool", x, b)'
        BY <3>1, <4>1 DEF PCMOwnedBy
      <4> QED
        BY <4>2
    <3>3. CASE b \notin held
      <4>1. PCMOwnedBy(k, x, b)'
        BY <1>2, <3>1, <3>3 DEF PCMOwnedBy
      <4> QED
        BY <4>1
    <3> QED
      BY <3>2, <3>3
  <2> QED
    BY <2>1 DEF PCMOwned
<1>4. Owned'
  <2>1. ASSUME NEW b \in Bufs PROVE \E k, x, y : OwnedBy(k, x, y, b)'
    <3>0. b # None
      BY AudioConstants
    <3>1. PICK k, x, y : OwnedBy(k, x, y, b)
      BY DEF BuffersOK, Owned
    <3>2. CASE b = tick'.pkt
      <4>1. k \in {"pool", "tick"} /\ b \notin pool'
        BY <1>2, <3>0, <3>1, <3>2 DEF OwnedBy
      <4>2. OwnedBy("pkt", x, y, b)'
        BY <3>1, <4>1 DEF OwnedBy
      <4> QED
        BY <4>2
    <3>3. CASE b # tick'.pkt /\ b \in held
      <4>1. k = "tick"
        BY <3>1, <3>3 DEF OwnedBy
      <4>2. OwnedBy("pool", x, y, b)'
        BY <3>1, <3>3, <4>1 DEF OwnedBy
      <4> QED
        BY <4>2
    <3>4. CASE b # tick'.pkt /\ b \notin held
      <4>1. OwnedBy(k, x, y, b)'
        BY <1>2, <3>1, <3>4 DEF OwnedBy
      <4> QED
        BY <4>1
    <3> QED
      BY <3>2, <3>3, <3>4
  <2> QED
    BY <2>1 DEF Owned
<1>5. RingsOK' /\ ring' \in [Rings -> SourceBuffers]
  BY DEF BuffersOK, RingsOK
<1> QED
  BY <1>2, <1>3, <1>4, <1>5 DEF BuffersOK

LEMMA MixBuffers ==
  ASSUME PathInv, TickMix
  PROVE  BuffersOK'
<1>0. /\ BuffersOK /\ tick.pkt = None /\ UNCHANGED <<ring, bridge, out, prov>> /\ IsFiniteSet(tick.frames)
      /\ tick.frames \subseteq Frames
  BY BuffersNow DEF PathInv, TypeOK, Ticks, TickInv, TickMix
<1>1. PICK held : held = {f.buf : f \in tick.frames}
  OBVIOUS
<1>2. held \subseteq Bufs /\ None \notin held
  BY <1>0, <1>1, EmptySlot
<1>3. ASSUME NEW c PROVE LET t == [NoTick EXCEPT !.pc = "emit", !.pkt = c, !.at = 1] IN
                         t.frames = {} /\ t.pkt = c
  BY DEF NoTick
<1>4. \A c \in held : c \notin pool
  <2>1. ASSUME NEW c \in held PROVE c \notin pool
    <3>1. PICK f \in tick.frames : f.buf = c
      BY <1>1, <2>1
    <3>2. PICK k, x, y : OwnedBy(k, x, y, c)
      BY <1>0, <1>2 DEF BuffersOK, Owned
    <3> QED
      BY <3>1, <3>2 DEF OwnedBy
  <2> QED
    BY <2>1
<1>5. CASE tick.frames = {} /\ tick' = NoTick /\ UNCHANGED pools
  <2>1. tick'.frames = tick.frames /\ tick'.pkt = tick.pkt
    BY <1>0, <1>5, NoTickType
  <2> QED
    BY <1>0, <1>5, <2>1, BuffersQuiet DEF pools
<1>6. ASSUME NEW c \in held, tick' = [NoTick EXCEPT !.pc = "emit", !.pkt = c, !.at = 1],
             Pools({}, {}, {}, held)
      PROVE  BuffersOK'
  <2>1. tick'.frames = {} /\ tick'.pkt = c
    BY <1>3, <1>6
  <2>2. c \in pool \cup held /\ c \notin (pool \ {}) \cup {} /\ {} \subseteq held
    BY <1>4
  <2> QED
    BY <1>0, <1>1, <1>2, <1>6, <2>1, <2>2, MixedBuffers
<1>7. CASE tick' = NoTick /\ Pools({}, held, {}, held)
  <2>1. tick'.frames = {} /\ tick'.pkt = None /\ held \subseteq held
    BY <1>7, NoTickType
  <2> QED
    BY <1>0, <1>1, <1>2, <1>7, <2>1, MixedBuffers
<1>8. ASSUME NEW c \in pool, tick' = [NoTick EXCEPT !.pc = "emit", !.pkt = c, !.at = 1],
             Pools({c}, held, {}, held)
      PROVE  BuffersOK'
  <2>1. tick'.frames = {} /\ tick'.pkt = c
    BY <1>3, <1>8
  <2>2. c \in pool \cup held /\ c \notin (pool \ {c}) \cup held /\ held \subseteq held
    BY <1>4
  <2> QED
    BY <1>0, <1>1, <1>2, <1>8, <2>1, <2>2, MixedBuffers
<1> QED
  BY <1>1, <1>5, <1>6, <1>7, <1>8 DEF TickMix

-----------------------------------------------------------------------------
(***************************************************************************)
(* The inductive invariant.                                                *)
(***************************************************************************)

LEMMA TypesOfParts ==
  ASSUME OtherTypes, BuffersOK
  PROVE  TypeOK
BY DEF OtherTypes, BuffersOK, TypeOK

LEMMA TickQuiet ==
  ASSUME TickInv, UNCHANGED tick
  PROVE  TickInv'
BY DEF TickInv

LEMMA PathInit == Init => PathInv
<1> SUFFICES ASSUME Init PROVE PathInv
  OBVIOUS
<1>1. OtherTypes
  <2>1. Off \in Installs /\ NoTick \in Ticks /\ NoDispatch \in Dispatches /\ NoCache \in Caches
    BY NoTickType, Speakers, AudioConstants DEF Off, Installs, NoDispatch, Dispatches, NoCache, Caches
  <2>2. <<>> \in Seq(Bufs) /\ Len(<<>>) = 0
    BY EmptySeq
  <2>3. AudioChanBuf \in Nat
    BY AudioConstants DEF AudioChanBuf
  <2>4. inputs \subseteq Rings
    BY DEF Init, Rings
  <2>5. switch \in [pc : {"idle", "teardown", "install", "resume"}, to : Installs]
        /\ stray \in [tick : Nat, recv : Nat] /\ recv \in [run : Dispatches, cache : Caches]
    BY <2>1 DEF Init
  <2>6. bridge \in [queue : Seq(Bufs), pkt : Bufs \cup {None}] /\ Len(bridge.queue) <= AudioChanBuf
    BY <2>2, <2>3 DEF Init
  <2>7. /\ out \in [OutSet -> Seq(Bufs)] /\ \A o \in OutSet : Len(out[o]) <= AudioChanBuf
        /\ prov \in [OutSet -> Bufs \cup {None}]
    BY <2>2, <2>3 DEF Init
  <2>8. 0 \in 0 .. MaxPackets /\ 0 \in 0 .. MaxRelayed /\ 0 \in 0 .. MaxSwitches
    BY AudioConstants
  <2>9. /\ paused \in BOOLEAN /\ closed \in BOOLEAN /\ install \in Installs /\ tick \in Ticks
        /\ packets \in 0 .. MaxPackets /\ relayed \in 0 .. MaxRelayed /\ switches \in 0 .. MaxSwitches
    BY <2>1, <2>8 DEF Init
  <2> QED
    BY <2>4, <2>5, <2>6, <2>7, <2>9 DEF OtherTypes
<1>2. BuffersOK
  <2>1. \A r \in Rings : ring[r] = NewSourceBuffer
    BY DEF Init
  <2>2. ring \in [Rings -> SourceBuffers] /\ RingsOK
    BY NewRing, <2>1 DEF Init, RingsOK
  <2>3. tick.frames = {} /\ tick.pkt = None /\ bridge.pkt = None /\ Len(bridge.queue) = 0
        /\ \A o \in OutSet : Len(out[o]) = 0 /\ prov[o] = None
    BY NoTickType, EmptySeq DEF Init
  <2>4. ASSUME NEW b \in Bufs PROVE OwnedBy("pool", None, None, b) /\ PCMOwnedBy("pool", None, b)
    <3>1. b # None /\ \A r \in Rings : b \notin Held(ring[r])
      BY <2>1, NewRing, AudioConstants
    <3> QED
      BY <2>3, <3>1 DEF OwnedBy, PCMOwnedBy
  <2>5. Owned /\ PCMOwned
    BY <2>4 DEF Owned, PCMOwned
  <2> QED
    BY <2>2, <2>5 DEF Init, BuffersOK
<1>3. TickInv
  BY NoTickType DEF Init, TickInv
<1>4. CacheInv
  BY DEF Init, CacheInv, FedToItsRing, NoDispatch, NoCache, Off
<1>5. StrayInv
  BY NoTickType DEF Init, StrayInv, AtMostOneStray, MixerMayStray, ReceiverMayStray, NoDispatch, Off
<1> QED
  BY <1>1, <1>2, <1>3, <1>4, <1>5, TypesOfParts DEF PathInv, BuffersOK

LEMMA PathOfParts ==
  ASSUME OtherTypes', BuffersOK', TickInv', CacheInv', StrayInv'
  PROVE  PathInv'
<1>1. ~twice'
  BY DEF BuffersOK
<1>2. TypeOK'
  BY DEF OtherTypes, BuffersOK, TypeOK
<1> QED
  BY <1>1, <1>2 DEF PathInv, BuffersOK

\* One step, by component.
LEMMA PathStep == PathInv /\ [Next]_vars => PathInv'
<1> SUFFICES ASSUME PathInv, [Next]_vars PROVE PathInv'
  OBVIOUS
<1>0. BuffersOK /\ TickInv /\ CacheInv /\ StrayInv /\ OtherTypes
  BY BuffersNow DEF PathInv, TypeOK, OtherTypes
<1>1. ASSUME SendRaw \/ FeedUser \/ \E u \in Users : Receive(u) \/ CleanupUser(u) PROVE PathInv'
  <2>1. OtherTypes' /\ CacheInv' /\ StrayInv'
    BY <1>1, DispatchTypes, CacheOfReceiver, StrayOfReceiver
  <2>2. TickInv'
    BY <1>0, <1>1, TickQuiet DEF SendRaw, FeedUser, Receive, CleanupUser
  <2>3. BuffersOK'
    <3>1. CASE SendRaw
      BY <3>1, SendRawBuffers
    <3>2. CASE FeedUser
      BY <3>2, FeedBuffers
    <3>3. CASE \E u \in Users : Receive(u) \/ CleanupUser(u)
      BY <1>0, <3>3, BuffersQuiet DEF Receive, CleanupUser, pools
    <3> QED
      BY <1>1, <3>1, <3>2, <3>3
  <2> QED
    BY <2>1, <2>2, <2>3, PathOfParts
<1>2. ASSUME RelayArrives \/ BridgeTakes \/ BridgeFeeds PROVE PathInv'
  <2>1. OtherTypes'
    BY <1>2, BridgeTypes
  <2>2. TickInv' /\ CacheInv' /\ StrayInv'
    BY <1>0, <1>2, TickQuiet, CacheQuiet, StrayQuiet DEF RelayArrives, BridgeTakes, BridgeFeeds, bounds
  <2>3. BuffersOK'
    BY <1>2, RelayArrivesBuffers, BridgeTakesBuffers, FeedBuffers
  <2> QED
    BY <2>1, <2>2, <2>3, PathOfParts
<1>3. ASSUME TickStart \/ TickMix \/ TickEmits PROVE PathInv'
  <2>1. OtherTypes' /\ TickInv' /\ StrayInv'
    BY <1>3, TickTypes, StrayOfMixer
  <2>2. CacheInv'
    BY <1>0, <1>3, CacheQuiet DEF TickStart, TickMix, TickEmits, Emit, bounds
  <2>3. BuffersOK'
    <3>1. CASE TickStart
      <4>1. tick.frames = {} /\ tick.pkt = None
        BY <1>0, <3>1 DEF TickStart, TickInv
      <4>2. tick'.frames = {} /\ tick'.pkt = None
        BY <3>1 DEF TickStart, NoTick
      <4> QED
        BY <1>0, <3>1, <4>1, <4>2, BuffersQuiet DEF TickStart, pools
    <3> QED
      BY <1>3, <3>1, MixBuffers, EmitBuffers
  <2> QED
    BY <2>1, <2>2, <2>3, PathOfParts
<1>4. ASSUME NEW r \in Rings, Collect(r) PROVE PathInv'
  <2>1. CacheInv'
    BY <1>0, <1>4, CacheQuiet DEF Collect, bounds
  <2> QED
    BY <1>4, <2>1, CollectTypes, StrayOfMixer, CollectBuffers, PathOfParts
<1>5. ASSUME NEW o \in OutSet, ProvideOpusFrame(o) \/ ProvideFails(o) \/ DiscardFrame(o) PROVE PathInv'
  <2>1. TickInv' /\ CacheInv' /\ StrayInv'
    BY <1>0, <1>5, TickQuiet, CacheQuiet, StrayQuiet DEF ProvideOpusFrame, ProvideFails, DiscardFrame, bounds
  <2> QED
    BY <1>5, <2>1, ProviderTypes, ProviderBuffers, PathOfParts
<1>6. CASE CloseProviders
  <2>1. OtherTypes'
    BY <1>6, SwitchTypes
  <2>2. TickInv' /\ CacheInv' /\ StrayInv' /\ BuffersOK'
    BY <1>0, <1>6, TickQuiet, CacheQuiet, StrayQuiet, BuffersQuiet DEF CloseProviders, bounds, pools
  <2> QED
    BY <2>1, <2>2, PathOfParts
<1>7. ASSUME \/ Teardown \/ Install \/ Resume
             \/ \E mode \in {"off", "copy", "mix"}, users \in SUBSET Users : SwitchTo(mode, users)
      PROVE  PathInv'
  <2>1. OtherTypes'
    BY <1>7, SwitchTypes
  <2>2. CacheInv' /\ StrayInv'
    BY <1>7, CacheOfSwitch, StrayOfSwitch
  <2>3. TickInv'
    BY <1>0, <1>7, TickQuiet DEF Teardown, Install, Resume, SwitchTo, Begins
  <2>4. BuffersOK'
    <3>1. CASE Teardown \/ Install
      BY <3>1, SwitchBuffers
    <3>2. CASE Resume
      BY <1>0, <3>2, BuffersQuiet DEF Resume, pools
    <3>3. CASE \E mode \in {"off", "copy", "mix"}, users \in SUBSET Users : SwitchTo(mode, users)
      BY <1>0, <3>3, BuffersQuiet DEF SwitchTo, Begins, pools
    <3> QED
      BY <1>7, <3>1, <3>2, <3>3
  <2> QED
    BY <2>1, <2>2, <2>3, <2>4, PathOfParts
<1>8. CASE UNCHANGED vars
  <2>1. UNCHANGED <<pool, pcmPool, twice, ring, inputs, paused, install, tick, recv, bridge, out, prov,
                    closed, switch, stray, packets, relayed, switches>>
    BY <1>8 DEF vars, pools, bounds
  <2>2. OtherTypes'
    BY <1>0, <2>1 DEF OtherTypes
  <2>3. TickInv' /\ CacheInv' /\ StrayInv' /\ BuffersOK'
    BY <1>0, <2>1, TickQuiet, CacheQuiet, StrayQuiet, BuffersQuiet
  <2> QED
    BY <2>2, <2>3, PathOfParts
<1> QED
  BY <1>1, <1>2, <1>3, <1>4, <1>5, <1>6, <1>7, <1>8 DEF Next

THEOREM PathIsSafe == Spec => []PathInv
BY PathInit, PathStep, PTL DEF Spec

-----------------------------------------------------------------------------
(***************************************************************************)
(* What follows.                                                           *)
(***************************************************************************)

LEMMA AtMostOne ==
  ASSUME NEW S, NEW t, S \subseteq {t}
  PROVE  Cardinality(S) \in {0, 1} /\ (S = {} => Cardinality(S) = 0)
<1>1. S = {} \/ S = {t}
  OBVIOUS
<1> QED
  BY <1>1, FS_EmptySet, FS_Singleton

\* A buffer with an owner is nowhere else.
LEMMA OwnerHolds ==
  ASSUME PathInv, NEW b \in Bufs
  PROVE  Cardinality(Holders(b)) + Cardinality(pool \cap {b}) <= 1
<1>1. PICK k, p, q : OwnedBy(k, p, q, b)
  BY DEF PathInv, Owned
<1>2. InRings(b) \subseteq {<<"ring", p>>} /\ (InRings(b) # {} => k = "ring")
  BY <1>1 DEF OwnedBy, InRings
<1>3. InTick(b) \subseteq {<<"tick", p>>} /\ (InTick(b) # {} => k = "tick")
  BY <1>1 DEF OwnedBy, InTick
<1>4. InPackets(b) \subseteq {<<"pkt", b>>} /\ (InPackets(b) # {} => k = "pkt")
  BY <1>1 DEF OwnedBy, InPackets
<1>5. InBridge(b) \subseteq {<<"bridge", b>>} /\ (InBridge(b) # {} => k = "bridge")
  BY <1>1 DEF OwnedBy, InBridge
<1>6. InRelay(b) \subseteq {<<"relay", p>>} /\ (InRelay(b) # {} => k = "relay")
  <2>1. DOMAIN bridge.queue = 1 .. Len(bridge.queue)
    BY LenProperties DEF PathInv, TypeOK
  <2> QED
    BY <1>1, <2>1 DEF OwnedBy, InRelay
<1>7. InQueues(b) \subseteq {<<"out", p, q>>} /\ (InQueues(b) # {} => k = "out")
  <2>1. \A o \in OutSet : DOMAIN out[o] = 1 .. Len(out[o])
    BY LenProperties DEF PathInv, TypeOK
  <2> QED
    BY <1>1, <2>1 DEF OwnedBy, InQueues
<1>8. InProviders(b) \subseteq {<<"prev", p>>} /\ (InProviders(b) # {} => k = "prev")
  BY <1>1 DEF OwnedBy, InProviders
<1>9. Holders(b) = InRings(b) \cup InTick(b) \cup InPackets(b) \cup InBridge(b) \cup InRelay(b) \cup InQueues(b) \cup InProviders(b)
  BY DEF Holders
<1>10. b \in pool => k = "pool"
  BY <1>1 DEF OwnedBy
<1>11. \E t : Holders(b) \subseteq {t}
  <2>1. CASE InRings(b) # {}
    BY <1>2, <1>3, <1>4, <1>5, <1>6, <1>7, <1>8, <1>9, <2>1
  <2>2. CASE InTick(b) # {}
    BY <1>2, <1>3, <1>4, <1>5, <1>6, <1>7, <1>8, <1>9, <2>2
  <2>3. CASE InPackets(b) # {}
    BY <1>2, <1>3, <1>4, <1>5, <1>6, <1>7, <1>8, <1>9, <2>3
  <2>4. CASE InBridge(b) # {}
    BY <1>2, <1>3, <1>4, <1>5, <1>6, <1>7, <1>8, <1>9, <2>4
  <2>5. CASE InRelay(b) # {}
    BY <1>2, <1>3, <1>4, <1>5, <1>6, <1>7, <1>8, <1>9, <2>5
  <2>6. CASE InQueues(b) # {}
    BY <1>2, <1>3, <1>4, <1>5, <1>6, <1>7, <1>8, <1>9, <2>6
  <2>7. CASE InProviders(b) # {}
    BY <1>2, <1>3, <1>4, <1>5, <1>6, <1>7, <1>8, <1>9, <2>7
  <2> QED
    BY <1>9, <2>1, <2>2, <2>3, <2>4, <2>5, <2>6, <2>7
<1>12. PICK t : Holders(b) \subseteq {t}
  BY <1>11
<1>13. b \in pool => Holders(b) = {}
  BY <1>2, <1>3, <1>4, <1>5, <1>6, <1>7, <1>8, <1>9, <1>10
<1>14. Cardinality(Holders(b)) \in {0, 1} /\ (Holders(b) = {} => Cardinality(Holders(b)) = 0)
  BY <1>12, AtMostOne
<1>15. /\ Cardinality(pool \cap {b}) \in {0, 1}
       /\ (b \notin pool => Cardinality(pool \cap {b}) = 0)
  <2>1. pool \cap {b} \subseteq {b} /\ (b \notin pool => pool \cap {b} = {})
    OBVIOUS
  <2> QED
    BY <2>1, AtMostOne
<1> QED
  BY <1>13, <1>14, <1>15

LEMMA PCMOwnerHolds ==
  ASSUME PathInv, NEW b \in Bufs
  PROVE  Cardinality(PCMHolders(b)) + Cardinality(pcmPool \cap {b}) <= 1
<1>1. PICK k, x : PCMOwnedBy(k, x, b)
  BY DEF PathInv, PCMOwned
<1>2. InRings(b) \subseteq {<<"ring", x>>} /\ (InRings(b) # {} => k = "ring")
  BY <1>1 DEF PCMOwnedBy, InRings
<1>3. InTick(b) \subseteq {<<"tick", x>>} /\ (InTick(b) # {} => k = "tick")
  BY <1>1 DEF PCMOwnedBy, InTick
<1>4. PCMHolders(b) = InRings(b) \cup InTick(b)
  BY DEF PCMHolders
<1>5. b \in pcmPool => k = "pool"
  BY <1>1 DEF PCMOwnedBy
<1>6. PICK t : PCMHolders(b) \subseteq {t}
  BY <1>2, <1>3, <1>4
<1>7. b \in pcmPool => PCMHolders(b) = {}
  BY <1>2, <1>3, <1>4, <1>5
<1>8. Cardinality(PCMHolders(b)) \in {0, 1} /\ (PCMHolders(b) = {} => Cardinality(PCMHolders(b)) = 0)
  BY <1>6, AtMostOne
<1>9. /\ Cardinality(pcmPool \cap {b}) \in {0, 1}
      /\ (b \notin pcmPool => Cardinality(pcmPool \cap {b}) = 0)
  <2>1. pcmPool \cap {b} \subseteq {b} /\ (b \notin pcmPool => pcmPool \cap {b} = {})
    OBVIOUS
  <2> QED
    BY <2>1, AtMostOne
<1> QED
  BY <1>7, <1>8, <1>9

\* Whatever is evicted, drained, skipped, copied or returned, a pooled buffer is
\* in one place, and a packet goes to the ring of its own user and install
\* (helpers.go:61-64, voice_receiver.go:193-197).
THEOREM BuffersHaveOneOwner == Spec => []AudioPathInv
<1>1. PathInv => AudioPathInv
  <2> SUFFICES ASSUME PathInv PROVE AudioPathInv
    OBVIOUS
  <2>1. OneOwner
    BY OwnerHolds, PCMOwnerHolds DEF OneOwner, PathInv
  <2> QED
    BY <2>1 DEF AudioPathInv, PathInv, CacheInv
<1> QED
  BY <1>1, PathIsSafe, PTL

\* Pausing the mixer before the install and resuming it after leaves one packet
\* of each goroutine to stray into the queues (router.go:476-481).
THEOREM StraysAreFew == Spec => []AtMostOneStray
<1>1. PathInv => AtMostOneStray
  BY DEF PathInv, StrayInv
<1> QED
  BY <1>1, PathIsSafe, PTL

\* A provider takes one packet off its queue and skips none: with a queue no
\* longer than the soft threshold, and that read first, the bleed-off of
\* voice_provider.go:77-107 never engages, whatever the threshold.
THEOREM NothingIsBledOff ==
  Spec => [][\A o \in OutSet : ProvideOpusFrame(o) => out'[o] = Tail(out[o])]_vars
<1>1. PathInv /\ [Next]_vars => [\A o \in OutSet : ProvideOpusFrame(o) => out'[o] = Tail(out[o])]_vars
  <2> SUFFICES ASSUME PathInv, NEW o \in OutSet, ProvideOpusFrame(o) PROVE out'[o] = Tail(out[o])
    OBVIOUS
  <2>1. out' = [out EXCEPT ![o] = Tail(@)] /\ out \in [OutSet -> Seq(Bufs)]
    BY ProvideEffect DEF PathInv, TypeOK
  <2> QED
    BY <2>1
<1> QED
  BY <1>1, PathIsSafe, PTL DEF Spec

-----------------------------------------------------------------------------
(***************************************************************************)
(* The rings implement the queues.                                         *)
(***************************************************************************)

\* What the readers of the rings see.
Seen == [r \in Rings |-> Contents(ring[r])]

LEMMA QueueSame ==
  ASSUME UNCHANGED ring
  PROVE  UNCHANGED Seen
BY DEF Seen

LEMMA OneQueue ==
  ASSUME NEW r \in Rings, NEW c, Contents(ring'[r]) = c, \A q \in Rings : q # r => ring'[q] = ring[q]
  PROVE  Seen' = [Seen EXCEPT ![r] = c]
<1>1. Seen' = [q \in Rings |-> Contents(ring'[q])]
  BY DEF Seen
<1>2. [Seen EXCEPT ![r] = c] = [q \in Rings |-> IF q = r THEN c ELSE Contents(ring[q])]
  BY DEF Seen
<1>3. \A q \in Rings : Contents(ring'[q]) = IF q = r THEN c ELSE Contents(ring[q])
  OBVIOUS
<1> QED
  BY <1>1, <1>2, <1>3

LEMMA QueueFed ==
  ASSUME PathInv, NEW r \in Rings, NEW c \in ForFrame, NEW pcm \in BOOLEAN,
         ring' = [ring EXCEPT ![r] = Feed(@, [buf |-> c, pcm |-> pcm])]
  PROVE  Queues!Next
<1>1. PICK f : f = [buf |-> c, pcm |-> pcm]
  OBVIOUS
<1>2. PICK s : s = ring[r]
  OBVIOUS
<1>3. BuffersOK
  BY BuffersNow
<1>4. f \in Frames /\ f.buf = c /\ c \in pool
  BY <1>1, <1>3 DEF ForFrame, BuffersOK, Frames
<1>5. s \in SourceBuffers /\ RingOK(s) /\ f.buf \notin Held(s)
  BY <1>2, <1>3, <1>4, HeldAlone
<1>6. Contents(Feed(s, f)) = Append(IF Len(Contents(s)) = Cap THEN Tail(Contents(s)) ELSE Contents(s), f)
  BY <1>4, <1>5, FeedIsQueue
<1>7. ring'[r] = Feed(s, f) /\ \A q \in Rings : q # r => ring'[q] = ring[q]
  BY <1>1, <1>2, <1>3 DEF BuffersOK
<1>8. Seen' = [Seen EXCEPT ![r] =
                    Append(IF Len(Contents(s)) = Cap THEN Tail(Contents(s)) ELSE Contents(s), f)]
  BY <1>6, <1>7, OneQueue
<1>9. Seen[r] = Contents(s)
  BY <1>2 DEF Seen
<1>10. Seen' = [Seen EXCEPT ![r] = Append(IF Len(@) = Cap THEN Tail(@) ELSE @, f)]
  BY <1>8, <1>9
<1>11. Queues!Feed(r, f)
  BY <1>10 DEF Queues!Feed, Seen
<1> QED
  BY <1>4, <1>11 DEF Queues!Next

LEMMA QueueDrained ==
  ASSUME NEW R \in SUBSET Rings,
         ring' = [r \in Rings |-> IF r \in R THEN NewSourceBuffer ELSE ring[r]]
  PROVE  Queues!Next
<1>1. \A r \in Rings : Contents(ring'[r]) \in {Contents(ring[r]), <<>>}
  BY NewRing
<1>2. Queues!Drain
  BY <1>1 DEF Queues!Drain
<1> QED
  BY <1>2 DEF Queues!Next

LEMMA QueuePulled ==
  ASSUME PathInv, NEW r \in Rings, ring[r].n > 0, ring' = [ring EXCEPT ![r] = Pop(@)]
  PROVE  Queues!Next
<1>1. PICK s : s = ring[r]
  OBVIOUS
<1>2. Contents(s) # <<>> /\ Contents(Pop(s)) = Tail(Contents(s))
  BY <1>1, BuffersNow, HeldAlone, PopRing
<1>3. ring'[r] = Pop(s) /\ \A q \in Rings : q # r => ring'[q] = ring[q]
  BY <1>1, BuffersNow DEF BuffersOK
<1>4. Seen[r] = Contents(s) /\ Seen' = [Seen EXCEPT ![r] = Tail(@)]
  <2>1. Seen' = [Seen EXCEPT ![r] = Tail(Contents(s))]
    BY <1>2, <1>3, OneQueue
  <2>2. Seen[r] = Contents(s)
    BY <1>1 DEF Seen
  <2> QED
    BY <2>1, <2>2
<1>5. Queues!Pull(r)
  BY <1>2, <1>4 DEF Queues!Pull, Seen
<1> QED
  BY <1>5 DEF Queues!Next

LEMMA QueueStep ==
  ASSUME PathInv, [Next]_vars
  PROVE  Queues!Next \/ UNCHANGED Seen
<1>0. BuffersOK
  BY BuffersNow
<1>1. CASE UNCHANGED ring
  BY <1>1, QueueSame
<1>2. CASE FeedUser
  <2>1. recv.run.rings \subseteq Rings
    BY DEF PathInv, TypeOK, Dispatches
  <2> QED
    BY <1>1, <1>2, <2>1, QueueFed DEF FeedUser
<1>3. CASE BridgeFeeds
  <2>1. Relay \in Rings
    BY DEF Rings
  <2>2. ASSUME NEW c \in ForFrame, ring' = [ring EXCEPT ![Relay] = Feed(@, [buf |-> c, pcm |-> TRUE])]
        PROVE  Queues!Next
    BY <2>1, <2>2, QueueFed
  <2> QED
    BY <1>1, <1>3, <2>2 DEF BridgeFeeds
<1>4. ASSUME NEW r \in Rings, Collect(r) PROVE Queues!Next \/ UNCHANGED Seen
  <2>1. CASE ring' = [ring EXCEPT ![r] = NewSourceBuffer]
    <3>1. ring' = [q \in Rings |-> IF q \in {r} THEN NewSourceBuffer ELSE ring[q]] /\ {r} \in SUBSET Rings
      BY <1>0, <2>1 DEF BuffersOK
    <3> QED
      BY <3>1, QueueDrained
  <2>2. CASE ring[r].n > 0 /\ ring' = [ring EXCEPT ![r] = Pop(@)]
    BY <2>2, QueuePulled
  <2> QED
    BY <1>1, <1>4, <2>1, <2>2 DEF Collect
<1>5. CASE Teardown
  <2>1. UserRings(install) \in SUBSET Rings
    BY UserRingsAreRings DEF PathInv, TypeOK
  <2>2. ring' = [r \in Rings |-> IF r \in UserRings(install) THEN NewSourceBuffer ELSE ring[r]]
    BY <1>5 DEF Teardown
  <2> QED
    BY <2>1, <2>2, QueueDrained
<1>6. CASE Install
  <2>1. UserRings(switch.to) \in SUBSET Rings
    BY UserRingsAreRings DEF PathInv, TypeOK
  <2>2. ring' = [r \in Rings |-> IF r \in UserRings(switch.to) THEN NewSourceBuffer ELSE ring[r]]
    BY SMTT(30), <1>6 DEF Install
  <2> QED
    BY <2>1, <2>2, QueueDrained
<1>7. ASSUME \/ \E u \in Users : Receive(u) \/ CleanupUser(u)
             \/ SendRaw \/ RelayArrives \/ BridgeTakes
             \/ TickStart \/ TickMix \/ TickEmits
      PROVE  UNCHANGED ring
  BY ZenonT(30), <1>7 DEF Receive, CleanupUser, SendRaw, RelayArrives, BridgeTakes, TickStart, TickMix, TickEmits, Emit
<1>8. ASSUME \/ \E o \in OutSet : ProvideOpusFrame(o) \/ ProvideFails(o) \/ DiscardFrame(o)
             \/ CloseProviders \/ Resume \/ UNCHANGED vars
             \/ \E mode \in {"off", "copy", "mix"}, users \in SUBSET Users : SwitchTo(mode, users)
      PROVE  UNCHANGED ring
  BY <1>8 DEF ProvideOpusFrame, ProvideFails, DiscardFrame, CloseProviders, Resume, SwitchTo, Begins, vars
<1> QED
  BY <1>1, <1>2, <1>3, <1>4, <1>5, <1>6, <1>7, <1>8 DEF Next

\* The rings are queues that forget their oldest frame when they are full
\* (source.go:14-79): every step of the receiver, the bridge, the mixer and the
\* router is a step of FrameQueues or leaves the queues alone.
THEOREM RingsImplementQueues == Spec => RingsAreQueues
<1>1. Init => Queues!Init
  <2> SUFFICES ASSUME Init PROVE Queues!Init
    OBVIOUS
  <2>1. \A r \in Rings : Contents(ring[r]) = <<>>
    BY NewRing DEF Init
  <2> QED
    BY <2>1 DEF Queues!Init
<1>2. PathInv /\ [Next]_vars => [Queues!Next]_([r \in Rings |-> Contents(ring[r])])
  BY QueueStep DEF Seen
<1> QED
  BY <1>1, <1>2, PathIsSafe, PTL DEF Spec, RingsAreQueues, Queues!Spec
=============================================================================
