---------------------------- MODULE SourceBuffer ---------------------------
(***************************************************************************)
(* The ring behind one mixer input (opus/source.go): a fixed array, the    *)
(* index of the oldest entry and the number of entries.                    *)
(***************************************************************************)
EXTENDS Naturals

CONSTANTS Cap,   \* audioSourceCap
          None   \* no buffer

ASSUME CapAssumption == Cap \in Nat \ {0}

\* A frame is named by its pooled Opus buffer; pcm says whether its PCM buffer
\* holds samples or is empty.
NoFrame == [buf |-> None, pcm |-> FALSE]

NewSourceBuffer == [buf |-> [i \in 0 .. Cap - 1 |-> NoFrame], head |-> 0, n |-> 0]

Oldest(s) == s.buf[s.head]

\* Take the oldest entry out.  The code leaves the frame in its slot; nothing
\* reads a slot outside the n valid ones, so the model clears it.
Pop(s) == [buf |-> [s.buf EXCEPT ![s.head] = NoFrame],
           head |-> (s.head + 1) % Cap, n |-> s.n - 1]

\* Feed on a ring with room, and in general.  The mutants: FeedOverfills makes
\* no room, FeedKeepsHead overwrites the oldest slot without moving head on.
Push(s, f) == [s EXCEPT !.buf[(s.head + s.n) % Cap] = f, !.n = @ + 1]

FeedOverfills(s, f) == Push(s, f)

FeedKeepsHead(s, f) ==
    IF s.n = Cap THEN [s EXCEPT !.buf[s.head] = f] ELSE Push(s, f)

Feed(s, f) == Push(IF s.n = Cap THEN Pop(s) ELSE s, f)

\* The buffers Feed gives back to the pools when it makes room, and the ones
\* Drain gives back.
Evicted(s) == IF s.n = Cap THEN {Oldest(s).buf} ELSE {}

Held(s) == {s.buf[i].buf : i \in 0 .. Cap - 1} \ {None}

\* The frames in the order Pull returns them.
Contents(s) == [i \in 1 .. s.n |-> s.buf[(s.head + i - 1) % Cap]]
=============================================================================
