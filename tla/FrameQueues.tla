---------------------------- MODULE FrameQueues ----------------------------
(***************************************************************************)
(* What the inputs of a mixer promise: a queue per source that is never    *)
(* longer than Cap and that makes room by forgetting its oldest frame, so  *)
(* that a reader is always near the live edge and sees the frames of a     *)
(* source in the order they came.  AudioPath implements it with rings.     *)
(***************************************************************************)
EXTENDS Naturals, Sequences

CONSTANTS Sources, Frames, Cap

VARIABLE queue

Init == queue = [s \in Sources |-> <<>>]

Feed(s, f) ==
    queue' = [queue EXCEPT ![s] = Append(IF Len(@) = Cap THEN Tail(@) ELSE @, f)]

Pull(s) == queue[s] # <<>> /\ queue' = [queue EXCEPT ![s] = Tail(@)]

\* One source is emptied, or several at once with what they belong to.
Drain ==
    /\ DOMAIN queue' = Sources
    /\ \A s \in Sources : queue'[s] \in {queue[s], <<>>}

Next == Drain \/ \E s \in Sources : Pull(s) \/ \E f \in Frames : Feed(s, f)

Spec == Init /\ [][Next]_queue
=============================================================================
