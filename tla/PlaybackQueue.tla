---------------------------- MODULE PlaybackQueue ----------------------------
(***************************************************************************)
(* What the audio client's buffer promises: a bounded first-in first-out   *)
(* queue of bytes.  A chunk is kept whole or not at all; a playback takes  *)
(* the oldest bytes, a full block of them, or all that are left once the   *)
(* stream is over, and nothing is played after such a short block.         *)
(***************************************************************************)
EXTENDS Naturals, Sequences

CONSTANTS
    Block,      \* bytes of a full block
    Capacity,   \* bytes the queue has room for
    Chunks      \* what may arrive: sequences of bytes

VARIABLES
    queue,      \* bytes kept and not played
    played,     \* bytes played
    over,       \* the stream is over
    finished    \* a short block was played

vars == <<queue, played, over, finished>>

Init ==
    /\ queue = <<>> /\ played = <<>>
    /\ over = FALSE /\ finished = FALSE

Keep(chunk) ==
    /\ ~finished
    /\ Len(queue) + Len(chunk) <= Capacity
    /\ queue' = queue \o chunk
    /\ UNCHANGED <<played, over, finished>>

Play(n) ==
    /\ ~finished
    /\ n = Block \/ (over /\ n = Len(queue) /\ 0 < n /\ n < Block)
    /\ n <= Len(queue)
    /\ played' = played \o SubSeq(queue, 1, n)
    /\ queue' = SubSeq(queue, n + 1, Len(queue))
    /\ finished' = (n < Block)
    /\ UNCHANGED over

End == ~over /\ over' = TRUE /\ UNCHANGED <<queue, played, finished>>

Next ==
    \/ \E chunk \in Chunks : Keep(chunk)
    \/ \E n \in 1 .. Block : Play(n)
    \/ End

Spec == Init /\ [][Next]_vars
=============================================================================
