------------------------------ MODULE LossyQueue ------------------------------
(***************************************************************************)
(* What a scriptor Logger promises to the sessions that push into it: the  *)
(* elements wait in one line, leave it from the front only, and each of    *)
(* them reaches the sink at most once.  Nothing is promised about losses:  *)
(* a prefix of the line may be discarded (filtered by level, or dropped    *)
(* after a sink error), and closing the queue discards what still waits.   *)
(***************************************************************************)
EXTENDS Integers, Sequences

VARIABLES pending,   \* the line: pushed, neither forwarded nor discarded yet
          sink,      \* what the sink has been given, in order
          closed     \* the queue no longer exists

vars == <<pending, sink, closed>>

Init ==
  /\ pending = <<>>
  /\ sink = <<>>
  /\ closed = FALSE

Enqueue ==
  /\ ~closed
  /\ Len(pending') > Len(pending)
  /\ SubSeq(pending', 1, Len(pending)) = pending
  /\ UNCHANGED <<sink, closed>>

Forward ==
  /\ ~closed
  /\ pending # <<>>
  /\ sink' = Append(sink, Head(pending))
  /\ pending' = Tail(pending)
  /\ UNCHANGED closed

Discard ==
  /\ ~closed
  /\ \E k \in 1 .. Len(pending) : pending' = SubSeq(pending, k + 1, Len(pending))
  /\ UNCHANGED <<sink, closed>>

Close ==
  /\ ~closed
  /\ closed' = TRUE
  /\ pending' = <<>>
  /\ UNCHANGED sink

Next == Enqueue \/ Forward \/ Discard \/ Close

Spec == Init /\ [][Next]_vars

(* Whatever waits is eventually dealt with. *)
Leave == Forward \/ Discard \/ Close
FairSpec == Spec /\ WF_vars(pending # <<>> /\ Leave)
===============================================================================
