---------------------------- MODULE FifoBroadcast ----------------------------
(***************************************************************************)
(* What the server promises between its connections and its loggers: each  *)
(* batch of logs a connection brings is delivered to every logger at most  *)
(* once, and each logger gets the batches of one connection in the order   *)
(* they came, none left out.  Loggers may see the batches of different     *)
(* connections in different orders, and get them at different times; when  *)
(* the server closes they have all been given the same batches, which need *)
(* not be all there were.                                                  *)
(***************************************************************************)
EXTENDS Integers, Sequences, Functions

CONSTANTS Sources, Outlets

VARIABLES brought, delivered, closed

vars == <<brought, delivered, closed>>

Init ==
  /\ brought = {}
  /\ delivered = [l \in Outlets |-> <<>>]
  /\ closed = FALSE

\* Batches of a source are numbered in the order they come, with gaps.
Bring(c) ==
  /\ \E b \in brought' \ brought :
       /\ b[1] = c /\ b[2] \in Nat \ {0}
       /\ \A earlier \in brought : earlier[1] = c => earlier[2] < b[2]
       /\ brought' = brought \cup {b}
  /\ UNCHANGED <<delivered, closed>>

NextFor(l, b) ==
  /\ b \notin Range(delivered[l])
  /\ \A d \in brought : d[1] = b[1] /\ d[2] < b[2] => d \in Range(delivered[l])

Deliver(l) ==
  /\ ~closed
  /\ \E b \in brought :
       /\ NextFor(l, b)
       /\ delivered' = [delivered EXCEPT ![l] = Append(@, b)]
  /\ UNCHANGED <<brought, closed>>

Close ==
  /\ ~closed
  /\ \A k, l \in Outlets : Range(delivered[k]) = Range(delivered[l])
  /\ closed' = TRUE
  /\ UNCHANGED <<brought, delivered>>

Next ==
  \/ \E c \in Sources : Bring(c)
  \/ \E l \in Outlets : Deliver(l)
  \/ Close

Spec == Init /\ [][Next]_vars
===============================================================================
