------------------------------- MODULE MCServer -------------------------------
EXTENDS Server, TLC

CONSTANTS c1, c2

(* One connection to each of two acceptors, or both to the only one.        *)
ToBoth == c1 :> 1 @@ c2 :> 2
ToOne == c1 :> 1 @@ c2 :> 1
===============================================================================
