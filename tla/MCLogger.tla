------------------------------- MODULE MCLogger -------------------------------
EXTENDS Logger, TLC

(* Two levels, one below the sink's and one at it.                         *)
MCLevels == {1, 2}
MCSinkLevel == 2

(* Producers are interchangeable in every safety property.                 *)
ProducerSymmetry == Permutations(Producers)
===============================================================================
