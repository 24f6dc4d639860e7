------------------------------ MODULE MCPipeline ------------------------------
EXTENDS Pipeline, TLC

CONSTANTS c1, c2

(* The first sink takes every log, the second only those of level 2: in    *)
(* front of, behind and between others.                                    *)
MCSinkLevel == <<1, 2>>
MCLevelsOf == c1 :> <<2, 1, 2>> @@ c2 :> <<1, 2>>
===============================================================================
