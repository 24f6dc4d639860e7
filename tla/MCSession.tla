------------------------------ MODULE MCSession ------------------------------
EXTENDS Session

CONSTANTS x, quote

MCBytes == {Start, End, x, quote}

(* A log, the smallest log, a log cut short, stray bytes, a stray end.      *)
MCTexts ==
  { <<Start, x, End>>, <<Start, End>>, <<Start, x>>, <<x>>, <<x, End>>, <<Start, Start, End>> }

(* A log whose message holds an end byte: {"}"} stands for {"m":"}"}.       *)
BraceInString == <<Start, quote, End, quote, End>>
JsonTexts == { <<Start, x, End>>, BraceInString }

MCJson == { <<Start, End>> } \cup JsonTexts
===============================================================================
