------------------------------ MODULE MCElement ------------------------------
EXTENDS Element, TLC

(* Each field takes every value of a set while the others are absent or    *)
(* plain, and any two fields take values of different types at once.       *)
(* A second has 5 microseconds, which doubles, being multiples of powers   *)
(* of 1/2, do not divide it into; 1/320 s is finer than all of them.       *)
(* Numbers are whole microseconds up to the limits of the clock, whole     *)
(* ones at those of both widths, and what is next to both.                 *)
MCScale == 320
MCMicros == 5
MCNanos == 2
MCUnits == {5, 10, 20, 40, 80, 160, 320, 640, 1280}
MCMantissa == 128
MCIntMax == 7
MCInt64Max == 127

Whole == {-300, -129, -128, -9, -8, -2, 0, 5, 6, 7, 8, 14, 18, 21, 127, 128, 255, 256, 1250}
Numbers ==
  {64 * k : k \in -68 .. 68} \cup {64 * k - 1 : k \in {1, 34, 35, 65}}
    \cup {320 * k + d : k \in Whole, d \in {-80, -1, 0, 1}}

Types == {Absent, Null, Object, Bool(TRUE), Text("x"), Number(330), Numeral(330)}

Values ==
  Types \cup {Bool(FALSE)} \cup {Number(n) : n \in Numbers} \cup {Numeral(n) : n \in Numbers}

Nothing == [f \in Fields |-> Absent]
Plain == [f \in Fields |-> IF f \in {"s", "l"} THEN Number(320) ELSE Text(f)]

MCLogs ==
  {Broken}
    \cup {[base EXCEPT ![f] = v] : base \in {Nothing, Plain}, f \in Fields, v \in Values}
    \cup {[Plain EXCEPT ![f] = v, ![g] = w] : f, g \in Fields, v, w \in Types}
===============================================================================
