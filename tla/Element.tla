------------------------------- MODULE Element -------------------------------
(***************************************************************************)
(* Element::from_json (src/element.cpp) and what Processor makes of the    *)
(* result (src/session.cpp:26-46): the fields of one log, by the json      *)
(* types their values may have, become a time point, a level and the parts *)
(* of a message; or the conversion throws and the log is replaced by an    *)
(* element that reports the error.                                         *)
(*                                                                         *)
(* A number is n / Scale for an integer n.  The widths and units are       *)
(* parameters, so that small numbers reach their limits: a second has      *)
(* Micros microseconds, a microsecond Nanos ticks of the log's clock.      *)
(* Doubles are the multiples m * u of the Units with m up to Mantissa: in  *)
(* IEEE's format Mantissa is 2^53, and the units are powers of two.        *)
(***************************************************************************)
EXTENDS Integers, Sequences, Functions

CONSTANTS
  Logs,                  \* the logs that may come
  Scale,                 \* what the numbers in them are multiples of
  Micros, Nanos,         \* microseconds in a second, ticks in a microsecond
  Units, Mantissa,       \* the distances between doubles, and how far each goes
  IntMax, Int64Max,      \* the largest int and std::int64_t
  Now                    \* log_clock::now()

ASSUME UnitAssumption == {Scale, Micros, Nanos} \subseteq Nat \ {0}
ASSUME WidthAssumption ==
  /\ {IntMax, Int64Max} \subseteq Nat
  /\ 7 <= IntMax /\ IntMax <= Int64Max    \* the levels fit in an int
  /\ Now \in 0 .. Int64Max
ASSUME DoubleAssumption ==
  /\ Mantissa \in Nat \ {0}
  /\ Units \subseteq Nat \ {0} /\ Scale \in Units
  /\ \A u, w \in Units : u <= w => w % u = 0
  /\ \A u \in Units : (u % 2 = 0 /\ u \div 2 \in Units) \/ \A w \in Units : u <= w
  /\ \E u \in Units : (Int64Max + 1) * Scale <= Mantissa * u

-------------------------------------------------------------------------------
(* Logs.                                                                   *)

(* The value of a field, with its type.  A numeral is a string a number    *)
(* can be read from, by std::stod and std::stoi alike.                     *)
Absent == [kind |-> "absent"]
Null == [kind |-> "null"]
Object == [kind |-> "object"]               \* or an array
Bool(b) == [kind |-> "bool", n |-> IF b THEN Scale ELSE 0]
Number(n) == [kind |-> "number", n |-> n]
Numeral(n) == [kind |-> "numeral", n |-> n]
Text(s) == [kind |-> "text", text |-> s]    \* any other string

(* A field's value, and Broken for a log that is no json.                  *)
TextFields == <<"c", "p", "t", "f", "i", "n", "m">>
Fields == {"s", "l"} \cup Range(TextFields)
Broken == [kind |-> "broken"]

ASSUME LogAssumption ==
  \A log \in Logs \ {Broken} : DOMAIN log = Fields /\ \A f \in Fields :
    /\ log[f].kind \in {"absent", "null", "object", "bool", "number", "numeral", "text"}
    /\ log[f].kind \in {"number", "numeral"} => log[f].n \in Int
    /\ log[f].kind = "bool" => log[f].n \in {0, Scale}

VARIABLES
  log,      \* the log
  pc,       \* where from_json is; "made" and "reported" are the ends
  time,     \* the element's members
  level,
  message   \* the parts of the message, in the order they are formatted in

elementVars == <<time, level, message>>
vars == <<log, pc, elementVars>>

Trace == 0
Critical == 5
NLevels == 7     \* spdlog::level::n_levels; 6 is level::off

Init ==
  /\ log \in Logs
  /\ pc = "parse"
  /\ time = 0
  /\ level = Trace
  /\ message = <<>>

-------------------------------------------------------------------------------
(* Conversions.  Where an operation is preceded by a variant of itself,    *)
(* the variant is a defect for mutation testing.                           *)

Int64 == -Int64Max - 1 .. Int64Max
Int32 == -IntMax - 1 .. IntMax

(* a / b for b > 0, rounded toward zero.                                   *)
Truncate(a, b) == IF a >= 0 THEN a \div b ELSE -((-a) \div b)

(* An integer cut to a width, in two's complement.                         *)
Wrap(n, max) == ((n + max + 1) % (2 * (max + 1))) - max - 1

(* The unit a double as large as a is a multiple of, and the double that   *)
(* is nearest to a; of two as near the even one.  Beyond the largest one,  *)
(* and infinite, it makes no difference: no integer type goes that far.    *)
Abs(a) == IF a >= 0 THEN a ELSE -a
Reaches(u, a) == Abs(a) <= Mantissa * u
UnitOf(a) == CHOOSE u \in Units : Reaches(u, a) /\ \A w \in Units : Reaches(w, a) => u <= w
Nearest(a, u) ==
  LET q == a \div u
      r == 2 * (a % u)
  IN u * (IF r > u \/ (r = u /\ q % 2 = 1) THEN q + 1 ELSE q)
Double(a) ==
  IF ~\E u \in Units : Reaches(u, a) THEN a
  ELSE IF a >= 0 THEN Nearest(a, UnitOf(a)) ELSE -Nearest(-a, UnitOf(a))

(* What json stores for a number: an integer, or the nearest double.       *)
IsInteger(n) == n % Scale = 0 /\ n \div Scale \in -Int64Max - 1 .. 2 * Int64Max + 1

Stored(n) == IF IsInteger(n) THEN n ELSE Double(n)

(* A double converted to an integer type it does not fit in is undefined;  *)
(* the machines give an end of the range.                                  *)
FromDouble(a, b, max) ==
  IF Truncate(a, b) \in -max - 1 .. max THEN {Truncate(a, b)} ELSE {-max - 1, max}

(* json's get<int> and get<std::int64_t> of a number.                      *)
GetInteger(n, max) ==
  IF IsInteger(n) THEN {Wrap(n \div Scale, max)} ELSE FromDouble(Double(n), Scale, max)

\* The seconds as a double, their microseconds as one, without the fraction,
\* and on to the ticks of the clock.
Ticks(micros) == Wrap(micros * Nanos, Int64Max)
TimesWithoutFraction(v) == {Ticks(m * Micros) : m \in FromDouble(Double(v.n), Scale, Int64Max)}
Micro(n) == Double(Double(n) * Micros)
Times(v) == {Ticks(m) : m \in FromDouble(Micro(v.n), Scale, Int64Max)}

\* std::stoi throws where get<int> wraps.
Integers32(v) == IF v.kind = "numeral" THEN {Truncate(v.n, Scale)} ELSE GetInteger(v.n, IntMax)

LevelUnchecked(value) == IF value >= Trace THEN value ELSE Trace
LevelFor(value) == IF value >= Trace /\ value < NLevels THEN value ELSE Trace

-------------------------------------------------------------------------------
(* from_json                                                               *)

IsNumber(v) == v.kind = "number"
MissingIsAbsent(v) == v.kind = "absent"
Missing(v) == v.kind \in {"absent", "null"}

ParseJson ==
  /\ pc = "parse"
  /\ pc' = IF log = Broken THEN "thrown" ELSE "time"
  /\ UNCHANGED <<log, elementVars>>

HasTime(v) == v.kind \in {"number", "numeral"}

TakeTime ==
  /\ pc = "time" /\ HasTime(log["s"])
  /\ time' \in Times(log["s"])
  /\ pc' = "level"
  /\ UNCHANGED <<log, level, message>>

TakeNow ==
  /\ pc = "time" /\ Missing(log["s"])
  /\ time' = Now
  /\ pc' = "level"
  /\ UNCHANGED <<log, level, message>>

TimeThrows ==
  /\ pc = "time" /\ ~HasTime(log["s"]) /\ ~Missing(log["s"])
  /\ pc' = "thrown"
  /\ UNCHANGED <<log, elementVars>>

\* json makes an int of a boolean too.
HasLevel(v) ==
  \/ v.kind \in {"number", "bool"}
  \/ v.kind = "numeral" /\ Truncate(v.n, Scale) \in Int32

TakeLevel ==
  /\ pc = "level" /\ HasLevel(log["l"])
  /\ \E value \in Integers32(log["l"]) : level' = LevelFor(value)
  /\ pc' = "message"
  /\ UNCHANGED <<log, time, message>>

TakeTrace ==
  /\ pc = "level" /\ Missing(log["l"])
  /\ pc' = "message"
  /\ UNCHANGED <<log, elementVars>>

LevelThrows ==
  /\ pc = "level" /\ ~HasLevel(log["l"]) /\ ~Missing(log["l"])
  /\ pc' = "thrown"
  /\ UNCHANGED <<log, elementVars>>

(* find_string: what the text may be, and nothing if it throws.            *)
FindString(v) ==
  IF Missing(v) THEN {Text("")}
  ELSE IF IsNumber(v) THEN {Numeral(n * Scale) : n \in GetInteger(v.n, Int64Max)}
  ELSE {w \in {v} : w.kind \in {"numeral", "text"}}

\* The next field, in an order of the compiler's choice; none sees another.
LineForFile == <<"c", "p", "t", "i", "f", "n", "m">>
Order == TextFields

TakeText ==
  /\ pc = "message" /\ Len(message) < Len(Order)
  /\ \E text \in FindString(log[Order[Len(message) + 1]]) : message' = Append(message, text)
  /\ UNCHANGED <<log, pc, time, level>>

TextThrows ==
  /\ pc = "message" /\ Len(message) < Len(Order)
  /\ FindString(log[Order[Len(message) + 1]]) = {}
  /\ pc' = "thrown"
  /\ UNCHANGED <<log, elementVars>>

Make ==
  /\ pc = "message" /\ Len(message) = Len(Order)
  /\ pc' = "made"
  /\ UNCHANGED <<log, elementVars>>

(* The processor's catch: an element of its own in place of the log's.     *)
ErrorText == Text("Scriptor Json Parse Error")

Report ==
  /\ pc = "thrown"
  /\ pc' = "reported"
  /\ time' = Now /\ level' = Critical /\ message' = <<ErrorText>>
  /\ UNCHANGED log

Ended == pc \in {"made", "reported"}
Finished == Ended /\ UNCHANGED vars

Next ==
  \/ ParseJson
  \/ TakeTime \/ TakeNow \/ TimeThrows
  \/ TakeLevel \/ TakeTrace \/ LevelThrows
  \/ TakeText \/ TextThrows \/ Make
  \/ Report
  \/ Finished

Spec == Init /\ [][Next]_vars

-------------------------------------------------------------------------------
(* Properties.                                                             *)

IsText(v) == v.kind \in {"text", "numeral"}

(* Every variable keeps its type (src/element.h:13-15): the time fits its  *)
(* clock, and the level is one spdlog has a name for, whatever is written. *)
TypeOK ==
  /\ pc \in {"parse", "time", "level", "message", "thrown", "made", "reported"}
  /\ time \in Int64
  /\ level \in 0 .. NLevels - 1
  /\ Len(message) <= Len(TextFields) /\ \A v \in Range(message) : IsText(v)

(* Kinds of values the documented format (README.md:76-95) has, or for     *)
(* which the code goes out of its way.                                     *)
Convertible(f, v) ==
  \/ v.kind \in {"absent", "null", "number"}
  \/ v.kind = "bool" /\ f = "l"
  \/ v.kind = "numeral" /\ (f = "l" => Truncate(v.n, Scale) \in Int32)
  \/ v.kind = "text" /\ f \notin {"s", "l"}

(* A log is lost to a report exactly if it is no json or one of its fields *)
(* has a value of the wrong type: none is lost for a number that is out of *)
(* range, a field that is absent or null, or what another field holds.     *)
(* Nothing of the half converted log is left in the report.                *)
OnlyWrongTypesAreReported ==
  /\ Ended => (pc = "reported"
                 <=> log = Broken \/ \E f \in Fields : ~Convertible(f, log[f]))
  /\ pc = "reported" => level = Critical /\ time = Now /\ message = <<ErrorText>>

(* How far two roundings can bring a number of microseconds from what was  *)
(* written, in multiples of 1 / Scale: by a part in Mantissa each, or half *)
(* the smallest distance between doubles.                                  *)
Finest == CHOOSE u \in Units : \A w \in Units : u <= w
Blur(exact) ==
  ((2 * Mantissa + 1) * Abs(exact)) \div (Mantissa * Mantissa) + (Micros + 1) * Finest

(* A time that fits the clock is kept, but for its fraction of a           *)
(* microsecond and what two roundings take or add: less than a microsecond *)
(* until there are Mantissa / 2 of them since the epoch (the year 2112), so*)
(* that a time of whole microseconds loses one at most.  Whole seconds are *)
(* kept as they are.                                                       *)
TimeIsKept ==
  LET exact == log["s"].n * Micros
      blur == Blur(exact)
  IN
  pc = "made" /\ HasTime(log["s"]) /\ (Abs(exact) + blur) * Nanos <= Int64Max * Scale =>
    /\ \E near \in exact - blur .. exact + blur : time = Truncate(near, Scale) * Nanos
    /\ log["s"].n % Scale = 0 /\ Abs(exact) <= Mantissa * Scale => time * Scale = exact * Nanos

(* No level is invented: the element has the one that was written, less a  *)
(* fraction; the lowest, if none or one that does not exist was written;   *)
(* and another only for a json integer that is too large for an int.       *)
LevelIsKept ==
  LET v == log["l"]
      written == Truncate(IF IsNumber(v) THEN Stored(v.n) ELSE v.n, Scale)
  IN
    \/ level = Trace /\ (Missing(v) \/ written \notin 1 .. NLevels - 1)
    \/ ~Missing(v) /\ level = written
    \/ IsNumber(v) /\ IsInteger(v.n) /\ v.n \div Scale \notin Int32

(* Each part of the message is its own field's: the text, the digits of    *)
(* the number less its fraction, or nothing; and no number changes its     *)
(* value that fits 64 bits.                                                *)
MessageIsKept ==
  /\ Len(message) = Len(TextFields)
  /\ \A k \in 1 .. Len(TextFields) :
       LET v == log[TextFields[k]] IN
       CASE Missing(v) -> message[k] = Text("")
         [] IsText(v) -> message[k] = v
         [] IsNumber(v) /\ Truncate(Stored(v.n), Scale) \in Int64 ->
              message[k] = Numeral(Truncate(Stored(v.n), Scale) * Scale)
         [] OTHER -> TRUE

(* A log that is not reported has the level that was written in it, and    *)
(* each field's text in its place (src/element.cpp:60-90).                 *)
ValuesAreKept == pc = "made" => LevelIsKept /\ MessageIsKept
===============================================================================
