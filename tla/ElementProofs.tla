---------------------------- MODULE ElementProofs ----------------------------
(***************************************************************************)
(* Proofs about Element, for any logs, denominator, units and widths.      *)
(***************************************************************************)
EXTENDS Element, SequenceTheorems, WellFoundedInduction, TLAPS

-------------------------------------------------------------------------------
(* What is said of a value before it is converted.                         *)

Kinds == {"absent", "null", "object", "bool", "number", "numeral", "text"}

LEMMA FieldNames ==
  /\ Len(TextFields) = 7
  /\ \A k \in 1 .. 7 : TextFields[k] \in Fields /\ TextFields[k] \notin {"s", "l"}
  /\ \A f \in Fields : f \in {"s", "l"} \/ \E k \in 1 .. 7 : f = TextFields[k]
  /\ "s" \in Fields /\ "l" \in Fields
<1>1. TextFields \in Seq({"c", "p", "t", "f", "i", "n", "m"})
  BY DEF TextFields
<1>2. Range(TextFields) = {TextFields[k] : k \in 1 .. Len(TextFields)}
  BY <1>1, RangeEquality
<1>3. /\ TextFields[1] = "c" /\ TextFields[2] = "p" /\ TextFields[3] = "t"
      /\ TextFields[4] = "f" /\ TextFields[5] = "i" /\ TextFields[6] = "n"
      /\ TextFields[7] = "m" /\ Len(TextFields) = 7
  BY DEF TextFields
<1> QED
  BY <1>2, <1>3 DEF Fields

LEMMA FieldType ==
  ASSUME NEW v \in Logs, v # Broken, NEW f \in Fields
  PROVE  /\ v[f].kind \in Kinds
         /\ v[f].kind \in {"bool", "number", "numeral"} => v[f].n \in Int
         /\ v[f].kind = "bool" => v[f].n \in {0, Scale}
BY LogAssumption, UnitAssumption DEF Kinds

LEMMA WrapType ==
  ASSUME NEW n \in Int, NEW max \in Nat
  PROVE  Wrap(n, max) \in -max - 1 .. max
<1>1. 2 * (max + 1) \in Nat \ {0} /\ n + max + 1 \in Int
  OBVIOUS
<1>2. (n + max + 1) % (2 * (max + 1)) \in 0 .. 2 * (max + 1) - 1
  BY <1>1
<1> QED
  BY <1>2 DEF Wrap

LEMMA FromDoubleType ==
  ASSUME NEW a, NEW b, NEW max \in Nat
  PROVE  FromDouble(a, b, max) \subseteq -max - 1 .. max /\ FromDouble(a, b, max) # {}
BY DEF FromDouble

-------------------------------------------------------------------------------
(* Doubles.                                                                *)

LEMMA Quotient ==
  ASSUME NEW a \in Nat, NEW b \in Nat \ {0}
  PROVE  /\ a \div b \in Nat
         /\ (a \div b) * b <= a
         /\ a < (a \div b + 1) * b
OBVIOUS

LEMMA LeastNumber ==
  ASSUME NEW S, S \subseteq Nat, S # {}
  PROVE  \E m \in S : \A n \in S : m <= n
<1> DEFINE Less == OpToRel(<, Nat)
<1>1. IsWellFoundedOn(Less, Nat)
  BY NatLessThanWellFounded
<1>2. PICK m \in S : \A n \in S : <<n, m>> \notin Less
  <2> HIDE DEF Less
  <2> QED
    BY <1>1, WFMin
<1>3. \A n \in S : ~(n < m)
  BY <1>2 DEF OpToRel
<1> HIDE DEF Less
<1> QED
  BY <1>3

LEMMA FinestUnit == Finest \in Units /\ \A w \in Units : Finest <= w
<1>1. \E u \in Units : \A w \in Units : u <= w
  BY DoubleAssumption, LeastNumber
<1> QED
  BY <1>1 DEF Finest

LEMMA UnitOfIsLeast ==
  ASSUME NEW a, \E u \in Units : Reaches(u, a)
  PROVE  /\ UnitOf(a) \in Units /\ Reaches(UnitOf(a), a)
         /\ \A w \in Units : Reaches(w, a) => UnitOf(a) <= w
<1> DEFINE S == {u \in Units : Reaches(u, a)}
<1>1. S \subseteq Nat /\ S # {}
  BY DoubleAssumption
<1>2. PICK u \in S : \A w \in S : u <= w
  <2> HIDE DEF S
  <2> QED
    BY <1>1, LeastNumber
<1>3. \E u1 \in Units : Reaches(u1, a) /\ \A w \in Units : Reaches(w, a) => u1 <= w
  BY <1>2
<1> QED
  BY <1>3 DEF UnitOf

(* The nearest multiple of u is half of it away at most.                   *)
LEMMA NearestIsNear ==
  ASSUME NEW a \in Nat, NEW u \in Nat \ {0}
  PROVE  /\ Nearest(a, u) \in Nat
         /\ 2 * (Nearest(a, u) - a) <= u /\ 2 * (a - Nearest(a, u)) <= u
         /\ a % u = 0 => Nearest(a, u) = a
<1> DEFINE q == a \div u
           r == a % u
<1>1. q \in Nat /\ r \in 0 .. u - 1 /\ a = u * q + r
  OBVIOUS
<1>2. \/ Nearest(a, u) = u * q /\ 2 * r <= u
      \/ Nearest(a, u) = u * (q + 1) /\ 2 * r >= u
  <2>1. Nearest(a, u) = u * (IF 2 * r > u \/ (2 * r = u /\ q % 2 = 1) THEN q + 1 ELSE q)
    BY DEF Nearest
  <2> HIDE DEF q, r
  <2> QED
    BY <1>1, <2>1
<1> HIDE DEF q
<1>3. u * q \in Nat /\ u * (q + 1) = u * q + u
  BY <1>1
<1>4. a % u = r
  OBVIOUS
<1> HIDE DEF r
<1> QED
  BY <1>1, <1>2, <1>3, <1>4

(* A double is off by half a unit at most: that is a part in 2 * Mantissa, *)
(* unless the unit is the smallest.                                        *)
LEMMA RoundingError ==
  ASSUME NEW a \in Nat, NEW u \in Units, Reaches(u, a),
         \A w \in Units : Reaches(w, a) => u <= w,
         NEW e \in Int, 2 * e <= u
  PROVE  (2 * Mantissa) * e <= 2 * a + Mantissa * Finest
<1>0. u \in Nat \ {0} /\ Mantissa \in Nat \ {0} /\ Finest \in Nat \ {0}
  BY DoubleAssumption, FinestUnit
<1>1. (2 * Mantissa) * e <= Mantissa * u
  <2>1. Mantissa * (2 * e) <= Mantissa * u
    BY <1>0
  <2> QED
    BY <1>0, <2>1
<1>2. CASE \A w \in Units : u <= w
  <2>1. u = Finest
    BY <1>0, <1>2, FinestUnit
  <2> QED
    BY <1>0, <1>1, <2>1
<1>3. CASE u % 2 = 0 /\ u \div 2 \in Units
  <2> DEFINE h == u \div 2
  <2>1. h \in Nat \ {0} /\ u = 2 * h /\ h \in Units
    BY <1>0, <1>3, DoubleAssumption
  <2> HIDE DEF h
  <2>2. ~Reaches(h, a)
    BY <2>1
  <2>3. a > Mantissa * h /\ Mantissa * h \in Nat
    BY <1>0, <2>1, <2>2 DEF Reaches, Abs
  <2>4. Mantissa * u = 2 * (Mantissa * h)
    BY <1>0, <2>1
  <2>5. Mantissa * Finest \in Nat /\ (2 * Mantissa) * e \in Int
    BY <1>0
  <2>6. (2 * Mantissa) * e <= 2 * (Mantissa * h)
    BY <1>1, <2>4
  <2> DEFINE l == (2 * Mantissa) * e
             g == Mantissa * h
             f == Mantissa * Finest
  <2>7. l \in Int /\ g \in Nat /\ f \in Nat /\ a > g /\ l <= 2 * g
    BY <2>3, <2>5, <2>6
  <2> HIDE DEF l, g, f
  <2>8. l <= 2 * a + f
    BY <2>7
  <2> QED
    BY <2>8 DEF l, f
<1> QED
  BY <1>2, <1>3, DoubleAssumption

LEMMA DoubleIsNear ==
  ASSUME NEW a \in Int
  PROVE  /\ Double(a) \in Int
         /\ (2 * Mantissa) * Abs(Double(a) - a) <= 2 * Abs(a) + Mantissa * Finest
<1>0. Mantissa \in Nat \ {0} /\ Finest \in Nat \ {0} /\ Abs(a) \in Nat /\ Mantissa * Finest \in Nat
  <2>1. Mantissa \in Nat \ {0} /\ Finest \in Nat \ {0} /\ Abs(a) \in Nat
    BY DoubleAssumption, FinestUnit DEF Abs
  <2> QED
    BY <2>1
<1>1. CASE ~\E u \in Units : Reaches(u, a)
  <2>1. Double(a) = a /\ Abs(Double(a) - a) = 0
    BY <1>1 DEF Double, Abs
  <2> QED
    BY <1>0, <2>1
<1>2. CASE \E u \in Units : Reaches(u, a)
  <2> DEFINE b == Abs(a)
             u == UnitOf(a)
  <2>1. \A w : Reaches(w, b) <=> Reaches(w, a)
    BY DEF Reaches, Abs
  <2>2. u \in Units /\ Reaches(u, b) /\ \A w \in Units : Reaches(w, b) => u <= w
    BY <1>2, <2>1, UnitOfIsLeast
  <2>3. u \in Nat \ {0}
    BY <2>2, DoubleAssumption
  <2>4. Double(a) = IF a >= 0 THEN Nearest(b, u) ELSE -Nearest(b, u)
    BY <1>2 DEF Double, Abs
  <2> DEFINE c == Nearest(b, u)
  <2>5. b \in Nat /\ c \in Nat /\ 2 * (c - b) <= u /\ 2 * (b - c) <= u
    BY <1>0, <2>3, NearestIsNear
  <2> HIDE DEF c, u
  <2>6. Double(a) \in Int /\ Abs(Double(a) - a) \in Int /\ 2 * Abs(Double(a) - a) <= u
    BY <2>3, <2>4, <2>5 DEF Abs, c
  <2> HIDE DEF b
  <2> QED
    BY <2>2, <2>5, <2>6, RoundingError DEF b
<1> QED
  BY <1>1, <1>2

LEMMA GetIntegerType ==
  ASSUME NEW n \in Int, NEW max \in Nat
  PROVE  GetInteger(n, max) \subseteq -max - 1 .. max /\ GetInteger(n, max) # {}
<1>1. n \div Scale \in Int
  BY UnitAssumption
<1> QED
  BY <1>1, WrapType, FromDoubleType DEF GetInteger

LEMMA StoredType ==
  ASSUME NEW n \in Int
  PROVE  Stored(n) \in Int
BY DoubleIsNear DEF Stored

(* find_string returns one string at least, and only strings; or it throws *)
(* because the value is of a type it does not convert.                     *)
LEMMA FindStringType ==
  ASSUME NEW v, v.kind \in Kinds, v.kind = "number" => v.n \in Int
  PROVE  /\ \A text \in FindString(v) : IsText(text)
         /\ FindString(v) = {} <=> v.kind \in {"object", "bool"}
<1>1. CASE Missing(v)
  <2>1. FindString(v) = {Text("")}
    BY <1>1 DEF FindString
  <2>2. FindString(v) # {} /\ v.kind \notin {"object", "bool"}
    BY <1>1, <2>1 DEF Missing
  <2>3. IsText(Text(""))
    BY DEF Text, IsText
  <2> QED
    BY <2>1, <2>2, <2>3, Zenon
<1>2. CASE IsNumber(v)
  <2>1. ~Missing(v) /\ GetInteger(v.n, Int64Max) # {}
    <3>1. Int64Max \in Nat /\ v.n \in Int /\ ~Missing(v)
      BY <1>2, WidthAssumption DEF IsNumber, Missing
    <3> QED
      BY <3>1, GetIntegerType
  <2>2. FindString(v) = {Numeral(n * Scale) : n \in GetInteger(v.n, Int64Max)}
    BY <1>2, <2>1 DEF FindString
  <2>3. FindString(v) # {}
    BY <2>1, <2>2
  <2>4. \A n : IsText(Numeral(n))
    BY DEF Numeral, IsText
  <2>5. \A text \in FindString(v) : IsText(text)
    BY <2>2, <2>4, Zenon
  <2>6. v.kind \notin {"object", "bool"}
    BY <1>2 DEF IsNumber
  <2> QED
    BY <2>3, <2>5, <2>6, Zenon
<1>3. CASE v.kind \in {"numeral", "text"}
  BY <1>3 DEF FindString, Missing, IsNumber, IsText
<1>4. CASE v.kind \in {"object", "bool"}
  BY <1>4 DEF FindString, Missing, IsNumber
<1> QED
  BY <1>1, <1>2, <1>3, <1>4 DEF Kinds, Missing, IsNumber

(* What is documented of the types of values is what the code tests.       *)
LEMMA ConvertibleTypes ==
  ASSUME NEW v, v.kind \in Kinds
  PROVE  /\ Convertible("s", v) <=> HasTime(v) \/ Missing(v)
         /\ Convertible("l", v) <=> HasLevel(v) \/ Missing(v)
         /\ \A f : f \notin {"s", "l"} => (Convertible(f, v) <=> v.kind \notin {"object", "bool"})
<1>1. Convertible("s", v) <=> HasTime(v) \/ Missing(v)
  BY DEF Convertible, HasTime, Missing
<1>2. Convertible("l", v) <=> HasLevel(v) \/ Missing(v)
  BY DEF Convertible, HasLevel, Missing
<1>3. \A f : f \notin {"s", "l"} => (Convertible(f, v) <=> v.kind \notin {"object", "bool"})
  BY DEF Convertible, Kinds
<1> QED
  BY <1>1, <1>2, <1>3

-------------------------------------------------------------------------------
(* Types.                                                                  *)

(* What the message may be made of.                                        *)
Parts == (UNION {FindString(log[f]) : f \in Fields}) \cup {ErrorText}

Typed ==
  /\ log \in Logs /\ (log = Broken => pc \in {"parse", "thrown", "reported"})
  /\ pc \in {"parse", "time", "level", "message", "thrown", "made", "reported"}
  /\ time \in Int64
  /\ level \in 0 .. NLevels - 1
  /\ message \in Seq(Parts) /\ Len(message) <= 7
  /\ \A k \in 1 .. Len(message) : IsText(message[k])

LEMMA TimesType ==
  ASSUME NEW v, NEW t \in Times(v)
  PROVE  t \in Int64
<1>1. Int64Max \in Nat
  BY WidthAssumption
<1>2. PICK m \in FromDouble(Micro(v.n), Scale, Int64Max) : t = Ticks(m)
  BY DEF Times
<1>3. m \in Int
  BY <1>1, <1>2, FromDoubleType
<1>4. m * Nanos \in Int
  BY <1>3, UnitAssumption
<1> QED
  BY <1>1, <1>2, <1>4, WrapType DEF Ticks, Int64

LEMMA LevelType ==
  ASSUME NEW value \in Int
  PROVE  LevelFor(value) \in 0 .. NLevels - 1
BY DEF LevelFor, Trace, NLevels

LEMMA Integers32Type ==
  ASSUME NEW v, v.n \in Int
  PROVE  Integers32(v) \subseteq Int
<1>1. CASE v.kind = "numeral"
  <2>1. Truncate(v.n, Scale) \in Int
    BY UnitAssumption DEF Truncate
  <2> QED
    BY <1>1, <2>1 DEF Integers32
<1>2. CASE v.kind # "numeral"
  <2>1. IntMax \in Nat /\ GetInteger(v.n, IntMax) \subseteq -IntMax - 1 .. IntMax
    BY WidthAssumption, GetIntegerType
  <2> QED
    BY <1>2, <2>1 DEF Integers32
<1> QED
  BY <1>1, <1>2

(* A field of a log that is json has one of the types.                     *)
LEMMA LoggedType ==
  ASSUME log \in Logs, log # Broken, NEW f \in Fields
  PROVE  /\ log[f].kind \in Kinds
         /\ log[f].kind \in {"bool", "number", "numeral"} => log[f].n \in Int
         /\ log[f].kind = "bool" => log[f].n \in {0, Scale}
BY FieldType

LEMMA TypedInit == Init => Typed
<1> SUFFICES ASSUME Init PROVE Typed
  OBVIOUS
<1>1. 0 \in Int64 /\ 0 \in 0 .. NLevels - 1
  BY WidthAssumption DEF Int64, NLevels
<1>2. <<>> \in Seq(Parts) /\ Len(<<>>) = 0
  OBVIOUS
<1> QED
  BY <1>1, <1>2 DEF Init, Typed, Trace

LEMMA TypedStep == Typed /\ [Next]_vars => Typed'
<1> SUFFICES ASSUME Typed, [Next]_vars PROVE Typed'
  OBVIOUS
<1> USE DEF Typed
<1>0. log' = log /\ Parts' = Parts
  BY DEF Next, Finished, vars, elementVars, ParseJson, TakeTime, TakeNow, TimeThrows,
         TakeLevel, TakeTrace, LevelThrows, TakeText, TextThrows, Make, Report, Parts
<1>1. CASE ParseJson
  BY <1>0, <1>1 DEF ParseJson, elementVars
<1>2. CASE TakeTime
  <2>1. time' \in Int64
    BY <1>2, TimesType DEF TakeTime
  <2> QED
    BY <1>0, <1>2, <2>1 DEF TakeTime
<1>3. CASE TakeNow
  <2>1. Now \in Int64
    BY WidthAssumption DEF Int64
  <2> QED
    BY <1>0, <1>3, <2>1 DEF TakeNow
<1>4. CASE TimeThrows
  BY <1>0, <1>4 DEF TimeThrows, elementVars
<1>5. CASE TakeLevel
  <2>1. log # Broken /\ "l" \in Fields
    BY <1>5 DEF TakeLevel, Fields
  <2>2. log["l"].n \in Int
    BY <1>5, <2>1, LoggedType DEF TakeLevel, HasLevel
  <2>3. level' \in 0 .. NLevels - 1
    BY <1>5, <2>2, Integers32Type, LevelType DEF TakeLevel
  <2> QED
    BY <1>0, <1>5, <2>3 DEF TakeLevel
<1>6. CASE TakeTrace
  BY <1>0, <1>6 DEF TakeTrace, elementVars
<1>7. CASE LevelThrows
  BY <1>0, <1>7 DEF LevelThrows, elementVars
<1>8. CASE TakeText
  <2>1. Len(message) \in Nat /\ Len(message) < 7 /\ Len(message) + 1 \in 1 .. 7
    BY <1>8, FieldNames DEF TakeText, Order
  <2> DEFINE f == TextFields[Len(message) + 1]
  <2>2. f \in Fields
    BY <2>1, FieldNames
  <2>3. PICK text \in FindString(log[f]) : message' = Append(message, text)
    BY <1>8 DEF TakeText, Order
  <2>4. log # Broken
    BY <1>8 DEF TakeText
  <2>5. log[f].kind \in Kinds /\ (log[f].kind = "number" => log[f].n \in Int)
    BY <2>2, <2>4, LoggedType
  <2>6. IsText(text) /\ text \in Parts
    BY <2>2, <2>3, <2>5, FindStringType DEF Parts
  <2> HIDE DEF f
  <2>7. message' \in Seq(Parts) /\ Len(message') = Len(message) + 1
    BY <2>3, <2>6
  <2>8. \A k \in 1 .. Len(message') : IsText(message'[k])
    BY <2>1, <2>3, <2>6, <2>7
  <2> QED
    BY <1>0, <1>8, <2>1, <2>7, <2>8 DEF TakeText
<1>9. CASE TextThrows
  BY <1>0, <1>9 DEF TextThrows, elementVars
<1>10. CASE Make
  BY <1>0, <1>10 DEF Make, elementVars
<1>11. CASE Report
  <2>1. Now \in Int64 /\ Critical \in 0 .. NLevels - 1
    BY WidthAssumption DEF Int64, Critical, NLevels
  <2>2. IsText(ErrorText) /\ ErrorText \in Parts
    BY DEF ErrorText, Text, IsText, Parts
  <2>3. message' = <<ErrorText>> /\ time' = Now /\ level' = Critical /\ pc' = "reported"
    BY <1>11 DEF Report
  <2> HIDE DEF Typed
  <2>4. <<ErrorText>> \in Seq(Parts) /\ Len(<<ErrorText>>) = 1 /\ <<ErrorText>>[1] = ErrorText
    BY <2>2
  <2>5. log \in Logs
    BY DEF Typed
  <2> QED
    BY <1>0, <2>1, <2>2, <2>3, <2>4, <2>5 DEF Typed
<1>12. CASE UNCHANGED vars
  BY <1>0, <1>12 DEF vars, elementVars
<1> QED
  BY <1>1, <1>2, <1>3, <1>4, <1>5, <1>6, <1>7, <1>8, <1>9, <1>10, <1>11, <1>12
  DEF Next, Finished

LEMMA TypedInvariant == Spec => []Typed
BY TypedInit, TypedStep, PTL DEF Spec

LEMMA TypedIsTypeOK == Typed => TypeOK
<1> SUFFICES ASSUME Typed PROVE TypeOK
  OBVIOUS
<1>1. Range(message) = {message[k] : k \in 1 .. Len(message)}
  BY RangeEquality DEF Typed
<1>2. \A v \in Range(message) : IsText(v)
  BY <1>1 DEF Typed
<1> QED
  BY <1>2, FieldNames DEF Typed, TypeOK

(* Every variable keeps its type, for any logs and widths: the time fits   *)
(* the clock and the level is one of spdlog's (src/element.cpp:44-79),     *)
(* whatever numbers the log has.                                           *)
THEOREM TypeCorrect == Spec => []TypeOK
BY TypedInvariant, TypedIsTypeOK, PTL

-------------------------------------------------------------------------------
(* What is reported.                                                       *)

(* The log is no json, or has a field that does not convert.               *)
Wrong == log = Broken \/ \E f \in Fields : ~Convertible(f, log[f])

(* A field has been converted if the conversion is past it, and a log that *)
(* is given up has a reason to be.                                         *)
Progress ==
  /\ pc \in {"time", "level", "message", "made"} => log # Broken
  /\ pc \in {"level", "message", "made"} => Convertible("s", log["s"])
  /\ pc \in {"message", "made"} => Convertible("l", log["l"])
  /\ pc \in {"message", "made"} => \A k \in 1 .. Len(message) :
       Convertible(TextFields[k], log[TextFields[k]])
  /\ pc \in {"parse", "time", "level"} => message = <<>>
  /\ pc = "made" => Len(message) = 7
  /\ pc \in {"thrown", "reported"} => Wrong
  /\ pc = "reported" => level = Critical /\ time = Now /\ message = <<ErrorText>>

LEMMA ProgressStep == Typed /\ Progress /\ [Next]_vars => Progress'
<1> SUFFICES ASSUME Typed, Progress, [Next]_vars PROVE Progress'
  OBVIOUS
<1>0. log' = log /\ (Wrong' <=> Wrong)
  BY DEF Next, Finished, vars, elementVars, ParseJson, TakeTime, TakeNow, TimeThrows,
         TakeLevel, TakeTrace, LevelThrows, TakeText, TextThrows, Make, Report, Wrong
<1>t. \A f \in Fields : log # Broken =>
        /\ log[f].kind \in Kinds
        /\ log[f].kind \in {"bool", "number", "numeral"} => log[f].n \in Int
  BY LoggedType DEF Typed
<1>c. /\ pc \in {"time", "level"} => /\ Convertible("s", log["s"]) <=> HasTime(log["s"]) \/ Missing(log["s"])
                                     /\ Convertible("l", log["l"]) <=> HasLevel(log["l"]) \/ Missing(log["l"])
  BY <1>t, ConvertibleTypes, FieldNames DEF Progress
<1>1. CASE ParseJson
  BY <1>0, <1>1 DEF ParseJson, elementVars, Progress, Wrong
<1>2. CASE TakeTime
  BY <1>0, <1>2, <1>c DEF TakeTime, Progress
<1>3. CASE TakeNow
  BY <1>0, <1>3, <1>c DEF TakeNow, Progress
<1>4. CASE TimeThrows
  <2>1. Wrong
    BY <1>4, <1>c, FieldNames DEF TimeThrows, Wrong
  <2> QED
    BY <1>0, <1>4, <2>1 DEF TimeThrows, elementVars, Progress
<1>5. CASE TakeLevel
  BY <1>0, <1>5, <1>c DEF TakeLevel, Progress
<1>6. CASE TakeTrace
  BY <1>0, <1>6, <1>c DEF TakeTrace, elementVars, Progress
<1>7. CASE LevelThrows
  <2>1. Wrong
    BY <1>7, <1>c, FieldNames DEF LevelThrows, Wrong
  <2> QED
    BY <1>0, <1>7, <2>1 DEF LevelThrows, elementVars, Progress
<1> DEFINE f == TextFields[Len(message) + 1]
<1>n. pc = "message" /\ Len(message) < Len(Order) =>
        /\ Len(message) \in Nat /\ f \in Fields /\ f \notin {"s", "l"}
        /\ FindString(log[f]) = {} <=> ~Convertible(f, log[f])
  <2> SUFFICES ASSUME pc = "message", Len(message) < Len(Order)
               PROVE  /\ Len(message) \in Nat /\ f \in Fields /\ f \notin {"s", "l"}
                      /\ FindString(log[f]) = {} <=> ~Convertible(f, log[f])
    OBVIOUS
  <2>1. Len(message) \in Nat /\ Len(message) + 1 \in 1 .. 7
    BY FieldNames DEF Typed, Order
  <2>2. f \in Fields /\ f \notin {"s", "l"}
    BY <2>1, FieldNames
  <2>3. log[f].kind \in Kinds /\ (log[f].kind = "number" => log[f].n \in Int)
    BY <1>t, <2>2 DEF Progress
  <2> HIDE DEF f
  <2>4. FindString(log[f]) = {} <=> log[f].kind \in {"object", "bool"}
    BY <2>3, FindStringType
  <2>5. Convertible(f, log[f]) <=> log[f].kind \notin {"object", "bool"}
    BY <2>2, <2>3, ConvertibleTypes
  <2> QED
    BY <2>1, <2>2, <2>4, <2>5
<1>8. CASE TakeText
  <2>1. /\ pc = "message" /\ Len(message) < Len(Order) /\ pc' = pc
        /\ level' = level /\ time' = time
    BY <1>8 DEF TakeText
  <2>2. PICK text \in FindString(log[f]) : message' = Append(message, text)
    BY <1>8 DEF TakeText, Order
  <2>3. Convertible(f, log[f])
    BY <1>n, <2>1, <2>2
  <2>4. Len(message') = Len(message) + 1
    BY <2>2 DEF Typed
  <2>5. \A k \in 1 .. Len(message') : Convertible(TextFields[k], log[TextFields[k]])
    <3> TAKE k \in 1 .. Len(message')
    <3>1. CASE k = Len(message) + 1
      BY <2>3, <3>1
    <3>2. CASE k # Len(message) + 1
      <4>1. k \in 1 .. Len(message)
        BY <1>n, <2>1, <2>4, <3>2
      <4> QED
        BY <2>1, <4>1 DEF Progress
    <3> QED
      BY <3>1, <3>2
  <2> QED
    BY <1>0, <2>1, <2>5 DEF Progress
<1>9. CASE TextThrows
  <2>1. pc' = "thrown" /\ pc = "message" /\ Len(message) < Len(Order) /\ FindString(log[f]) = {}
    BY <1>9 DEF TextThrows, Order
  <2>2. Wrong
    BY <1>n, <2>1 DEF Wrong
  <2> QED
    BY <1>0, <2>1, <2>2 DEF Progress
<1>10. CASE Make
  BY <1>0, <1>10, FieldNames DEF Make, elementVars, Progress, Order
<1>11. CASE Report
  BY <1>0, <1>11 DEF Report, Progress
<1>12. CASE UNCHANGED vars
  BY <1>0, <1>12 DEF vars, elementVars, Progress
<1> QED
  BY <1>1, <1>2, <1>3, <1>4, <1>5, <1>6, <1>7, <1>8, <1>9, <1>10, <1>11, <1>12
  DEF Next, Finished

LEMMA ProgressIsRight == Progress => OnlyWrongTypesAreReported
<1> SUFFICES ASSUME Progress PROVE OnlyWrongTypesAreReported
  OBVIOUS
<1>1. CASE pc = "made"
  <2>1. log # Broken /\ Convertible("s", log["s"]) /\ Convertible("l", log["l"])
    BY <1>1 DEF Progress
  <2>2. \A k \in 1 .. 7 : Convertible(TextFields[k], log[TextFields[k]])
    BY <1>1 DEF Progress
  <2>3. \A f \in Fields : Convertible(f, log[f])
    BY <2>1, <2>2, FieldNames
  <2> QED
    BY <1>1, <2>1, <2>3 DEF OnlyWrongTypesAreReported
<1>2. CASE pc # "made"
  BY <1>2 DEF OnlyWrongTypesAreReported, Ended, Progress, Wrong
<1> QED
  BY <1>1, <1>2

(* A log is replaced by an error report if and only if it is no json or a  *)
(* field has a value of a type the code does not convert, whatever the     *)
(* other fields and the numbers are; and the report has nothing of the log *)
(* (src/element.cpp:24-100, src/session.cpp:26-46).                        *)
THEOREM ReportsAreRight == Spec => []OnlyWrongTypesAreReported
<1>1. Init => Progress
  BY DEF Init, Progress
<1> QED
  BY <1>1, TypedInvariant, ProgressStep, ProgressIsRight, PTL DEF Spec
-------------------------------------------------------------------------------
(* Arithmetic.                                                             *)

LEMMA QuotientIsLargest ==
  ASSUME NEW a \in Nat, NEW b \in Nat \ {0}, NEW q \in Nat, q * b <= a
  PROVE  q <= a \div b
<1>1. a \div b \in Nat /\ a < (a \div b + 1) * b
  BY Quotient
<1> DEFINE k == a \div b
<1> HIDE DEF k
<1>2. k \in Nat /\ a < (k + 1) * b
  BY <1>1 DEF k
<1>3. ASSUME k + 1 <= q PROVE (k + 1) * b <= q * b
  BY <1>2, <1>3
<1> QED
  BY <1>2, <1>3 DEF k

LEMMA MultipleModulo ==
  ASSUME NEW q \in Int, NEW c \in Nat \ {0}
  PROVE  (q * c) % c = 0
OBVIOUS

LEMMA AbsModulo ==
  ASSUME NEW n \in Int, NEW c \in Nat \ {0}, n % c = 0
  PROVE  Abs(n) % c = 0
<1> DEFINE q == n \div c
<1>1. q \in Int /\ n = q * c /\ -n = (-q) * c
  OBVIOUS
<1> HIDE DEF q
<1>2. ((-q) * c) % c = 0
  BY <1>1, MultipleModulo
<1>3. (-n) % c = 0
  BY <1>1, <1>2, Zenon
<1> QED
  BY <1>3 DEF Abs

LEMMA WrapIdentity ==
  ASSUME NEW n \in Int, NEW max \in Nat, n \in -max - 1 .. max
  PROVE  Wrap(n, max) = n
<1>1. n + max + 1 \in 0 .. 2 * (max + 1) - 1
  OBVIOUS
<1>2. (n + max + 1) % (2 * (max + 1)) = n + max + 1
  BY <1>1
<1> QED
  BY <1>2 DEF Wrap
-------------------------------------------------------------------------------
(* Conversions that fit.                                                   *)

(* Two roundings, the second of what the first made Micros times.          *)
LEMMA BlurArithmetic ==
  ASSUME NEW M \in Nat \ {0}, NEW G \in Nat, NEW H \in Nat,
         NEW x \in Nat, NEW y \in Nat, NEW d \in Nat, NEW e \in Nat, NEW far \in Nat,
         (2 * M) * d <= 2 * x + M * G, (2 * M) * e <= 2 * y + M * H,
         y <= x + d, far <= d + e
  PROVE  (far - (G + H)) * (M * M) <= (2 * M + 1) * x
<1>1. (2 * M) * far <= (2 * M) * d + (2 * M) * e
  OBVIOUS
<1>2. (2 * M) * far <= 4 * x + 2 * d + M * G + M * H
  <2>1. /\ (2 * M) * d \in Nat /\ (2 * M) * e \in Nat /\ (2 * M) * far \in Nat
        /\ M * G \in Nat /\ M * H \in Nat
    OBVIOUS
  <2> QED
    BY <1>1, <2>1
<1>3. M * ((2 * M) * far) <= M * (4 * x + 2 * d + M * G + M * H)
  <2> DEFINE l == (2 * M) * far
             r == 4 * x + 2 * d + M * G + M * H
  <2>1. l \in Nat /\ r \in Nat /\ l <= r
    BY <1>2
  <2> HIDE DEF l, r
  <2> QED
    BY <2>1
<1> DEFINE MM == M * M
           MX == M * x
           MG == M * G
           Z == far - (G + H)
<1>4. M * ((2 * M) * far) = 2 * (MM * far)
  OBVIOUS
<1>5. M * (4 * x + 2 * d + M * G + M * H) = 4 * MX + (2 * M) * d + MM * G + MM * H
  OBVIOUS
<1>6. MG <= MM * G
  OBVIOUS
<1>7. /\ MM * far \in Nat /\ MX \in Nat /\ MG \in Nat /\ MM * G \in Nat /\ MM * H \in Nat
      /\ (2 * M) * d \in Nat
  OBVIOUS
<1>8. Z * MM = MM * far - MM * G - MM * H /\ (2 * M + 1) * x = 2 * MX + x
  OBVIOUS
<1>9. (2 * M) * d <= 2 * x + MG
  OBVIOUS
<1> HIDE DEF MM, MX, MG, Z
<1>10. Z * MM <= 2 * MX + x
  BY <1>3, <1>4, <1>5, <1>6, <1>7, <1>8, <1>9
<1> QED
  BY <1>8, <1>10 DEF Z, MM

LEMMA MicroIsNear ==
  ASSUME NEW n \in Int
  PROVE  /\ Micro(n) \in Int /\ Blur(n * Micros) \in Nat
         /\ Abs(Micro(n) - n * Micros) <= Blur(n * Micros)
<1> DEFINE x == n * Micros
           y == Double(n) * Micros
           d == Double(n) - n
           e == Micro(n) - y
           G == Micros * Finest
           M == Mantissa
<1>0. /\ M \in Nat \ {0} /\ Finest \in Nat \ {0} /\ Micros \in Nat \ {0}
      /\ x \in Int /\ y \in Int /\ d \in Int /\ e \in Int /\ Micro(n) \in Int /\ Double(n) \in Int
      /\ G \in Nat
  <2>1. M \in Nat \ {0} /\ Finest \in Nat \ {0} /\ Micros \in Nat \ {0} /\ Double(n) \in Int
    BY DoubleAssumption, UnitAssumption, FinestUnit, DoubleIsNear
  <2>2. x \in Int /\ y \in Int /\ d \in Int /\ G \in Nat
    BY <2>1
  <2>3. Micro(n) \in Int
    BY <2>2, DoubleIsNear DEF Micro
  <2> QED
    BY <2>1, <2>2, <2>3
<1> HIDE DEF M
<1>1. (2 * M) * (Abs(d) * Micros) <= 2 * Abs(x) + M * G
  <2>1. (2 * M) * Abs(d) <= 2 * Abs(n) + M * Finest
    BY DoubleIsNear DEF M
  <2> DEFINE D == Abs(d)
             A == Abs(n)
             R == 2 * A + M * Finest
             L == (2 * M) * D
  <2>2. D \in Nat /\ A \in Nat
    BY <1>0 DEF Abs
  <2>3. Abs(x) = A * Micros
    BY <1>0 DEF Abs
  <2> HIDE DEF D, A
  <2>4. R \in Nat /\ L \in Nat
    BY <1>0, <2>2
  <2>5. L * Micros = (2 * M) * (D * Micros) /\ R * Micros = 2 * (A * Micros) + M * (Micros * Finest)
    BY <1>0, <2>2
  <2>6. L <= R
    BY <2>1 DEF D, A
  <2> HIDE DEF R, L
  <2>7. L * Micros <= R * Micros
    BY <1>0, <2>4, <2>6
  <2> QED
    BY <2>3, <2>5, <2>7 DEF D
<1>2. (2 * M) * Abs(e) <= 2 * Abs(y) + M * Finest
  BY <1>0, DoubleIsNear DEF Micro, M
<1>3. Abs(d) * Micros = Abs(y - x)
  <2>1. y - x = d * Micros
    BY <1>0
  <2>2. CASE d >= 0
    <3>1. d * Micros >= 0
      BY <1>0, <2>2
    <3> QED
      BY <1>0, <2>1, <2>2, <3>1 DEF Abs
  <2>3. CASE d < 0
    <3>1. d * Micros < 0 /\ -(d * Micros) = (-d) * Micros
      BY <1>0, <2>3
    <3> QED
      BY <1>0, <2>1, <2>3, <3>1 DEF Abs
  <2> QED
    BY <1>0, <2>2, <2>3
<1> DEFINE far == Abs(Micro(n) - x)
<1>4. /\ Abs(y) <= Abs(x) + Abs(y - x) /\ far <= Abs(y - x) + Abs(e)
      /\ {Abs(x), Abs(y), Abs(y - x), Abs(e), far} \subseteq Nat
  <2> HIDE DEF x, y
  <2> QED
    BY <1>0 DEF Abs
<1> HIDE DEF x, y, d, e, far
<1>5. (far - (G + Finest)) * (M * M) <= (2 * M + 1) * Abs(x)
  <2> HIDE DEF G
  <2>1. (2 * M) * Abs(y - x) <= 2 * Abs(x) + M * G
    BY <1>1, <1>3
  <2> QED
    BY <1>0, <1>2, <1>4, <2>1, BlurArithmetic
<1> DEFINE a == (2 * M + 1) * Abs(x)
           b == M * M
<1>6. a \in Nat /\ b \in Nat \ {0}
  BY <1>0, <1>4
<1>7. a \div b \in Nat
  BY <1>6, Quotient
<1>8. Blur(x) = a \div b + (G + Finest)
  BY <1>0 DEF Blur, M
<1>9. far - (G + Finest) <= a \div b
  <2>1. CASE far - (G + Finest) >= 0
    <3>1. far - (G + Finest) \in Nat /\ (far - (G + Finest)) * b <= a
      BY <1>0, <1>4, <1>5, <2>1
    <3> HIDE DEF a, b
    <3> QED
      BY <1>6, <3>1, QuotientIsLargest
  <2>2. CASE far - (G + Finest) < 0
    BY <1>0, <1>4, <1>7, <2>2
  <2> QED
    BY <1>0, <1>4, <2>1, <2>2
<1> HIDE DEF a, b, G
<1>10. far <= Blur(x) /\ Blur(x) \in Nat
  BY <1>0, <1>4, <1>7, <1>8, <1>9
<1> QED
  BY <1>0, <1>10 DEF far, x

(* A multiple of Scale, of which there are Mantissa at most, is a double.  *)
LEMMA WholeDouble ==
  ASSUME NEW n \in Int, n % Scale = 0, Abs(n) <= Mantissa * Scale
  PROVE  Double(n) = n
<1> DEFINE b == Abs(n)
           u == UnitOf(n)
<1>0. b \in Nat /\ (n >= 0 => b = n) /\ (n < 0 => b = -n)
  BY DEF Abs
<1>1. Reaches(Scale, n) /\ Scale \in Units
  BY DoubleAssumption DEF Reaches
<1>2. u \in Units /\ u <= Scale
  BY <1>1, UnitOfIsLeast
<1>3. u \in Nat \ {0} /\ Scale \in Nat \ {0} /\ Scale % u = 0
  BY <1>1, <1>2, DoubleAssumption
<1> HIDE DEF u
<1>4. b % u = 0
  <2> DEFINE j == Scale \div u
             k == b \div Scale
  <2>1. j \in Nat /\ Scale = j * u
    BY <1>3
  <2>2. k \in Nat /\ b = k * Scale
    <3>1. b % Scale = 0
      BY <1>3, AbsModulo
    <3> HIDE DEF b
    <3> QED
      BY <1>0, <1>3, <3>1
  <2> HIDE DEF j, k, b
  <2>3. b = (k * j) * u /\ k * j \in Nat
    BY <1>3, <2>1, <2>2
  <2> DEFINE m == k * j
  <2>4. m \in Nat /\ b = m * u
    BY <2>3
  <2> HIDE DEF m
  <2>5. (m * u) % u = 0
    BY <1>3, <2>4, MultipleModulo
  <2>6. b % u = 0
    BY <2>4, <2>5, Zenon
  <2> QED
    BY <2>6 DEF b
<1>5. Nearest(b, u) = b
  BY <1>0, <1>3, <1>4, NearestIsNear
<1>6. \E w \in Units : Reaches(w, n)
  BY <1>1
<1>7. Double(n) = IF n >= 0 THEN Nearest(b, u) ELSE -Nearest(b, u)
  BY <1>6 DEF Double, Abs, u
<1> QED
  BY <1>0, <1>5, <1>7

LEMMA TruncateIsSmaller ==
  ASSUME NEW a \in Int, NEW b \in Nat \ {0}
  PROVE  /\ Truncate(a, b) \in Int /\ Abs(Truncate(a, b)) \in Nat
         /\ Abs(Truncate(a, b)) * b <= Abs(a)
<1>1. CASE a >= 0
  <2>1. a \div b \in Nat /\ (a \div b) * b <= a
    BY <1>1, Quotient
  <2> QED
    BY <1>1, <2>1 DEF Truncate, Abs
<1>2. CASE a < 0
  <2> DEFINE q == (-a) \div b
  <2>1. q \in Nat /\ q * b <= -a
    BY <1>2, Quotient
  <2>2. Truncate(a, b) = -q
    BY <1>2 DEF Truncate
  <2> HIDE DEF q
  <2>3. Abs(-q) = q
    BY <2>1 DEF Abs
  <2> QED
    BY <1>2, <2>1, <2>2, <2>3 DEF Abs
<1> QED
  BY <1>1, <1>2

(* Microseconds that fit the clock become its ticks.                       *)
LEMMA TicksAreWritten ==
  ASSUME NEW a \in Int, Abs(a) * Nanos <= Int64Max * Scale,
         NEW m \in FromDouble(a, Scale, Int64Max)
  PROVE  Ticks(m) = Truncate(a, Scale) * Nanos
<1> DEFINE k == Truncate(a, Scale)
           j == Abs(k)
<1>0. Scale \in Nat \ {0} /\ Nanos \in Nat \ {0} /\ Int64Max \in Nat /\ Abs(a) \in Nat
  BY UnitAssumption, WidthAssumption DEF Abs
<1>1. k \in Int /\ j \in Nat /\ j * Scale <= Abs(a)
  BY <1>0, TruncateIsSmaller
<1>2. j * Nanos <= Int64Max
  <2> DEFINE A == Abs(a)
  <2> HIDE DEF A, k, j
  <2>1. A \in Nat /\ j \in Nat /\ j * Scale <= A /\ A * Nanos <= Int64Max * Scale
    BY <1>0, <1>1 DEF A
  <2>2. (j * Scale) * Nanos <= A * Nanos
    BY <1>0, <2>1
  <2>3. (j * Nanos) * Scale <= Int64Max * Scale
    BY <1>0, <2>1, <2>2
  <2> DEFINE p == j * Nanos
  <2>4. p \in Nat /\ p * Scale <= Int64Max * Scale
    BY <1>0, <2>1, <2>3
  <2> HIDE DEF p
  <2>5. p <= Int64Max
    BY <1>0, <2>4
  <2> QED
    BY <2>5 DEF p
<1>3. j <= j * Nanos /\ j * Nanos \in Nat
  BY <1>0, <1>1
<1>4. k \in Int64 /\ k * Nanos \in Int64
  <2>1. k * Nanos \in Int
    BY <1>0, <1>1
  <2> DEFINE p == j * Nanos
  <2>2. k * Nanos = IF k >= 0 THEN p ELSE -p
    BY <1>0, <1>1 DEF Abs
  <2>3. j <= p /\ p <= Int64Max /\ p \in Nat
    BY <1>2, <1>3
  <2> HIDE DEF p, k
  <2> QED
    BY <1>0, <1>1, <2>1, <2>2, <2>3 DEF Int64, Abs
<1>5. m = k
  BY <1>4 DEF FromDouble, Int64
<1> HIDE DEF k
<1>6. Wrap(k * Nanos, Int64Max) = k * Nanos
  BY <1>0, <1>1, <1>4, WrapIdentity DEF Int64
<1> QED
  BY <1>5, <1>6 DEF Ticks, k

LEMMA WholeNumber ==
  ASSUME NEW n \in Int, n % Scale = 0
  PROVE  Truncate(n, Scale) = n \div Scale /\ n \div Scale \in Int
<1>1. Scale \in Nat \ {0}
  BY UnitAssumption
<1> QED
  BY <1>1 DEF Truncate

LEMMA TruncateType ==
  ASSUME NEW n \in Int
  PROVE  Truncate(n, Scale) \in Int
BY UnitAssumption DEF Truncate

(* What get makes of a number that fits, and of one that does not.         *)
LEMMA GetIntegerFits ==
  ASSUME NEW n \in Int, NEW max \in Nat
  PROVE  /\ Truncate(Stored(n), Scale) \in -max - 1 .. max =>
              GetInteger(n, max) = {Truncate(Stored(n), Scale)}
         /\ Truncate(Stored(n), Scale) \notin -max - 1 .. max /\ ~IsInteger(n) =>
              GetInteger(n, max) = {-max - 1, max}
<1>1. CASE IsInteger(n)
  <2>1. Truncate(n, Scale) = n \div Scale /\ n \div Scale \in Int
    BY <1>1, WholeNumber DEF IsInteger
  <2> QED
    BY <1>1, <2>1, WrapIdentity DEF GetInteger, Stored
<1>2. CASE ~IsInteger(n)
  BY <1>2 DEF GetInteger, FromDouble, Stored
<1> QED
  BY <1>1, <1>2

(* The number a level is read from, as it is written or as json stores it. *)
Written(v) == Truncate(IF IsNumber(v) THEN Stored(v.n) ELSE v.n, Scale)

LEMMA LevelIsWritten ==
  ASSUME NEW v, v.kind \in {"bool", "number", "numeral"}, v.n \in Int,
         v.kind = "bool" => v.n \in {0, Scale},
         NEW value \in Integers32(v)
  PROVE  \/ LevelFor(value) = Written(v)
         \/ LevelFor(value) = Trace /\ Written(v) \notin 1 .. NLevels - 1
         \/ IsNumber(v) /\ IsInteger(v.n) /\ v.n \div Scale \notin Int32
<1> DEFINE t == Written(v)
<1>0. IntMax \in Nat /\ IntMax >= 7 /\ t \in Int
  BY WidthAssumption, TruncateType, StoredType DEF Written
<1>1. ASSUME value = t
      PROVE  \/ LevelFor(value) = t
             \/ LevelFor(value) = Trace /\ t \notin 1 .. NLevels - 1
  BY <1>0, <1>1 DEF LevelFor, Trace, NLevels
<1>2. CASE v.kind = "numeral"
  BY <1>1, <1>2 DEF Integers32, Written, IsNumber
<1>3. CASE v.kind = "number" /\ t \in Int32
  <2>1. GetInteger(v.n, IntMax) = {t}
    BY <1>0, <1>3, GetIntegerFits DEF Written, IsNumber, Int32
  <2> QED
    BY <1>1, <1>3, <2>1 DEF Integers32
<1>4. CASE v.kind = "number" /\ t \notin Int32
  <2>1. CASE IsInteger(v.n)
    BY <1>4, <2>1, WholeNumber DEF IsNumber, IsInteger, Written, Stored
  <2>2. CASE ~IsInteger(v.n)
    <3>1. value \in {-IntMax - 1, IntMax}
      BY <1>0, <1>4, <2>2, GetIntegerFits DEF Integers32, Int32, Written, IsNumber
    <3>2. LevelFor(value) = Trace
      BY <1>0, <3>1 DEF LevelFor, Trace, NLevels
    <3>3. t \notin 1 .. NLevels - 1
      BY <1>0, <1>4 DEF Int32, NLevels
    <3> QED
      BY <3>2, <3>3
  <2> QED
    BY <2>1, <2>2
<1>5. CASE v.kind = "bool"
  <2>1. v.n % Scale = 0 /\ v.n \div Scale \in {0, 1}
    BY <1>5, UnitAssumption
  <2>2. t = v.n \div Scale
    BY <1>5, <2>1, WholeNumber DEF Written, IsNumber
  <2>3. IsInteger(v.n)
    BY <2>1, WidthAssumption DEF IsInteger
  <2>4. GetInteger(v.n, IntMax) = {Wrap(t, IntMax)}
    BY <2>2, <2>3 DEF GetInteger
  <2>5. Wrap(t, IntMax) = t
    BY <1>0, <2>1, <2>2, WrapIdentity
  <2> QED
    BY <1>1, <1>5, <2>4, <2>5 DEF Integers32
<1> QED
  BY <1>2, <1>3, <1>4, <1>5

(* A field's value and a text that find_string returns for it.             *)
Keeps(v, text) ==
  CASE Missing(v) -> text = Text("")
    [] IsText(v) -> text = v
    [] IsNumber(v) /\ Truncate(Stored(v.n), Scale) \in Int64 ->
         text = Numeral(Truncate(Stored(v.n), Scale) * Scale)
    [] OTHER -> TRUE

LEMMA TextIsKept ==
  ASSUME NEW v, v.kind \in Kinds, v.kind = "number" => v.n \in Int,
         NEW text \in FindString(v)
  PROVE  Keeps(v, text)
<1>1. CASE Missing(v)
  <2>1. text = Text("") /\ ~IsText(v) /\ ~IsNumber(v)
    BY <1>1 DEF FindString, Missing, IsText, IsNumber
  <2> QED
    BY <1>1, <2>1, Zenon DEF Keeps
<1>2. CASE IsText(v)
  <2>1. text = v /\ ~Missing(v) /\ ~IsNumber(v)
    BY <1>2 DEF FindString, Missing, IsText, IsNumber
  <2> QED
    BY <1>2, <2>1, Zenon DEF Keeps
<1>3. CASE IsNumber(v) /\ Truncate(Stored(v.n), Scale) \in Int64
  <2>1. ~Missing(v) /\ ~IsText(v) /\ v.n \in Int
    BY <1>3 DEF Missing, IsText, IsNumber
  <2>2. GetInteger(v.n, Int64Max) = {Truncate(Stored(v.n), Scale)}
    BY <1>3, <2>1, WidthAssumption, GetIntegerFits DEF Int64
  <2>3. FindString(v) = {Numeral(n * Scale) : n \in GetInteger(v.n, Int64Max)}
    BY <1>3, <2>1, Zenon DEF FindString
  <2>4. text = Numeral(Truncate(Stored(v.n), Scale) * Scale)
    BY <2>2, <2>3, Zenon
  <2> QED
    BY <1>3, <2>1, <2>4, Zenon DEF Keeps
<1>4. CASE ~Missing(v) /\ ~IsText(v) /\ ~(IsNumber(v) /\ Truncate(Stored(v.n), Scale) \in Int64)
  BY <1>4, Zenon DEF Keeps
<1> QED
  BY <1>1, <1>2, <1>3, <1>4

-------------------------------------------------------------------------------
(* Where the members of the element come from.                             *)

(* The level is the one an int made of the field stands for.               *)
LevelSource ==
  IF HasLevel(log["l"]) THEN \E value \in Integers32(log["l"]) : level = LevelFor(value)
                        ELSE level = Trace

(* Each member that was converted comes from its own field.                *)
Sources ==
  /\ pc \in {"parse", "time", "level"} => level = Trace
  /\ pc \in {"level", "message", "made"} /\ HasTime(log["s"]) => time \in Times(log["s"])
  /\ pc \in {"message", "made"} => LevelSource
  /\ pc \in {"message", "made"} =>
       \A k \in 1 .. Len(message) : Keeps(log[TextFields[k]], message[k])

LEMMA SourcesStep == Typed /\ Progress /\ Sources /\ [Next]_vars => Sources'
<1> SUFFICES ASSUME Typed, Progress, Sources, [Next]_vars PROVE Sources'
  OBVIOUS
<1>0. log' = log
  BY DEF Next, Finished, vars, elementVars, ParseJson, TakeTime, TakeNow, TimeThrows,
         TakeLevel, TakeTrace, LevelThrows, TakeText, TextThrows, Make, Report
<1>m. \A v : Missing(v) => ~HasTime(v) /\ ~HasLevel(v)
  BY DEF Missing, HasTime, HasLevel
<1>1. CASE ParseJson
  BY <1>0, <1>1 DEF ParseJson, elementVars, Sources
<1>2. CASE TakeTime
  BY <1>0, <1>2 DEF TakeTime, Sources
<1>3. CASE TakeNow
  BY <1>0, <1>3, <1>m DEF TakeNow, Sources
<1>4. CASE TimeThrows \/ LevelThrows \/ TextThrows \/ Report
  BY <1>0, <1>4 DEF TimeThrows, LevelThrows, TextThrows, Report, Sources
<1>5. CASE TakeLevel
  <2>1. message' = <<>> /\ Len(<<>>) = 0
    BY <1>5 DEF TakeLevel, Progress
  <2>2. LevelSource'
    BY <1>0, <1>5 DEF TakeLevel, LevelSource
  <2> QED
    BY <1>0, <1>5, <2>1, <2>2 DEF TakeLevel, Sources
<1>6. CASE TakeTrace
  <2>1. message' = <<>> /\ Len(<<>>) = 0
    BY <1>6 DEF TakeTrace, elementVars, Progress
  <2>2. LevelSource'
    BY <1>0, <1>6, <1>m DEF TakeTrace, elementVars, LevelSource, Sources
  <2> QED
    BY <1>0, <1>6, <2>1, <2>2 DEF TakeTrace, elementVars, Sources
<1>7. CASE TakeText
  <2> DEFINE f == TextFields[Len(message) + 1]
  <2>1. /\ pc = "message" /\ Len(message) \in Nat /\ Len(message) + 1 \in 1 .. 7
        /\ UNCHANGED <<pc, time, level>>
    BY <1>7, FieldNames DEF TakeText, Order, Typed
  <2>2. PICK text \in FindString(log[f]) : message' = Append(message, text)
    BY <1>7 DEF TakeText, Order
  <2>3. f \in Fields /\ log # Broken
    BY <2>1, FieldNames DEF Progress
  <2> HIDE DEF f
  <2>4. log[f].kind \in Kinds /\ (log[f].kind = "number" => log[f].n \in Int)
    BY <2>3, LoggedType DEF Typed
  <2>5. Keeps(log[f], text)
    BY <2>4, TextIsKept
  <2>6. /\ Len(message') = Len(message) + 1 /\ message'[Len(message) + 1] = text
        /\ \A k \in 1 .. Len(message) : message'[k] = message[k]
    BY <2>2 DEF Typed
  <2>7. \A k \in 1 .. Len(message') : Keeps(log[TextFields[k]], message'[k])
    <3> TAKE k \in 1 .. Len(message')
    <3>1. CASE k = Len(message) + 1
      BY <2>5, <2>6, <3>1, Zenon DEF f
    <3>2. CASE k # Len(message) + 1
      <4>1. k \in 1 .. Len(message)
        BY <2>1, <2>6, <3>2
      <4> QED
        BY <2>1, <2>6, <4>1 DEF Sources
    <3> QED
      BY <3>1, <3>2
  <2>8. LevelSource'
    BY <1>0, <2>1 DEF Sources, LevelSource
  <2>9. \A k \in 1 .. Len(message') : Keeps(log'[TextFields[k]], message'[k])
    BY <1>0, <2>7, Zenon
  <2> QED
    BY <1>0, <2>1, <2>8, <2>9 DEF Sources
<1>8. CASE Make
  BY <1>0, <1>8 DEF Make, elementVars, Sources, LevelSource
<1>9. CASE UNCHANGED vars
  BY <1>0, <1>9 DEF vars, elementVars, Sources, LevelSource
<1> QED
  BY <1>1, <1>2, <1>3, <1>4, <1>5, <1>6, <1>7, <1>8, <1>9 DEF Next, Finished

LEMMA SourcesInvariant == Spec => [](Typed /\ Progress /\ Sources)
<1>1. Init => Progress /\ Sources
  BY DEF Init, Progress, Sources
<1> QED
  BY <1>1, TypedInit, TypedStep, ProgressStep, SourcesStep, PTL DEF Spec

(* A time that fits the clock is kept, rounded toward the epoch to the     *)
(* microsecond, but for what two roundings to a double change, and whole   *)
(* seconds are kept as they are, for any units and any doubles             *)
(* (src/element.cpp:38-52).                                                *)
THEOREM TimesAreKept == Spec => []TimeIsKept
<1>1. Typed /\ Progress /\ Sources => TimeIsKept
  <2> DEFINE n == log["s"].n
             exact == n * Micros
             blur == Blur(exact)
             near == Micro(n)
  <2> SUFFICES ASSUME Typed, Progress, Sources, pc = "made", HasTime(log["s"]),
                      (Abs(exact) + blur) * Nanos <= Int64Max * Scale
               PROVE  /\ \E a \in exact - blur .. exact + blur : time = Truncate(a, Scale) * Nanos
                      /\ n % Scale = 0 /\ Abs(exact) <= Mantissa * Scale =>
                           time * Scale = exact * Nanos
    BY Zenon DEF TimeIsKept
  <2>1. n \in Int
    BY LoggedType, FieldNames DEF Typed, Progress, HasTime
  <2>2. PICK m \in FromDouble(near, Scale, Int64Max) : time = Ticks(m)
    BY DEF Sources, Times
  <2> HIDE DEF n
  <2>3. /\ Micros \in Nat \ {0} /\ Nanos \in Nat \ {0} /\ Scale \in Nat \ {0} /\ Int64Max \in Nat
        /\ exact \in Int
    BY <2>1, UnitAssumption, WidthAssumption
  <2>4. near \in Int /\ blur \in Nat /\ Abs(near - exact) <= blur
    BY <2>1, MicroIsNear
  <2>5. near \in exact - blur .. exact + blur
    <3> HIDE DEF near, exact, blur
    <3> QED
      BY <2>3, <2>4 DEF Abs
  <2>6. Abs(near) * Nanos <= Int64Max * Scale
    <3> DEFINE c == Abs(exact) + blur
               d == Abs(near)
    <3>1. c \in Nat /\ d \in Nat /\ d <= c
      <4> HIDE DEF near, exact, blur
      <4> QED
        BY <2>3, <2>4, <2>5 DEF Abs
    <3> HIDE DEF c, d
    <3>2. d * Nanos <= c * Nanos
      BY <2>3, <3>1
    <3>3. c * Nanos <= Int64Max * Scale
      BY DEF c
    <3>4. c * Nanos \in Nat /\ d * Nanos \in Nat /\ Int64Max * Scale \in Nat
      BY <2>3, <3>1
    <3>5. d * Nanos <= Int64Max * Scale
      BY <3>2, <3>3, <3>4
    <3> QED
      BY <3>5 DEF d
  <2>7. time = Truncate(near, Scale) * Nanos
    <3> HIDE DEF near, exact, blur
    <3> QED
      BY <2>2, <2>4, <2>6, TicksAreWritten
  <2>8. ASSUME n % Scale = 0, Abs(exact) <= Mantissa * Scale
        PROVE  time * Scale = exact * Nanos
    <3> DEFINE k == n \div Scale
    <3>1. k \in Int /\ n = k * Scale
      BY <2>1, <2>3, <2>8
    <3>2. Abs(n) <= Abs(exact) /\ Mantissa * Scale \in Nat
      BY <2>1, <2>3, DoubleAssumption DEF Abs
    <3>3. Double(n) = n
      <4>1. Abs(n) \in Nat /\ Abs(exact) \in Nat
        BY <2>1, <2>3 DEF Abs
      <4> HIDE DEF exact
      <4>2. Abs(n) <= Mantissa * Scale
        BY <2>8, <3>2, <4>1
      <4> QED
        BY <2>1, <2>8, <4>2, WholeDouble
    <3> HIDE DEF k
    <3> DEFINE j == k * Micros
    <3>4. j \in Int /\ exact = j * Scale
      BY <2>3, <3>1
    <3> HIDE DEF j, exact
    <3>5. exact % Scale = 0
      BY <2>3, <3>4, MultipleModulo
    <3>6. near = exact
      BY <2>3, <2>8, <3>3, <3>5, WholeDouble DEF Micro, exact
    <3>7. Truncate(exact, Scale) = exact \div Scale /\ exact \div Scale \in Int
      BY <2>3, <3>5, WholeNumber
    <3>8. (exact \div Scale) * Scale = exact
      BY <2>3, <3>5
    <3> DEFINE q == exact \div Scale
    <3>9. q \in Int /\ q * Scale = exact /\ time = q * Nanos
      BY <2>7, <3>6, <3>7, <3>8
    <3> HIDE DEF q
    <3> QED
      BY <2>3, <3>9
  <2>9. \E a \in exact - blur .. exact + blur : time = Truncate(a, Scale) * Nanos
    <3> HIDE DEF near, exact, blur
    <3> QED
      BY <2>5, <2>7
  <2> QED
    BY <2>8, <2>9
<1> QED
  BY <1>1, SourcesInvariant, PTL

(* No log becomes an element with another level than was written in it, or *)
(* with another field's text in a field's place, for any logs              *)
(* (src/element.cpp:60-100).                                               *)
THEOREM NothingElseIsWritten == Spec => []ValuesAreKept
<1>1. Typed /\ Progress /\ Sources => ValuesAreKept
  <2> SUFFICES ASSUME Typed, Progress, Sources, pc = "made"
               PROVE  LevelIsKept /\ MessageIsKept
    BY DEF ValuesAreKept
  <2> DEFINE v == log["l"]
  <2>1. /\ v.kind \in Kinds
        /\ v.kind \in {"bool", "number", "numeral"} => v.n \in Int
        /\ v.kind = "bool" => v.n \in {0, Scale}
        /\ HasLevel(v) \/ Missing(v)
    BY LoggedType, FieldNames, ConvertibleTypes DEF Typed, Progress
  <2>2. ASSUME Missing(v) PROVE LevelIsKept
    <3>1. ~HasLevel(v)
      BY <2>2 DEF Missing, HasLevel
    <3>2. level = Trace
      BY <3>1 DEF Sources, LevelSource
    <3> QED
      BY <2>2, <3>2, Zenon DEF LevelIsKept
  <2>3. ASSUME HasLevel(v) PROVE LevelIsKept
    <3>1. PICK value \in Integers32(v) : level = LevelFor(value)
      BY <2>3 DEF Sources, LevelSource
    <3>2. v.kind \in {"bool", "number", "numeral"} /\ ~Missing(v)
      BY <2>3 DEF HasLevel, Missing
    <3> HIDE DEF v
    <3>3. \/ LevelFor(value) = Written(v)
          \/ LevelFor(value) = Trace /\ Written(v) \notin 1 .. NLevels - 1
          \/ IsNumber(v) /\ IsInteger(v.n) /\ v.n \div Scale \notin Int32
      BY <2>1, <3>2, LevelIsWritten
    <3>4. \/ level = Written(v)
          \/ level = Trace /\ Written(v) \notin 1 .. NLevels - 1
          \/ IsNumber(v) /\ IsInteger(v.n) /\ v.n \div Scale \notin Int32
      BY <3>1, <3>3, Zenon
    <3>5. \/ level = Trace /\ (Missing(v) \/ Written(v) \notin 1 .. NLevels - 1)
          \/ ~Missing(v) /\ level = Written(v)
          \/ IsNumber(v) /\ IsInteger(v.n) /\ v.n \div Scale \notin Int32
      BY <3>2, <3>4, Zenon
    <3> QED
      BY <3>5 DEF LevelIsKept, Written, v
  <2>4. MessageIsKept
    <3>1. \A k \in 1 .. Len(message) : Keeps(log[TextFields[k]], message[k])
      BY DEF Sources
    <3>2. Len(message) = Len(TextFields)
      BY FieldNames DEF Progress
    <3> QED
      BY <3>1, <3>2, Zenon DEF MessageIsKept, Keeps
  <2> QED
    BY <2>1, <2>2, <2>3, <2>4
<1> QED
  BY <1>1, SourcesInvariant, PTL
===============================================================================
