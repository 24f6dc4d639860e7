--------------------------- MODULE CommandLineProofs ---------------------------
(***************************************************************************)
(* Proofs about CommandLine, for any arguments, any number of them, and    *)
(* any widths and platform.                                                *)
(***************************************************************************)
EXTENDS CommandLine, SequenceTheorems, WellFoundedInduction, TLAPS

-------------------------------------------------------------------------------
(* Types.                                                                  *)

Levels32 == -IntMax - 1 .. IntMax
Kinds == {"file", "systemd", "syslog", "eventlog", "console"}
Sink == [kind : Kinds, level : Levels32]

ParserTyped ==
  /\ argv \in Seq(Arguments)
  /\ n \in 1 .. Len(argv) + 1
  /\ nonOptions \in Seq(Arguments) /\ unknown \in Seq(Arguments)
ValuesTyped ==
  /\ DOMAIN values = Names /\ DOMAIN options = Members
  /\ \A name \in Names : values[name] \in Seq(Types(name))
  /\ \A m \in Members : options[m] \in Types(m)
ServerTyped ==
  /\ pc \in {"parse", "parsed", "thrown", "helped", "failed", "sinks", "serving"}
  /\ acceptors \in Seq({"unix", "tcp"})
  /\ block \in 1 .. 6
  /\ sinks \in Seq(Sink)

Typed == ParserTyped /\ ValuesTyped /\ ServerTyped

LEMMA WordKinds ==
  /\ \A w \in Words : /\ w.kind \in {"empty", "dashes", "name", "number", "long", "short"}
                      /\ w.kind = "number" => w.n \in Int
                      /\ w.kind = "short" => w.h \in Nat /\ w.others \in BOOLEAN
                      /\ w.kind = "empty" => w = Empty
                      /\ w.kind = "dashes" => w = DashDash
                      /\ w.kind = "long" => w = Long(w.name, w.value)
  /\ Arguments \subseteq Words
  /\ \A a \in Arguments : a.kind = "long" => a.value \in Words
<1>1. ASSUME NEW w \in Words
      PROVE  /\ w.kind \in {"empty", "dashes", "name", "number", "long", "short"}
             /\ w.kind = "number" => w.n \in Int
             /\ w.kind = "short" => w.h \in Nat /\ w.others \in BOOLEAN
             /\ w.kind = "empty" => w = Empty
             /\ w.kind = "dashes" => w = DashDash
             /\ w.kind = "long" => w = Long(w.name, w.value)
  <2>1. \/ w.kind \in {"empty", "dashes"} /\ w = [kind |-> w.kind]
        \/ w.kind = "name" /\ w = Name(w.text)
        \/ w.kind = "number" /\ w = Number(w.n) /\ w.n \in Int
        \/ w.kind = "long" /\ w = Long(w.name, w.value)
        \/ w.kind = "short" /\ w = Short(w.h, w.others) /\ w.h \in Nat /\ w.others \in BOOLEAN
    BY ArgumentAssumption
  <2> QED
    BY <2>1 DEF Empty, DashDash
<1> QED
  BY <1>1 DEF Words

LEMMA TypesOf ==
  ASSUME NEW name \in Names
  PROVE  /\ name \in Switches => Types(name) = BOOLEAN
         /\ name \in Texts => Types(name) = {Empty, Name("scriptor")} \cup Words
         /\ name \in Unsigned => Types(name) = 0 .. Largest(name)
         /\ name \in Levels => Types(name) = Levels32
         /\ name \in Reals => Types(name) = Int
BY DEF Types, Names, Switches, Texts, Unsigned, Sizes, Levels, Reals, Levels32

(* The kinds of options have no names in common.                           *)
LEMMA KindsOfNames ==
  /\ \A name \in Switches : name \notin Texts /\ name \notin Unsigned /\ name \notin Levels
                            /\ name \notin Reals
  /\ \A name \in Texts : name \notin Unsigned /\ name \notin Levels /\ name \notin Reals
  /\ \A name \in Unsigned : name \notin Levels /\ name \notin Reals
  /\ \A name \in Levels : name \notin Reals
BY DEF Switches, Texts, Unsigned, Sizes, Levels, Reals

LEMMA LargestType == \A name : Largest(name) \in Nat
BY WidthAssumption DEF Largest

LEMMA DefaultValues ==
  /\ \A m \in Switches : Default(m) = FALSE
  /\ \A m \in Levels : Default(m) = 0
  /\ \A m \in Texts \ {"identity"} : Default(m) = Empty
  /\ Default("identity") = Name("scriptor")
  /\ Default("socket_port") = 12345
  /\ Default("threads") = HardwareThreads
  /\ Default("filelog_max_files") = 3
  /\ Default("filelog_max_file_mb") = 10
<1>1. \A m \in Switches : Default(m) = FALSE
  BY Zenon DEF Default
<1>2. ASSUME NEW m \in Levels
      PROVE  Default(m) = 0
  <2>1. /\ m \notin Switches /\ m # "identity" /\ m \notin Texts \ {"identity"}
        /\ m # "socket_port" /\ m # "threads" /\ m # "filelog_max_files"
        /\ m # "filelog_max_file_mb"
    BY DEF Switches, Levels, Texts
  <2> QED
    BY <2>1 DEF Default
<1>3. ASSUME NEW m \in Texts \ {"identity"}
      PROVE  Default(m) = Empty
  <2>1. /\ m \notin Switches /\ m \notin Levels /\ m # "identity"
        /\ m # "socket_port" /\ m # "threads" /\ m # "filelog_max_files"
        /\ m # "filelog_max_file_mb"
    BY DEF Switches, Levels, Texts
  <2> QED
    BY <2>1 DEF Default
<1>4. /\ Default("identity") = Name("scriptor")
      /\ Default("socket_port") = 12345
      /\ Default("threads") = HardwareThreads
      /\ Default("filelog_max_files") = 3
      /\ Default("filelog_max_file_mb") = 10
  BY DEF Default, Switches, Levels, Texts
<1> QED
  BY <1>1, <1>2, <1>3, <1>4

LEMMA DefaultType ==
  ASSUME NEW m \in Members
  PROVE  Default(m) \in Types(m)
<1>1. m \in Names
  BY DEF Members
<1>2. CASE m \in Switches
  <2>1. Types(m) = BOOLEAN
    BY <1>1, <1>2, TypesOf
  <2>2. Default(m) = FALSE
    BY <1>2, DefaultValues
  <2> QED
    BY <2>1, <2>2, Zenon
<1>3. CASE m \in Levels
  BY <1>1, <1>3, TypesOf, DefaultValues, WidthAssumption DEF Levels32
<1>4. CASE m \in Texts
  BY <1>1, <1>4, TypesOf, DefaultValues
<1>5. CASE m \in Unsigned
  <2>1. Types(m) = 0 .. Largest(m)
    BY <1>1, <1>5, TypesOf
  <2>2. CASE m = "socket_port"
    BY <2>1, <2>2, DefaultValues, WidthAssumption DEF Largest
  <2>3. CASE m \in Sizes
    BY <2>1, <2>3, DefaultValues, WidthAssumption DEF Largest, Sizes
  <2> QED
    BY <1>5, <2>2, <2>3 DEF Unsigned
<1>6. CASE m \in Reals
  BY <1>1, <1>6, TypesOf, DefaultValues DEF Reals
<1> QED
  BY <1>1, <1>2, <1>3, <1>4, <1>5, <1>6 DEF Names

LEMMA ConvertType ==
  ASSUME NEW name \in Names \ Switches, NEW w \in Words, Accepts(name, w)
  PROVE  Convert(name, w) \in Types(name)
<1>1. CASE name \in Texts
  <2>1. Convert(name, w) = w
    BY <1>1, KindsOfNames DEF Convert
  <2> QED
    BY <1>1, <2>1, TypesOf
<1>2. CASE name \in Unsigned
  <2>1. w.n \in Int /\ Largest(name) \in Nat
    BY <1>2, LargestType, WordKinds, KindsOfNames DEF Accepts, AcceptsUnsigned
  <2>2. w.n % (Largest(name) + 1) \in 0 .. Largest(name)
    <3> DEFINE max == Largest(name)
               m == w.n
    <3>1. max + 1 \in Nat \ {0} /\ m \in Int
      BY <2>1
    <3> HIDE DEF max, m
    <3>2. m % (max + 1) \in 0 .. (max + 1) - 1
      BY <3>1
    <3>3. (max + 1) - 1 = max
      BY <2>1 DEF max
    <3> QED
      BY <3>2, <3>3 DEF max, m
  <2>3. Convert(name, w) = w.n % (Largest(name) + 1)
    BY <1>2, KindsOfNames DEF Convert
  <2> QED
    BY <1>2, <2>2, <2>3, TypesOf
<1>3. CASE name \in Levels
  <2>1. Convert(name, w) = w.n /\ w.n \in Levels32
    BY <1>3, KindsOfNames DEF Accepts, AcceptsInt, Convert, Levels32
  <2> QED
    BY <1>3, <2>1, TypesOf
<1>4. CASE name \in Reals
  <2>1. Convert(name, w) = w.n /\ w.n \in Int
    BY <1>4, KindsOfNames, WordKinds DEF Accepts, Convert
  <2> QED
    BY <1>4, <2>1, TypesOf
<1> QED
  BY <1>1, <1>2, <1>3, <1>4 DEF Names
LEMMA TypedInit == Init => Typed
<1> SUFFICES ASSUME Init PROVE Typed
  OBVIOUS
<1>0. \A S : <<>> \in Seq(S)
  BY EmptySeq
<1>1. ParserTyped
  <2>1. PICK k \in 0 .. MaxArguments : argv \in [1 .. k -> Arguments]
    BY DEF Init
  <2>2. k \in Nat
    OBVIOUS
  <2>3. argv \in Seq(Arguments)
    BY <2>1, <2>2
  <2>4. Len(argv) \in Nat /\ 1 \in 1 .. Len(argv) + 1
    BY <2>3, LenProperties
  <2> QED
    BY <1>0, <2>3, <2>4 DEF Init, ParserTyped
<1>2. ValuesTyped
  BY <1>0, DefaultType DEF Init, ValuesTyped
<1>3. ServerTyped
  BY <1>0 DEF Init, ServerTyped
<1> QED
  BY <1>1, <1>2, <1>3 DEF Typed

LEMMA AddValuesTyped ==
  ASSUME ValuesTyped, NEW name \in Names, NEW new \in Seq(Types(name)), AddValues(name, new)
  PROVE  ValuesTyped'
<1>1. /\ values' = [values EXCEPT ![name] = @ \o new]
      /\ options' = [m \in Members |->
                       IF m = name /\ new # <<>> THEN LastValue(values'[m]) ELSE options[m]]
  BY DEF AddValues
<1>2. values[name] \in Seq(Types(name))
  BY DEF ValuesTyped
<1>3. values[name] \o new \in Seq(Types(name)) /\ Len(values[name] \o new) = Len(values[name]) + Len(new)
  BY <1>2, ConcatProperties
<1>4. ASSUME NEW k \in Names PROVE values'[k] \in Seq(Types(k))
  <2>1. CASE k = name
    BY <1>1, <1>3, <2>1 DEF ValuesTyped
  <2>2. CASE k # name
    BY <1>1, <2>2 DEF ValuesTyped
  <2> QED
    BY <2>1, <2>2
<1>5. ASSUME NEW m \in Members PROVE options'[m] \in Types(m)
  <2>1. CASE m = name /\ new # <<>>
    <3> DEFINE seq == values'[m]
    <3>1. seq \in Seq(Types(m)) /\ Len(seq) = Len(values[name]) + Len(new)
      BY <1>1, <1>3, <2>1 DEF ValuesTyped
    <3>2. Len(new) > 0 /\ Len(new) \in Nat /\ Len(values[name]) \in Nat
      BY <1>2, <2>1, EmptySeq, LenProperties
    <3> HIDE DEF seq
    <3>3. Len(seq) \in 1 .. Len(seq)
      BY <3>1, <3>2
    <3>4. seq[Len(seq)] \in Types(m)
      BY <3>1, <3>3, ElementOfSeq
    <3> QED
      BY <1>1, <2>1, <3>4 DEF LastValue, seq
  <2>2. CASE ~(m = name /\ new # <<>>)
    BY <1>1, <2>2 DEF ValuesTyped
  <2> QED
    BY <2>1, <2>2
<1>6. DOMAIN values' = Names /\ DOMAIN options' = Members
  BY <1>1 DEF ValuesTyped
<1> QED
  BY <1>4, <1>5, <1>6 DEF ValuesTyped

(* The argument a step of the parser is at.                                *)
LEMMA ArgType ==
  ASSUME ParserTyped, Parsing
  PROVE  /\ Arg \in Arguments /\ n \in 1 .. Len(argv) /\ Len(argv) \in Nat
         /\ n + 1 \in 1 .. Len(argv) + 1
         /\ Arg.kind = "long" => OptArg \in Words
         /\ TakesNext => n + 2 \in 1 .. Len(argv) + 1
<1>1. n \in 1 .. Len(argv) /\ Len(argv) \in Nat /\ argv \in Seq(Arguments)
  BY LenProperties DEF ParserTyped, Parsing
<1>2. Arg \in Arguments
  BY <1>1, ElementOfSeq DEF Arg
<1>3. TakesNext => n + 1 \in 1 .. Len(argv)
  BY <1>1 DEF TakesNext
<1>4. TakesNext => argv[n + 1] \in Arguments
  BY <1>1, <1>3, ElementOfSeq
<1>5. Arg.kind = "long" => OptArg \in Words
  BY <1>2, <1>4, WordKinds DEF OptArg
<1> QED
  BY <1>1, <1>2, <1>3, <1>5

(* What a step of the parser adds to the values has their type.            *)
LEMMA NewValueType ==
  ASSUME ParserTyped
  PROVE  /\ ParseSwitch => Arg.name \in Names /\ <<TRUE>> \in Seq(Types(Arg.name))
         /\ ParseValue => /\ Arg.name \in Names
                          /\ <<Convert(Arg.name, OptArg)>> \in Seq(Types(Arg.name))
         /\ ParseShort => /\ "help" \in Names
                          /\ [i \in 1 .. HelpLetters(Arg) |-> TRUE] \in Seq(Types("help"))
<1>1. ASSUME ParseSwitch
      PROVE  Arg.name \in Names /\ <<TRUE>> \in Seq(Types(Arg.name))
  <2>1. Arg.name \in Switches /\ Arg.name \in Names
    BY <1>1 DEF ParseSwitch, Names
  <2>2. Types(Arg.name) = BOOLEAN
    BY <2>1, TypesOf
  <2>3. <<TRUE>> \in Seq(BOOLEAN)
    OBVIOUS
  <2> QED
    BY <2>1, <2>2, <2>3, Zenon
<1>2. ASSUME ParseValue
      PROVE  /\ Arg.name \in Names
             /\ <<Convert(Arg.name, OptArg)>> \in Seq(Types(Arg.name))
  <2>1. Arg.name \in Names \ Switches /\ Accepts(Arg.name, OptArg) /\ Arg.kind = "long" /\ Parsing
    BY <1>2 DEF ParseValue, AtValue, AtLong
  <2>2. OptArg \in Words
    BY <2>1, ArgType
  <2>3. Convert(Arg.name, OptArg) \in Types(Arg.name)
    BY <2>1, <2>2, ConvertType
  <2> QED
    BY <2>1, <2>3
<1>3. ASSUME ParseShort
      PROVE  /\ "help" \in Names
             /\ [i \in 1 .. HelpLetters(Arg) |-> TRUE] \in Seq(Types("help"))
  <2>1. Arg \in Words
    BY <1>3, ArgType, WordKinds DEF ParseShort
  <2>2. HelpLetters(Arg) \in Nat
    BY <2>1, WordKinds DEF HelpLetters
  <2>3. Types("help") = BOOLEAN /\ "help" \in Names
    BY TypesOf DEF Names, Switches
  <2> DEFINE h == HelpLetters(Arg)
  <2> HIDE DEF h
  <2>4. h \in Nat
    BY <2>2 DEF h
  <2>5. [i \in 1 .. h |-> TRUE] \in Seq(BOOLEAN)
    BY <2>4
  <2> QED
    BY <2>3, <2>5 DEF h
<1> QED
  BY <1>1, <1>2, <1>3

LEMMA ParserTypedStep == Typed /\ [Next]_vars => ParserTyped' /\ ValuesTyped'
<1> SUFFICES ASSUME Typed, [Next]_vars PROVE ParserTyped' /\ ValuesTyped'
  OBVIOUS
<1>0. ParserTyped /\ ValuesTyped
  BY DEF Typed
<1>1. ASSUME argv' = argv, UNCHANGED parserVars
      PROVE  ParserTyped' /\ ValuesTyped'
  BY <1>0, <1>1 DEF parserVars, ParserTyped, ValuesTyped
<1>2. ASSUME Parsing, argv' = argv, n' \in {n + 1, IF TakesNext THEN n + 2 ELSE n + 1}
      PROVE  n' \in 1 .. Len(argv) + 1
  BY <1>0, <1>2, ArgType
<1>3. CASE ParseDashDash
  <2>1. Parsing /\ n' = n + 1 /\ UNCHANGED <<argv, values, options, unknown>>
    BY <1>3 DEF ParseDashDash
  <2>2. SubSeq(argv, n + 1, Len(argv)) \in Seq(Arguments)
    BY <1>0, <2>1, ArgType, SubSeqProperties DEF ParserTyped
  <2>3. nonOptions' \in Seq(Arguments)
    BY <1>0, <1>3, <2>2, ConcatProperties DEF ParseDashDash, ParserTyped
  <2> QED
    BY <1>0, <1>2, <2>1, <2>3 DEF ParserTyped, ValuesTyped
<1>4. CASE ParseSwitch
  <2>1. Parsing /\ n' = n + 1 /\ UNCHANGED <<argv, nonOptions, unknown>>
        /\ AddValues(Arg.name, <<TRUE>>)
    BY <1>4 DEF ParseSwitch, AtLong
  <2>2. ValuesTyped'
    BY <1>0, <1>4, <2>1, NewValueType, AddValuesTyped
  <2> QED
    BY <1>0, <1>2, <2>1, <2>2 DEF ParserTyped
<1>5. CASE ParseValue
  <2>1. Parsing /\ n' = (IF TakesNext THEN n + 2 ELSE n + 1) /\ UNCHANGED <<argv, nonOptions, unknown>>
        /\ AddValues(Arg.name, <<Convert(Arg.name, OptArg)>>)
    BY <1>5 DEF ParseValue, AtValue, AtLong
  <2>2. ValuesTyped'
    BY <1>0, <1>5, <2>1, NewValueType, AddValuesTyped
  <2> QED
    BY <1>0, <1>2, <2>1, <2>2 DEF ParserTyped
<1>6. CASE ParseShort
  <2>1. Parsing /\ n' = n + 1 /\ UNCHANGED <<argv, nonOptions>>
        /\ AddValues("help", [i \in 1 .. HelpLetters(Arg) |-> TRUE])
        /\ unknown' \in {unknown, Append(unknown, Arg)}
    BY <1>6 DEF ParseShort
  <2>2. ValuesTyped'
    BY <1>0, <1>6, <2>1, NewValueType, AddValuesTyped
  <2>3. unknown' \in Seq(Arguments)
    <3>1. Arg \in Arguments /\ unknown \in Seq(Arguments)
      BY <1>0, <2>1, ArgType DEF ParserTyped
    <3>2. Append(unknown, Arg) \in Seq(Arguments)
      BY <3>1, AppendProperties
    <3> QED
      BY <2>1, <3>1, <3>2
  <2> QED
    BY <1>0, <1>2, <2>1, <2>2, <2>3 DEF ParserTyped
<1>7. CASE ParseUnknown
  <2>1. Parsing /\ n' = n + 1 /\ UNCHANGED <<argv, values, options, nonOptions>>
        /\ unknown' = Append(unknown, Arg)
    BY <1>7 DEF ParseUnknown, AtLong
  <2>2. unknown' \in Seq(Arguments)
    BY <1>0, <2>1, ArgType, AppendProperties DEF ParserTyped
  <2> QED
    BY <1>0, <1>2, <2>1, <2>2 DEF ParserTyped, ValuesTyped
<1>8. CASE ParsePlain
  <2>1. Parsing /\ n' = n + 1 /\ UNCHANGED <<argv, values, options, unknown>>
        /\ nonOptions' = Append(nonOptions, Arg)
    BY <1>8 DEF ParsePlain
  <2>2. nonOptions' \in Seq(Arguments)
    BY <1>0, <2>1, ArgType, AppendProperties DEF ParserTyped
  <2> QED
    BY <1>0, <1>2, <2>1, <2>2 DEF ParserTyped, ValuesTyped
<1>9. ASSUME ParseThrows \/ ParseEnds \/ PrintHelp \/ Fail \/ Construct \/ Finished \/ UNCHANGED vars
      PROVE  argv' = argv /\ UNCHANGED parserVars
  BY <1>9 DEF ParseThrows, ParseEnds, PrintHelp, Fail, Construct, MakeAcceptors, AcceptorsFail,
              MakeSink, SkipSink, SinkFails, Serve, Finished, vars
<1> QED
  BY <1>1, <1>3, <1>4, <1>5, <1>6, <1>7, <1>8, <1>9 DEF Next, Parse

LEMMA LevelOfType ==
  ASSUME ValuesTyped, NEW kind \in Kinds
  PROVE  LevelOf(kind) \in Levels32
<1>1. \A m \in Levels : options[m] \in Levels32
  <2> SUFFICES ASSUME NEW m \in Levels PROVE options[m] \in Levels32
    OBVIOUS
  <2>1. m \in Members /\ m \in Names
    BY DEF Levels, Members, Names
  <2> QED
    BY <2>1, TypesOf DEF ValuesTyped
<1>2. 0 \in Levels32
  BY WidthAssumption DEF Levels32
<1> QED
  BY <1>1, <1>2 DEF LevelOf, Kinds, Levels

LEMMA BlockKinds == Len(Blocks) = 5 /\ \A k \in 1 .. 5 : Blocks[k] \in Kinds
<1>1. /\ Blocks[1] = "file" /\ Blocks[2] = "systemd" /\ Blocks[3] = "syslog"
      /\ Blocks[4] = "eventlog" /\ Blocks[5] = "console" /\ Len(Blocks) = 5
  BY DEF Blocks
<1> QED
  BY <1>1 DEF Kinds

LEMMA EndpointsType == Endpoints \in Seq({"unix", "tcp"})
<1> DEFINE E == {"unix", "tcp"}
<1>1. <<>> \in Seq(E) /\ <<"unix">> \in Seq(E) /\ <<"tcp">> \in Seq(E)
  OBVIOUS
<1> HIDE DEF E
<1>2. Endpoints \in Seq(E)
  BY <1>1, ConcatProperties DEF Endpoints
<1> QED
  BY <1>2 DEF E

LEMMA ServerTypedStep == Typed /\ [Next]_vars => ServerTyped'
<1> SUFFICES ASSUME Typed, [Next]_vars PROVE ServerTyped'
  OBVIOUS
<1>0. ServerTyped /\ ValuesTyped
  BY DEF Typed
<1>1. ASSUME UNCHANGED serverVars,
             pc' \in {pc, "parsed", "thrown", "helped", "failed", "serving"}
      PROVE  ServerTyped'
  BY <1>0, <1>1 DEF serverVars, ServerTyped
<1>2. CASE MakeAcceptors
  BY <1>0, <1>2, EndpointsType DEF MakeAcceptors, ServerTyped
<1>3. CASE MakeSink
  <2>1. block \in 1 .. 5 /\ Blocks[block] \in Kinds
    BY <1>0, <1>3, BlockKinds DEF MakeSink, AtBlock, ServerTyped
  <2> DEFINE new == [kind |-> Blocks[block], level |-> LevelOf(Blocks[block])]
  <2>2. new \in Sink
    BY <1>0, <2>1, LevelOfType DEF Sink
  <2>3. sinks' = Append(sinks, new) /\ block' = block + 1 /\ UNCHANGED <<pc, acceptors>>
    BY <1>3 DEF MakeSink
  <2> HIDE DEF new
  <2>4. sinks' \in Seq(Sink)
    BY <1>0, <2>2, <2>3, AppendProperties DEF ServerTyped
  <2> QED
    BY <1>0, <2>1, <2>3, <2>4 DEF ServerTyped
<1>4. CASE SkipSink
  BY <1>0, <1>4, BlockKinds DEF SkipSink, AtBlock, ServerTyped
<1>5. CASE SinkFails
  BY <1>0, <1>5, EmptySeq DEF SinkFails, ServerTyped
<1>6. CASE \/ ParseDashDash \/ ParseSwitch \/ ParseValue \/ ParseThrows \/ ParseUnknown
           \/ ParseShort \/ ParsePlain \/ ParseEnds
  BY <1>1, <1>6 DEF ParseDashDash, ParseSwitch, ParseValue, ParseThrows, ParseUnknown,
                    ParseShort, ParsePlain, ParseEnds
<1>7. CASE \/ PrintHelp \/ Fail \/ AcceptorsFail \/ Serve \/ Finished \/ UNCHANGED vars
  BY <1>1, <1>7 DEF PrintHelp, Fail, AcceptorsFail, Serve, Finished, vars
<1> QED
  BY <1>2, <1>3, <1>4, <1>5, <1>6, <1>7 DEF Next, Parse, Construct

LEMMA TypedInvariant == Spec => []Typed
<1>1. Typed /\ [Next]_vars => Typed'
  BY ParserTypedStep, ServerTypedStep DEF Typed
<1> QED
  BY <1>1, TypedInit, PTL DEF Spec

(* Every variable keeps its type: whatever number is written, the one that *)
(* is assigned fits its member of Options (src/server.h:14-31).            *)
THEOREM TypeCorrect == Spec => []TypeOK
<1>1. Typed => TypeOK
  <2> SUFFICES ASSUME Typed PROVE TypeOK
    OBVIOUS
  <2>1. ParserTyped /\ ValuesTyped /\ ServerTyped
    BY DEF Typed
  <2>2. Range(Blocks) = {Blocks[k] : k \in 1 .. 5}
    <3>1. Blocks \in Seq(Kinds)
      BY DEF Blocks, Kinds
    <3> QED
      BY <3>1, BlockKinds, RangeEquality
  <2>3. Kinds \subseteq Range(Blocks)
    <3>1. /\ Blocks[1] = "file" /\ Blocks[2] = "systemd" /\ Blocks[3] = "syslog"
          /\ Blocks[4] = "eventlog" /\ Blocks[5] = "console"
      BY DEF Blocks
    <3> QED
      BY <2>2, <3>1 DEF Kinds
  <2>4. Range(sinks) = {sinks[k] : k \in 1 .. Len(sinks)}
    BY <2>1, RangeEquality DEF ServerTyped
  <2>5. \A s \in Range(sinks) : s \in Sink
    BY <2>1, <2>4, ElementOfSeq DEF ServerTyped
  <2>6. \A s \in Range(sinks) : s.kind \in Range(Blocks) /\ s.level \in -IntMax - 1 .. IntMax
    BY <2>3, <2>5 DEF Sink, Levels32
  <2> QED
    BY <2>1, <2>6, BlockKinds DEF TypeOK, ParserTyped, ValuesTyped, ServerTyped
<1> QED
  BY <1>1, TypedInvariant, PTL
-------------------------------------------------------------------------------
(* Runs of hungry options.                                                 *)

LEMMA LeastNumber ==
  ASSUME NEW S, S \subseteq Nat, S # {}
  PROVE  \E m \in S : \A k \in S : m <= k
<1> DEFINE Less == OpToRel(<, Nat)
<1>1. IsWellFoundedOn(Less, Nat)
  BY NatLessThanWellFounded
<1>2. PICK m \in S : \A k \in S : <<k, m>> \notin Less
  <2> HIDE DEF Less
  <2> QED
    BY <1>1, WFMin
<1>3. \A k \in S : ~(k < m)
  BY <1>2 DEF OpToRel
<1> HIDE DEF Less
<1> QED
  BY <1>3

(* j begins the run of hungry options that ends in front of i.             *)
Starts(j, i) ==
  /\ j \in 1 .. i - 1
  /\ \A k \in j .. i - 1 : Hungry(k)
  /\ j = 1 \/ ~Hungry(j - 1)

LEMMA TakenStarts ==
  ASSUME NEW i \in Nat \ {0}
  PROVE  /\ Taken(i) => \E j \in 1 .. i - 1 : Starts(j, i) /\ (i - j) % 2 = 1
         /\ \A j \in 1 .. i - 1 : Starts(j, i) /\ (i - j) % 2 = 1 => Taken(i)
BY DEF Taken, Starts

LEMMA OneStart ==
  ASSUME NEW i \in Nat \ {0}, NEW j, Starts(j, i), NEW k, Starts(k, i)
  PROVE  j = k
BY DEF Starts

LEMMA RunStarts ==
  ASSUME NEW i \in Nat \ {0}, Hungry(i)
  PROVE  \E j \in 1 .. i : Starts(j, i + 1)
<1> DEFINE S == {j \in 1 .. i : \A k \in j .. i : Hungry(k)}
<1>1. S \subseteq Nat /\ i \in S
  OBVIOUS
<1>2. PICK j \in S : \A k \in S : j <= k
  BY <1>1, LeastNumber
<1>3. j - 1 \notin S
  BY <1>2
<1>4. j = 1 \/ ~Hungry(j - 1)
  BY <1>2, <1>3
<1>5. j \in 1 .. i /\ \A k \in j .. i : Hungry(k)
  BY <1>2
<1> HIDE DEF S
<1>6. (i + 1) - 1 = i
  OBVIOUS
<1> QED
  BY <1>4, <1>5, <1>6 DEF Starts

LEMMA StartsFurther ==
  ASSUME NEW i \in Nat \ {0}, NEW j, Starts(j, i + 1)
  PROVE  j \in 1 .. i /\ Hungry(i) /\ (j # i => Starts(j, i)) /\ (j = i /\ i # 1 => ~Hungry(i - 1))
BY DEF Starts

(* What follows an argument that is not hungry is not taken; what follows  *)
(* a hungry one is taken if that one is not itself.                        *)
LEMMA AfterPlain ==
  ASSUME NEW i \in Nat \ {0}, ~Hungry(i)
  PROVE  ~Taken(i + 1)
BY TakenStarts, StartsFurther

LEMMA AfterHungry ==
  ASSUME NEW i \in Nat \ {0}, Hungry(i), ~Taken(i)
  PROVE  Taken(i + 1)
<1>1. PICK j \in 1 .. i : Starts(j, i + 1)
  BY RunStarts
<1>2. ASSUME (i + 1 - j) % 2 = 1
      PROVE  Taken(i + 1)
  <2>1. i + 1 \in Nat \ {0} /\ j \in 1 .. (i + 1) - 1
    OBVIOUS
  <2> QED
    BY <1>1, <1>2, <2>1, TakenStarts
<1>3. CASE j = i
  <2>1. (i + 1 - j) % 2 = 1
    BY <1>3
  <2> QED
    BY <1>2, <2>1
<1>4. CASE j # i
  <2>1. Starts(j, i) /\ j \in 1 .. i - 1
    BY <1>1, <1>4, StartsFurther
  <2>2. (i - j) % 2 # 1
    BY <2>1, TakenStarts
  <2>3. (i + 1 - j) % 2 = 1
    BY <2>1, <2>2
  <2> QED
    BY <1>2, <2>3
<1> QED
  BY <1>3, <1>4

LEMMA AfterTaken ==
  ASSUME NEW i \in Nat \ {0}, Taken(i)
  PROVE  ~Taken(i + 1)
<1> SUFFICES ASSUME Taken(i + 1) PROVE FALSE
  OBVIOUS
<1>1. PICK j \in 1 .. (i + 1) - 1 : Starts(j, i + 1) /\ (i + 1 - j) % 2 = 1
  <2>1. i + 1 \in Nat \ {0}
    OBVIOUS
  <2> QED
    BY <2>1, TakenStarts
<1>2. PICK k \in 1 .. i - 1 : Starts(k, i) /\ (i - k) % 2 = 1
  BY TakenStarts
<1>3. Hungry(i - 1)
  BY <1>2 DEF Starts
<1>4. j # i /\ Starts(j, i)
  <2>1. j \in 1 .. i /\ (j # i => Starts(j, i)) /\ (j = i /\ i # 1 => ~Hungry(i - 1))
    BY <1>1, StartsFurther
  <2> QED
    BY <1>2, <1>3, <2>1
<1>5. j = k
  BY <1>2, <1>4, OneStart
<1> QED
  BY <1>1, <1>2, <1>5

-------------------------------------------------------------------------------
(* What an argument gives.                                                 *)

LEMMA GivenCases ==
  ASSUME ParserTyped, NEW i \in 1 .. Len(argv), NEW name \in Names
  PROVE  /\ Taken(i) => Given(name, i) = <<>>
         /\ ~Taken(i) /\ Valued(argv[i]) =>
              Given(name, i) = IF argv[i].name = name THEN <<ValueAt(i)>> ELSE <<>>
         /\ ~Taken(i) /\ argv[i].kind = "long" /\ argv[i].name \in Switches /\ argv[i].value = Empty =>
              Given(name, i) = IF argv[i].name = name THEN <<TRUE>> ELSE <<>>
         /\ ~Taken(i) /\ IsShort(argv[i]) =>
              Given(name, i) = IF name = "help" THEN [k \in 1 .. HelpLetters(argv[i]) |-> TRUE]
                                                ELSE <<>>
         /\ ~Taken(i) /\ ~IsShort(argv[i]) /\ ~Valued(argv[i])
              /\ ~(argv[i].kind = "long" /\ argv[i].name \in Switches /\ argv[i].value = Empty) =>
              Given(name, i) = <<>>
<1> DEFINE a == argv[i]
<1>1. a \in Words
  BY WordKinds, ElementOfSeq DEF ParserTyped
<1> HIDE DEF a
<1>2. a.kind = "long" => a = Long(a.name, a.value)
  BY <1>1, WordKinds
<1>3. a = Long(name, Empty) <=> a.kind = "long" /\ a.name = name /\ a.value = Empty
  BY <1>2 DEF Long
<1>4. IsShort(a) => a.kind # "long"
  BY DEF IsShort
<1>5. Valued(a) <=> a.kind = "long" /\ a.name \in Names \ Switches
  BY DEF Valued, IsLong
<1>6. "help" \in Switches
  BY DEF Switches
<1>7. /\ Taken(i) => Given(name, i) = <<>>
      /\ ~Taken(i) /\ Valued(a) /\ a.name = name => Given(name, i) = <<ValueAt(i)>>
      /\ ~Taken(i) /\ a = Long(name, Empty) /\ name \in Switches => Given(name, i) = <<TRUE>>
      /\ ~Taken(i) /\ IsShort(a) /\ name = "help" =>
           Given(name, i) = [k \in 1 .. HelpLetters(a) |-> TRUE]
      /\ ~Taken(i) /\ ~(Valued(a) /\ a.name = name) /\ ~(a = Long(name, Empty) /\ name \in Switches)
           /\ ~(IsShort(a) /\ name = "help") => Given(name, i) = <<>>
  <2>1. /\ Valued(a) => ~IsShort(a)
        /\ ~(Valued(a) /\ a.name = name /\ a = Long(name, Empty) /\ name \in Switches)
        /\ ~(a = Long(name, Empty) /\ IsShort(a))
    BY <1>3, <1>4, <1>5
  <2> QED
    BY <2>1, Zenon DEF Given, Gives, a
<1> QED
  BY <1>3, <1>4, <1>5, <1>6, <1>7, Zenon DEF a
(* A step adds to an option's values what the argument means, and to its   *)
(* member of Options the last of it.                                       *)
Adds(name, given) ==
  \E new \in Seq(Types(name)) :
    /\ values'[name] = values[name] \o new
    /\ Len(new) = Len(given)
    /\ \A k \in 1 .. Len(given) : Means(name, given[k], new[k])
    /\ name \in Members =>
         options'[name] = IF given = <<>> THEN options[name] ELSE new[Len(given)]

LEMMA AddsNothing ==
  ASSUME ValuesTyped, NEW name \in Names, values'[name] = values[name],
         name \in Members => options'[name] = options[name]
  PROVE  Adds(name, <<>>)
<1>1. values[name] \o <<>> = values[name]
  BY ConcatEmptySeq DEF ValuesTyped
<1>2. <<>> \in Seq(Types(name)) /\ Len(<<>>) = 0
  BY EmptySeq
<1>3. \A k \in 1 .. Len(<<>>) : Means(name, <<>>[k], <<>>[k])
  BY <1>2
<1> SUFFICES \E new \in Seq(Types(name)) :
               /\ values'[name] = values[name] \o new
               /\ Len(new) = Len(<<>>)
               /\ \A k \in 1 .. Len(<<>>) : Means(name, <<>>[k], new[k])
               /\ name \in Members => options'[name] = options[name]
  BY Zenon DEF Adds
<1> WITNESS <<>> \in Seq(Types(name))
<1> QED
  BY <1>1, <1>2, <1>3

LEMMA AddsOthers ==
  ASSUME ValuesTyped, NEW name \in Names, NEW new, AddValues(name, new),
         NEW other \in Names, other # name
  PROVE  Adds(other, <<>>)
<1>1. values'[other] = values[other] /\ (other \in Members => options'[other] = options[other])
  BY DEF AddValues, ValuesTyped
<1> QED
  BY <1>1, AddsNothing

LEMMA AddsOwn ==
  ASSUME ValuesTyped, NEW name \in Names, NEW new \in Seq(Types(name)), AddValues(name, new),
         NEW S, NEW given \in Seq(S), Len(given) = Len(new),
         \A k \in 1 .. Len(given) : Means(name, given[k], new[k])
  PROVE  Adds(name, given)
<1>1. values'[name] = values[name] \o new
  BY DEF AddValues, ValuesTyped
<1>2. values[name] \in Seq(Types(name)) /\ (given = <<>> <=> new = <<>>)
  BY EmptySeq, LenProperties DEF ValuesTyped
<1>3. ASSUME name \in Members
      PROVE  options'[name] = IF given = <<>> THEN options[name] ELSE new[Len(given)]
  <2>1. options'[name] = IF new # <<>> THEN LastValue(values[name] \o new) ELSE options[name]
    BY <1>1, <1>3 DEF AddValues
  <2>2. new # <<>> => LastValue(values[name] \o new) = new[Len(new)]
    <3> DEFINE old == values[name]
               both == old \o new
    <3>1. /\ old \in Seq(Types(name)) /\ Len(old) \in Nat /\ Len(new) \in Nat
          /\ new # <<>> => Len(new) > 0
      BY <1>2, LenProperties, EmptySeq
    <3> HIDE DEF old
    <3>2. Len(both) = Len(old) + Len(new)
          /\ \A i \in 1 .. Len(old) + Len(new) :
               both[i] = IF i <= Len(old) THEN old[i] ELSE new[i - Len(old)]
      BY <3>1, ConcatProperties
    <3> HIDE DEF both
    <3>3. new # <<>> => both[Len(both)] = new[Len(new)]
      BY <3>1, <3>2
    <3> QED
      BY <3>3 DEF LastValue, both, old
  <2> QED
    BY <1>2, <2>1, <2>2
<1> QED
  BY <1>1, <1>3 DEF Adds

LEMMA ConvertMeans ==
  ASSUME NEW name \in Names \ Switches, NEW w \in Words, Accepts(name, w)
  PROVE  Means(name, w, Convert(name, w))
<1>1. CASE name \in Texts
  BY <1>1, KindsOfNames DEF Convert, Means
<1>2. CASE name \in Unsigned
  <2> DEFINE max == Largest(name)
             m == w.n
  <2>1. m \in -max .. max /\ max \in Nat
    BY <1>2, LargestType, KindsOfNames DEF Accepts, AcceptsUnsigned
  <2>2. Convert(name, w) = m % (max + 1)
    BY <1>2, KindsOfNames DEF Convert
  <2> HIDE DEF max, m
  <2>3. m % (max + 1) = IF m < 0 THEN m + max + 1 ELSE m
    BY <2>1
  <2>4. Convert(name, w) = m \/ (m < 0 /\ Convert(name, w) = m + max + 1)
    BY <2>2, <2>3
  <2> QED
    BY <1>2, <2>4, KindsOfNames DEF Means, max, m
<1>3. CASE name \in Levels \cup Reals
  BY <1>3, KindsOfNames DEF Convert, Means
<1> QED
  BY <1>1, <1>2, <1>3 DEF Names

LEMMA ValueAtIsOptArg ==
  ASSUME ParserTyped, AtValue
  PROVE  /\ Valued(argv[n]) /\ argv[n] = Arg /\ OptArg = ValueAt(n) /\ OptArg \in Words
         /\ TakesNext <=> Hungry(n) /\ n < Len(argv)
<1>1. Arg.kind = "long" /\ Arg.name \in Names \ Switches /\ Parsing
  BY DEF AtValue, AtLong
<1>2. OptArg \in Words
  BY <1>1, ArgType
<1> QED
  BY <1>1, <1>2 DEF Valued, IsLong, Arg, OptArg, ValueAt, Hungry, TakesNext

LEMMA ParserAdds ==
  ASSUME Typed, ~Taken(n), NEW name \in Names
  PROVE  /\ ParseDashDash \/ ParseUnknown \/ ParsePlain => Adds(name, Given(name, n))
         /\ ParseSwitch \/ ParseShort \/ ParseValue => Adds(name, Given(name, n))
<1>0. ParserTyped /\ ValuesTyped
  BY DEF Typed
<1>1. ASSUME Parsing
      PROVE  n \in 1 .. Len(argv) /\ Arg = argv[n] /\ Arg \in Words
  BY <1>0, <1>1, ArgType, WordKinds DEF Arg
<1>2. ASSUME ParseDashDash \/ ParseUnknown \/ ParsePlain
      PROVE  Adds(name, Given(name, n))
  <2>1. Parsing /\ UNCHANGED <<values, options>>
    BY <1>2 DEF ParseDashDash, ParseUnknown, ParsePlain, AtLong
  <2>2. /\ ~IsShort(argv[n]) /\ ~Valued(argv[n])
        /\ ~(argv[n].kind = "long" /\ argv[n].name \in Switches /\ argv[n].value = Empty)
    <3>1. CASE ParseDashDash \/ ParsePlain
      <4>1. argv[n].kind \in {"dashes", "empty", "name"}
            \/ (argv[n].kind = "number" /\ argv[n].n >= 0 /\ argv[n].n \in Int)
        BY <1>1, <2>1, <3>1, WordKinds DEF ParseDashDash, ParsePlain, IsPlain, DashDash
      <4> QED
        BY <4>1 DEF IsShort, Valued, IsLong
    <3>2. CASE ParseUnknown
      BY <1>1, <2>1, <3>2 DEF ParseUnknown, AtLong, IsShort, Valued, IsLong, Names
    <3> QED
      BY <1>2, <3>1, <3>2
  <2>3. Given(name, n) = <<>>
    BY <1>0, <1>1, <2>1, <2>2, GivenCases
  <2>4. Adds(name, <<>>)
    BY <1>0, <2>1, AddsNothing
  <2> QED
    BY <2>3, <2>4
<1>3. ASSUME ParseSwitch
      PROVE  Adds(name, Given(name, n))
  <2>1. /\ Parsing /\ Arg.kind = "long" /\ Arg.name \in Switches /\ Arg.value = Empty
        /\ AddValues(Arg.name, <<TRUE>>)
    BY <1>3 DEF ParseSwitch, AtLong
  <2>2. Given(name, n) = IF Arg.name = name THEN <<TRUE>> ELSE <<>>
    <3>1. /\ n \in 1 .. Len(argv) /\ Arg = argv[n]
          /\ argv[n].kind = "long" /\ argv[n].name \in Switches /\ argv[n].value = Empty
      BY <1>1, <2>1
    <3> QED
      BY <1>0, <3>1, GivenCases, Zenon
  <2>3. Arg.name \in Names /\ <<TRUE>> \in Seq(Types(Arg.name))
    BY <1>0, <1>3, NewValueType
  <2>4. CASE Arg.name = name
    <3>1. <<TRUE>> \in Seq(BOOLEAN) /\ Len(<<TRUE>>) = 1
      OBVIOUS
    <3>2. \A k \in 1 .. Len(<<TRUE>>) : Means(name, <<TRUE>>[k], <<TRUE>>[k])
      BY <2>1, <2>4 DEF Means
    <3>3. Adds(name, <<TRUE>>)
      BY <1>0, <2>1, <2>3, <2>4, <3>1, <3>2, AddsOwn
    <3> QED
      BY <2>2, <2>4, <3>3
  <2>5. CASE Arg.name # name
    BY <1>0, <2>1, <2>2, <2>3, <2>5, AddsOthers
  <2> QED
    BY <2>4, <2>5
<1>4. ASSUME ParseShort
      PROVE  Adds(name, Given(name, n))
  <2> DEFINE new == [k \in 1 .. HelpLetters(Arg) |-> TRUE]
  <2>1. Parsing /\ IsShort(Arg) /\ AddValues("help", new)
    BY <1>4 DEF ParseShort
  <2>2. Given(name, n) = IF name = "help" THEN new ELSE <<>>
    BY <1>0, <1>1, <2>1, GivenCases
  <2>3. "help" \in Names /\ new \in Seq(Types("help")) /\ "help" \in Switches
    BY <1>0, <1>4, NewValueType DEF Switches
  <2> HIDE DEF new
  <2>4. CASE name = "help"
    <3>1. \A k \in 1 .. Len(new) : Means("help", new[k], new[k])
      BY <2>3 DEF Means
    <3>2. Adds("help", new)
      BY <1>0, <2>1, <2>3, <3>1, AddsOwn
    <3> QED
      BY <2>2, <2>4, <3>2
  <2>5. CASE name # "help"
    BY <1>0, <2>1, <2>2, <2>3, <2>5, AddsOthers
  <2> QED
    BY <2>4, <2>5
<1>5. ASSUME ParseValue
      PROVE  Adds(name, Given(name, n))
  <2> DEFINE new == <<Convert(Arg.name, OptArg)>>
  <2>1. /\ AtValue /\ Parsing /\ Arg.name \in Names \ Switches /\ Accepts(Arg.name, OptArg)
        /\ AddValues(Arg.name, new)
    BY <1>5 DEF ParseValue, AtValue, AtLong
  <2>2. Valued(argv[n]) /\ OptArg = ValueAt(n) /\ OptArg \in Words
    BY <1>0, <2>1, ValueAtIsOptArg
  <2>3. Given(name, n) = IF Arg.name = name THEN <<OptArg>> ELSE <<>>
    BY <1>0, <1>1, <2>1, <2>2, GivenCases
  <2>4. new \in Seq(Types(Arg.name))
    BY <1>0, <1>5, NewValueType
  <2>5. CASE Arg.name = name
    <3>1. Means(name, OptArg, Convert(Arg.name, OptArg))
      BY <2>1, <2>2, <2>5, ConvertMeans
    <3>2. <<OptArg>> \in Seq(Words) /\ Len(<<OptArg>>) = 1 /\ <<OptArg>>[1] = OptArg
          /\ Len(new) = 1 /\ new[1] = Convert(Arg.name, OptArg)
      BY <2>2
    <3> HIDE DEF new
    <3>3. \A k \in 1 .. Len(<<OptArg>>) : Means(name, <<OptArg>>[k], new[k])
      BY <3>1, <3>2
    <3>4. Adds(name, <<OptArg>>)
      BY <1>0, <2>1, <2>4, <2>5, <3>2, <3>3, AddsOwn
    <3> QED
      BY <2>3, <2>5, <3>4
  <2>6. CASE Arg.name # name
    BY <1>0, <2>1, <2>3, <2>6, AddsOthers
  <2> QED
    BY <2>5, <2>6
<1> QED
  BY <1>2, <1>3, <1>4, <1>5
-------------------------------------------------------------------------------
(* FlattenSeq.  Its recursion has one solution: if not, there would be a   *)
(* least place where two of them differ, and a shortest sequence without.  *)

(* f computes what FlattenSeq does of the first m members of s.            *)
Flattens(f, s, m) == f = [i \in 1 .. m |-> IF i = 1 THEN s[i] ELSE f[i-1] \o s[i]]

LEMMA FlattensOnce ==
  ASSUME NEW N \in Nat, NEW M \in Nat, NEW s, NEW t, NEW f, NEW h,
         N <= M, \A i \in 1 .. N : s[i] = t[i],
         Flattens(f, s, N), Flattens(h, t, M)
  PROVE  \A i \in 1 .. N : f[i] = h[i]
<1> DEFINE S == {i \in 1 .. N : f[i] # h[i]}
<1> SUFFICES ASSUME S # {} PROVE FALSE
  OBVIOUS
<1>1. PICK m \in S : \A k \in S : m <= k
  <2>1. S \subseteq Nat
    OBVIOUS
  <2> HIDE DEF S
  <2> QED
    BY <2>1, LeastNumber
<1>2. m \in 1 .. N /\ m \in 1 .. M
  BY <1>1
<1>3. f[m] = IF m = 1 THEN s[m] ELSE f[m-1] \o s[m]
  BY <1>2 DEF Flattens
<1>4. h[m] = IF m = 1 THEN t[m] ELSE h[m-1] \o t[m]
  BY <1>2 DEF Flattens
<1>5. m # 1 => m - 1 \in 1 .. N /\ m - 1 \notin S
  BY <1>1
<1> QED
  BY <1>1, <1>2, <1>3, <1>4, <1>5

LEMMA SomethingFlattens ==
  ASSUME NEW T, NEW s \in Seq(T)
  PROVE  \E f : Flattens(f, s, Len(s))
<1> DEFINE S == {m \in 0 .. Len(s) : ~ \E f : Flattens(f, s, m)}
<1>0. Len(s) \in Nat
  BY LenProperties
<1> SUFFICES ASSUME S # {} PROVE FALSE
  <2>1. Len(s) \in 0 .. Len(s)
    BY <1>0
  <2> QED
    BY <2>1
<1>1. PICK m \in S : \A k \in S : m <= k
  <2>1. S \subseteq Nat
    BY <1>0
  <2> HIDE DEF S
  <2> QED
    BY <2>1, LeastNumber
<1>2. m # 0
  <2> SUFFICES ASSUME m = 0 PROVE FALSE
    OBVIOUS
  <2> DEFINE f == [i \in 1 .. 0 |-> i]
  <2>1. f = [i \in 1 .. 0 |-> IF i = 1 THEN s[i] ELSE f[i-1] \o s[i]]
    OBVIOUS
  <2> HIDE DEF f
  <2> QED
    BY <1>1, <2>1 DEF Flattens
<1>3. m \in 1 .. Len(s) /\ m - 1 \in 0 .. Len(s) /\ m - 1 \notin S
  <2>1. m \in 0 .. Len(s)
    BY <1>1
  <2> HIDE DEF S
  <2> QED
    BY <1>0, <1>1, <1>2, <2>1
<1>4. PICK f : Flattens(f, s, m - 1)
  BY <1>3
<1> DEFINE h == [i \in 1 .. m |-> IF i < m THEN f[i] ELSE IF m = 1 THEN s[m] ELSE f[m-1] \o s[m]]
<1>5. \A i \in 1 .. m : h[i] = IF i = 1 THEN s[i] ELSE h[i-1] \o s[i]
  <2> TAKE i \in 1 .. m
  <2>1. CASE i = m
    <3>1. m # 1 => m - 1 \in 1 .. m /\ m - 1 < m
      BY <1>3
    <3>2. m # 1 => h[m - 1] = f[m - 1]
      BY <3>1
    <3>3. m \in 1 .. m /\ ~(m < m)
      BY <1>3
    <3>4. h[m] = IF m = 1 THEN s[m] ELSE f[m-1] \o s[m]
      BY <3>3
    <3> QED
      BY <2>1, <3>2, <3>4
  <2>2. CASE i # m
    <3>1. i \in 1 .. m - 1 /\ i < m /\ (i # 1 => i - 1 \in 1 .. m /\ i - 1 < m)
      BY <1>3, <2>2
    <3>2. h[i] = f[i] /\ (i # 1 => h[i - 1] = f[i - 1])
      BY <3>1
    <3>3. f[i] = IF i = 1 THEN s[i] ELSE f[i-1] \o s[i]
      BY <1>4, <3>1 DEF Flattens
    <3> QED
      BY <3>2, <3>3, Zenon
  <2> QED
    BY <2>1, <2>2
<1>6. h = [i \in 1 .. m |-> h[i]]
  OBVIOUS
<1> HIDE DEF h
<1>7. h = [i \in 1 .. m |-> IF i = 1 THEN s[i] ELSE h[i-1] \o s[i]]
  BY <1>5, <1>6
<1> QED
  BY <1>1, <1>7 DEF Flattens

LEMMA FlattenSeqIs ==
  ASSUME NEW T, NEW s \in Seq(T), Len(s) # 0
  PROVE  \E f : Flattens(f, s, Len(s)) /\ FlattenSeq(s) = f[Len(s)]
<1> DEFINE f == CHOOSE f : f = [i \in 1 .. Len(s) |-> IF i = 1 THEN s[i] ELSE f[i-1] \o s[i]]
<1>1. FlattenSeq(s) = f[Len(s)]
  BY DEF FlattenSeq
<1>2. Flattens(f, s, Len(s))
  BY SomethingFlattens DEF Flattens
<1> HIDE DEF f
<1> QED
  BY <1>1, <1>2

LEMMA FlattenNothing == FlattenSeq(<<>>) = <<>>
BY DEF FlattenSeq

LEMMA FlattenAppend ==
  ASSUME NEW T, NEW s \in Seq(Seq(T)), NEW x \in Seq(T)
  PROVE  FlattenSeq(Append(s, x)) = FlattenSeq(s) \o x
<1> DEFINE t == Append(s, x)
           N == Len(s)
<1>1. /\ t \in Seq(Seq(T)) /\ Len(t) = N + 1 /\ t[N + 1] = x /\ N \in Nat
      /\ \A i \in 1 .. N : t[i] = s[i]
  BY AppendProperties, LenProperties
<1> HIDE DEF t
<1>2. PICK h : Flattens(h, t, N + 1) /\ FlattenSeq(t) = h[N + 1]
  <2>1. Len(t) # 0
    BY <1>1
  <2>2. \E h : Flattens(h, t, Len(t)) /\ FlattenSeq(t) = h[Len(t)]
    BY <1>1, <2>1, FlattenSeqIs
  <2> QED
    BY <1>1, <2>2
<1>3. h[N + 1] = IF N + 1 = 1 THEN x ELSE h[N] \o x
  <2>1. N + 1 \in 1 .. N + 1 /\ (N + 1) - 1 = N
    BY <1>1
  <2> QED
    BY <1>1, <1>2, <2>1 DEF Flattens
<1>4. CASE N = 0
  <2>1. s = <<>> /\ <<>> \o x = x
    BY <1>4, EmptySeq, ConcatEmptySeq
  <2> QED
    BY <1>2, <1>3, <1>4, <2>1, FlattenNothing DEF t
<1>5. CASE N # 0
  <2>1. PICK f : Flattens(f, s, N) /\ FlattenSeq(s) = f[N]
    BY <1>5, FlattenSeqIs
  <2>2. f[N] = h[N]
    <3>1. N \in 1 .. N /\ N <= N + 1 /\ N + 1 \in Nat
      BY <1>1, <1>5
    <3>2. \A i \in 1 .. N : s[i] = t[i]
      BY <1>1
    <3>3. N \in Nat /\ Flattens(f, s, N) /\ Flattens(h, t, N + 1)
      BY <1>1, <1>2, <2>1
    <3> HIDE DEF t, N
    <3>4. \A i \in 1 .. N : f[i] = h[i]
      BY <3>1, <3>2, <3>3, FlattensOnce
    <3> QED
      BY <3>1, <3>4
  <2> QED
    BY <1>1, <1>2, <1>3, <1>5, <2>1, <2>2 DEF t
<1> QED
  BY <1>4, <1>5

-------------------------------------------------------------------------------
(* What the arguments give together.                                       *)

GivenValue == Words \cup BOOLEAN

LEMMA GivenType ==
  ASSUME ParserTyped, NEW name \in Names, NEW i \in 1 .. Len(argv)
  PROVE  Given(name, i) \in Seq(GivenValue)
<1>1. argv[i] \in Words /\ argv[i] \in Arguments
  BY WordKinds, ElementOfSeq DEF ParserTyped
<1>2. <<>> \in Seq(GivenValue) /\ <<TRUE>> \in Seq(GivenValue)
  BY DEF GivenValue
<1>3. Valued(argv[i]) => <<ValueAt(i)>> \in Seq(GivenValue)
  <2> SUFFICES ASSUME Valued(argv[i]) PROVE ValueAt(i) \in Words
    BY DEF GivenValue
  <2>1. argv[i].value \in Words
    BY <1>1, WordKinds DEF Valued, IsLong
  <2>2. i < Len(argv) => argv[i + 1] \in Words
    BY WordKinds, ElementOfSeq DEF ParserTyped
  <2> QED
    BY <2>1, <2>2 DEF ValueAt
<1>4. [k \in 1 .. HelpLetters(argv[i]) |-> TRUE] \in Seq(GivenValue)
  <2> DEFINE h == HelpLetters(argv[i])
  <2>1. h \in Nat
    BY <1>1, WordKinds DEF HelpLetters
  <2> HIDE DEF h
  <2>2. \A k \in 1 .. h : TRUE \in GivenValue
    BY DEF GivenValue
  <2>3. [k \in 1 .. h |-> TRUE] \in [1 .. h -> GivenValue]
    BY <2>2, Zenon
  <2>4. [1 .. h -> GivenValue] \subseteq Seq(GivenValue)
    BY <2>1
  <2> QED
    BY <2>3, <2>4, Zenon DEF h
<1> QED
  BY <1>2, <1>3, <1>4, GivenCases, Zenon

LEMMA GivenNothing == \A name : GivenUpTo(name, 0) = <<>>
<1> TAKE name
<1>1. [i \in 1 .. 0 |-> Given(name, i)] = <<>>
  OBVIOUS
<1> QED
  BY <1>1, FlattenNothing, Zenon DEF GivenUpTo

LEMMA GivenNext ==
  ASSUME ParserTyped, NEW name \in Names, NEW i \in 1 .. Len(argv)
  PROVE  GivenUpTo(name, i) = GivenUpTo(name, i - 1) \o Given(name, i)
<1> DEFINE g(k) == Given(name, k)
           s == [k \in 1 .. i - 1 |-> g(k)]
           t == [k \in 1 .. i |-> g(k)]
<1>1. \A k \in 1 .. i : g(k) \in Seq(GivenValue)
  <2>1. \A k \in 1 .. i : k \in 1 .. Len(argv)
    BY LenProperties DEF ParserTyped
  <2> QED
    BY <2>1, GivenType
<1>2. FlattenSeq(t) = GivenUpTo(name, i) /\ FlattenSeq(s) = GivenUpTo(name, i - 1)
  BY Zenon DEF GivenUpTo
<1> HIDE DEF g
<1>3. i \in Nat \ {0}
  BY LenProperties DEF ParserTyped
<1>4. s \in Seq(Seq(GivenValue)) /\ Len(s) = i - 1 /\ t \in Seq(Seq(GivenValue)) /\ Len(t) = i
  BY <1>1, <1>3
<1>5. t = Append(s, g(i))
  BY <1>1, <1>3, <1>4, SeqEqual
<1>6. g(i) \in Seq(GivenValue)
  BY <1>1, <1>3
<1> HIDE DEF s, t
<1>7. FlattenSeq(t) = FlattenSeq(s) \o g(i)
  BY <1>4, <1>5, <1>6, FlattenAppend
<1> QED
  BY <1>2, <1>7 DEF g
-------------------------------------------------------------------------------
(* The parser.                                                             *)

(* No step changes what the arguments mean.                                *)
LEMMA ArgumentsStay ==
  ASSUME argv' = argv
  PROVE  \A i : /\ Taken(i)' <=> Taken(i)
                /\ BadAt(i)' <=> BadAt(i)
                /\ \A name : Given(name, i)' = Given(name, i)
                /\ \A name : GivenUpTo(name, i)' = GivenUpTo(name, i)
<1>1. \A i : Hungry(i)' <=> Hungry(i)
  BY DEF Hungry
<1>2. \A i : Taken(i)' <=> Taken(i)
  BY <1>1 DEF Taken
<1>3. \A i : ValueAt(i)' = ValueAt(i)
  BY <1>1, Zenon DEF ValueAt
<1>4. \A i : BadAt(i)' <=> BadAt(i)
  BY <1>2, <1>3, Zenon DEF BadAt
<1>5. \A i, name : Given(name, i)' = Given(name, i)
  BY <1>2, <1>3, Zenon DEF Given
<1>6. \A i, name : GivenUpTo(name, i)' = GivenUpTo(name, i)
  <2> TAKE i, name
  <2>1. ([k \in 1 .. i |-> Given(name, k)])' = [k \in 1 .. i |-> Given(name, k)]
    BY <1>5
  <2> QED
    BY <2>1, Zenon DEF GivenUpTo
<1> QED
  BY <1>2, <1>4, <1>5, <1>6

(* Where the parser is: at an argument that is not the value of another,   *)
(* with no bad value behind it, at one if it threw, and at the end once it *)
(* returned.                                                               *)
Control ==
  /\ \A i \in 1 .. Len(argv) : i = n => ~Taken(i)
  /\ \A i \in 1 .. n - 1 : ~BadAt(i)
  /\ pc = "thrown" => n <= Len(argv) /\ \A i \in 1 .. Len(argv) : i = n => BadAt(i)
  /\ pc \in {"parsed", "sinks", "serving"} => n > Len(argv)

(* The turns of the loop that do not throw.                                *)
Reads ==
  ParseDashDash \/ ParseSwitch \/ ParseValue \/ ParseUnknown \/ ParseShort \/ ParsePlain

(* The parser goes on behind the argument or behind the value it took, to  *)
(* an argument that is not the value of another.                           *)
LEMMA ReadsOn ==
  ASSUME ParserTyped, ~Taken(n), Reads
  PROVE  /\ Parsing /\ argv' = argv /\ pc' = pc /\ n \in 1 .. Len(argv) /\ Len(argv) \in Nat
         /\ ~BadAt(n)
         /\ \/ n' = n + 1 /\ (n + 1 <= Len(argv) => ~Taken(n + 1))
            \/ n' = n + 2 /\ n + 1 <= Len(argv) /\ Taken(n + 1) /\ ~Taken(n + 2)
<1>1. Parsing /\ argv' = argv /\ pc' = pc
  BY DEF Reads, ParseDashDash, ParseSwitch, ParseValue, ParseUnknown, ParseShort, ParsePlain,
         AtValue, AtLong
<1>2. n \in 1 .. Len(argv) /\ Arg = argv[n] /\ Arg \in Words /\ Len(argv) \in Nat
  BY <1>1, ArgType, WordKinds DEF Arg
<1>3. n \in Nat \ {0} /\ (n + 1) + 1 = n + 2 /\ n + 1 \in Nat \ {0}
  BY <1>2
<1>4. CASE ParseDashDash \/ ParseSwitch \/ ParseUnknown \/ ParseShort \/ ParsePlain
  <2>1. ~Valued(argv[n])
    <3>1. CASE ParseDashDash \/ ParseShort \/ ParsePlain
      BY <1>2, <3>1 DEF ParseDashDash, ParseShort, ParsePlain, DashDash, IsShort, IsPlain, Valued, IsLong
    <3>2. CASE ParseSwitch \/ ParseUnknown
      BY <1>2, <3>2 DEF ParseSwitch, ParseUnknown, AtLong, Valued, IsLong, Names
    <3> QED
      BY <1>4, <3>1, <3>2
  <2>2. ~BadAt(n) /\ ~Hungry(n)
    BY <2>1 DEF BadAt, Hungry
  <2>3. ~Taken(n + 1)
    BY <1>3, <2>2, AfterPlain
  <2>4. n' = n + 1
    BY <1>4 DEF ParseDashDash, ParseSwitch, ParseUnknown, ParseShort, ParsePlain
  <2> QED
    BY <1>1, <1>2, <2>2, <2>3, <2>4
<1>5. CASE ParseValue
  <2>1. /\ AtValue /\ Accepts(Arg.name, OptArg)
        /\ n' = IF TakesNext THEN n + 2 ELSE n + 1
    BY <1>5 DEF ParseValue
  <2>2. OptArg = ValueAt(n) /\ (TakesNext <=> Hungry(n) /\ n < Len(argv))
    BY <2>1, ValueAtIsOptArg
  <2>3. ~BadAt(n)
    BY <1>2, <2>1, <2>2 DEF BadAt
  <2>4. CASE TakesNext
    <3>1. Taken(n + 1)
      BY <1>3, <2>2, <2>4, AfterHungry
    <3>2. ~Taken((n + 1) + 1)
      BY <1>3, <3>1, AfterTaken
    <3>3. ~Taken(n + 2)
      BY <1>3, <3>2, Zenon
    <3>4. n' = n + 2 /\ n + 1 <= Len(argv)
      BY <1>2, <2>1, <2>2, <2>4
    <3> QED
      BY <1>1, <1>2, <2>3, <3>1, <3>3, <3>4
  <2>5. CASE ~TakesNext
    <3>1. n + 1 <= Len(argv) => ~Hungry(n)
      BY <1>2, <2>2, <2>5
    <3>2. n + 1 <= Len(argv) => ~Taken(n + 1)
      BY <1>3, <3>1, AfterPlain
    <3> QED
      BY <1>1, <1>2, <2>1, <2>3, <2>5, <3>2
  <2> QED
    BY <2>4, <2>5
<1> QED
  BY <1>4, <1>5 DEF Reads

LEMMA NextCases ==
  ASSUME [Next]_vars
  PROVE  \/ Reads
         \/ ParseThrows \/ ParseEnds \/ PrintHelp \/ Fail \/ Construct
         \/ UNCHANGED vars
BY DEF Next, Parse, Reads, Finished

LEMMA ControlInit == Typed /\ Init => Control
<1> SUFFICES ASSUME Typed, Init PROVE Control
  OBVIOUS
<1>1. ~Taken(1)
  BY DEF Taken
<1> QED
  BY <1>1 DEF Init, Control

LEMMA ControlStep == Typed /\ Control /\ [Next]_vars => Control'
<1> SUFFICES ASSUME Typed, Control, [Next]_vars PROVE Control'
  OBVIOUS
<1>0. ParserTyped /\ Len(argv) \in Nat /\ n \in 1 .. Len(argv) + 1
  BY LenProperties DEF Typed, ParserTyped
<1>1. CASE Reads
  <2>1. Parsing /\ n \in 1 .. Len(argv) /\ ~Taken(n)
    <3>1. Parsing
      BY <1>1 DEF Reads, ParseDashDash, ParseSwitch, ParseValue, ParseUnknown, ParseShort,
                  ParsePlain, AtValue, AtLong
    <3> QED
      BY <1>0, <3>1 DEF Parsing, Control
  <2>2. /\ argv' = argv /\ pc' = "parse" /\ ~BadAt(n)
        /\ \/ n' = n + 1 /\ (n + 1 <= Len(argv) => ~Taken(n + 1))
           \/ n' = n + 2 /\ n + 1 <= Len(argv) /\ Taken(n + 1) /\ ~Taken(n + 2)
    BY <1>0, <1>1, <2>1, ReadsOn DEF Parsing
  <2>3. \A i \in 1 .. Len(argv) : i = n' => ~Taken(i)
    BY <1>0, <2>2
  <2>4. \A i \in 1 .. n' - 1 : ~BadAt(i)
    <3>1. Taken(n + 1) => ~BadAt(n + 1)
      BY DEF BadAt
    <3>2. \A i \in 1 .. n - 1 : ~BadAt(i)
      BY DEF Control
    <3>3. \A i \in 1 .. n' - 1 : i \in 1 .. n - 1 \/ i = n \/ (n' = n + 2 /\ i = n + 1)
      BY <1>0, <2>2
    <3> QED
      BY <2>2, <3>1, <3>2, <3>3
  <2> QED
    BY <2>2, <2>3, <2>4, ArgumentsStay DEF Control
<1>2. CASE ParseThrows
  <2>1. /\ AtValue /\ ~Accepts(Arg.name, OptArg) /\ pc' = "thrown" /\ argv' = argv /\ n' = n
        /\ Parsing
    BY <1>2 DEF ParseThrows, parserVars, AtValue, AtLong
  <2>2. n \in 1 .. Len(argv) /\ ~Taken(n)
    BY <1>0, <2>1 DEF Parsing, Control
  <2>3. Valued(argv[n]) /\ argv[n] = Arg /\ OptArg = ValueAt(n)
    BY <1>0, <2>1, ValueAtIsOptArg
  <2>4. BadAt(n)
    BY <2>1, <2>2, <2>3 DEF BadAt
  <2> QED
    BY <1>0, <2>1, <2>2, <2>4, ArgumentsStay DEF Control
<1>3. CASE ParseEnds \/ PrintHelp \/ Fail \/ Construct \/ UNCHANGED vars
  <2>1. /\ argv' = argv /\ n' = n
        /\ \/ pc' = pc
           \/ pc' = "parsed" /\ n > Len(argv)
           \/ pc' \in {"helped", "failed"}
           \/ pc' \in {"sinks", "serving"} /\ pc \in {"parsed", "sinks"}
    BY <1>3 DEF ParseEnds, PrintHelp, Fail, Construct, MakeAcceptors, AcceptorsFail,
                MakeSink, SkipSink, SinkFails, Serve, vars, parserVars
  <2> QED
    BY <2>1, ArgumentsStay DEF Control
<1> QED
  BY <1>1, <1>2, <1>3, NextCases

LEMMA ControlInvariant == Spec => [](Typed /\ Control)
<1>1. Typed /\ [Next]_vars => Typed'
  BY ParserTypedStep, ServerTypedStep DEF Typed
<1> QED
  BY <1>1, TypedInit, ControlInit, ControlStep, PTL DEF Spec

(* The parser throws at the first value of a wrong type and only there,    *)
(* for any arguments (Value<T>::parse, src/popl.hpp:735-763).              *)
THEOREM BadValuesAreNotPassedOver == Spec => []ThrowsAtFirstBadValue
<1>1. Typed /\ Control => ThrowsAtFirstBadValue
  <2> SUFFICES ASSUME Typed, Control PROVE ThrowsAtFirstBadValue
    OBVIOUS
  <2>1. Len(argv) \in Nat /\ n \in 1 .. Len(argv) + 1
    BY LenProperties DEF Typed, ParserTyped
  <2>2. Clean(n - 1)
    BY DEF Control, Clean
  <2>3. pc = "thrown" => BadAt(n)
    BY <2>1 DEF Control
  <2>4. n > Len(argv) => Clean(Len(argv))
    BY <2>1 DEF Control, Clean
  <2> QED
    BY <2>2, <2>3, <2>4 DEF ThrowsAtFirstBadValue, Control
<1> QED
  BY <1>1, ControlInvariant, PTL
-------------------------------------------------------------------------------
(* What was given is what is stored.                                       *)

(* The values of an option, and its member of Options, are what was given  *)
(* for it, converted, and the last of that.                                *)
Matches(name, given, vals, option) ==
  /\ given \in Seq(GivenValue)
  /\ Len(vals) = Len(given)
  /\ \A k \in 1 .. Len(given) : Means(name, given[k], vals[k])
  /\ name \in Members =>
       option = IF given = <<>> THEN Default(name) ELSE vals[Len(given)]

(* That holds of the arguments in front of the parser, all the time.       *)
Written ==
  \A name \in Names, m \in Nat :
    m = n - 1 => Matches(name, GivenUpTo(name, m), values[name], options[name])

LEMMA MatchesNext ==
  ASSUME NEW name, NEW given, NEW T, NEW vals \in Seq(T), NEW option,
         Matches(name, given, vals, option),
         NEW more \in Seq(GivenValue), NEW new \in Seq(T), NEW next,
         Len(new) = Len(more),
         \A k \in 1 .. Len(more) : Means(name, more[k], new[k]),
         name \in Members => next = IF more = <<>> THEN option ELSE new[Len(more)]
  PROVE  Matches(name, given \o more, vals \o new, next)
<1> DEFINE g == given \o more
           v == vals \o new
<1>1. /\ given \in Seq(GivenValue) /\ Len(given) \in Nat /\ Len(vals) = Len(given)
      /\ Len(more) \in Nat /\ (more = <<>> <=> Len(more) = 0) /\ (given = <<>> <=> Len(given) = 0)
  BY LenProperties, EmptySeq DEF Matches
<1>2. /\ g \in Seq(GivenValue) /\ Len(g) = Len(given) + Len(more)
      /\ \A k \in 1 .. Len(given) + Len(more) :
           g[k] = IF k <= Len(given) THEN given[k] ELSE more[k - Len(given)]
  BY <1>1, ConcatProperties
<1>3. /\ Len(v) = Len(given) + Len(more)
      /\ \A k \in 1 .. Len(given) + Len(more) :
           v[k] = IF k <= Len(given) THEN vals[k] ELSE new[k - Len(given)]
  <2>1. /\ Len(v) = Len(vals) + Len(new)
        /\ \A k \in 1 .. Len(vals) + Len(new) :
             v[k] = IF k <= Len(vals) THEN vals[k] ELSE new[k - Len(vals)]
    BY ConcatProperties
  <2>2. Len(vals) = Len(given) /\ Len(new) = Len(more)
    BY <1>1
  <2> HIDE DEF v
  <2> QED
    BY <2>1, <2>2, Zenon
<1> HIDE DEF g, v
<1>4. ASSUME NEW k \in 1 .. Len(g) PROVE Means(name, g[k], v[k])
  <2>1. CASE k <= Len(given)
    BY <1>1, <1>2, <1>3, <2>1 DEF Matches
  <2>2. CASE k > Len(given)
    <3>1. k - Len(given) \in 1 .. Len(more)
      BY <1>1, <1>2, <2>2
    <3>2. g[k] = more[k - Len(given)] /\ v[k] = new[k - Len(given)]
      BY <1>1, <1>2, <1>3, <2>2
    <3> QED
      BY <3>1, <3>2
  <2> QED
    BY <1>1, <1>2, <2>1, <2>2
<1>5. ASSUME name \in Members
      PROVE  next = IF g = <<>> THEN Default(name) ELSE v[Len(g)]
  <2>1. g = <<>> <=> Len(given) = 0 /\ Len(more) = 0
    BY <1>1, <1>2, EmptySeq
  <2>2. CASE Len(more) = 0
    <3>1. next = option /\ option = IF given = <<>> THEN Default(name) ELSE vals[Len(given)]
      BY <1>1, <1>5, <2>2 DEF Matches
    <3>2. Len(given) # 0 => v[Len(g)] = vals[Len(given)]
      BY <1>1, <1>2, <1>3, <2>2
    <3>3. g = <<>> <=> given = <<>>
      BY <1>1, <2>1, <2>2
    <3> QED
      BY <1>1, <3>1, <3>2, <3>3
  <2>3. CASE Len(more) # 0
    <3>1. next = new[Len(more)] /\ g # <<>>
      BY <1>1, <1>5, <2>1, <2>3
    <3>2. v[Len(g)] = new[Len(more)]
      BY <1>1, <1>2, <1>3, <2>3
    <3> QED
      BY <3>1, <3>2
  <2> QED
    BY <2>2, <2>3
<1>6. Matches(name, g, v, next)
  BY <1>2, <1>3, <1>4, <1>5 DEF Matches
<1> QED
  BY <1>6 DEF g, v

LEMMA WrittenInit == Init => Written
<1> SUFFICES ASSUME Init, NEW name \in Names
             PROVE  Matches(name, GivenUpTo(name, 0), values[name], options[name])
  <2>1. \A m \in Nat : m = 1 - 1 => m = 0
    OBVIOUS
  <2>2. Init => n = 1
    BY DEF Init
  <2> QED
    BY <2>1, <2>2, Zenon DEF Written
<1>1. GivenUpTo(name, 0) = <<>> /\ <<>> \in Seq(GivenValue) /\ Len(<<>>) = 0
  BY GivenNothing, EmptySeq
<1>2. values[name] = <<>> /\ (name \in Members => options[name] = Default(name))
  BY DEF Init
<1>3. \A k \in 1 .. Len(<<>>) : Means(name, <<>>[k], <<>>[k])
  BY <1>1
<1> QED
  BY <1>1, <1>2, <1>3, Zenon DEF Matches

(* What a step that reads an argument adds.                                *)
LEMMA ReadsAdd ==
  ASSUME Typed, Control, Reads, NEW name \in Names
  PROVE  Adds(name, Given(name, n))
<1>1. n \in 1 .. Len(argv) => ~Taken(n)
  BY DEF Control
<1>2. n \in 1 .. Len(argv)
  <2>1. Parsing
    BY DEF Reads, ParseDashDash, ParseSwitch, ParseValue, ParseUnknown, ParseShort,
           ParsePlain, AtValue, AtLong
  <2> QED
    BY <2>1, ArgType DEF Typed
<1> QED
  BY <1>1, <1>2, ParserAdds DEF Reads

LEMMA WrittenStep == Typed /\ Control /\ Written /\ [Next]_vars => Written'
<1> SUFFICES ASSUME Typed, Control, Written, [Next]_vars PROVE Written'
  OBVIOUS
<1>0. ParserTyped /\ ValuesTyped
  BY DEF Typed
<1>1. CASE Reads
  <2>1. n \in 1 .. Len(argv) /\ ~Taken(n)
    <3>1. Parsing
      BY <1>1 DEF Reads, ParseDashDash, ParseSwitch, ParseValue, ParseUnknown, ParseShort,
                  ParsePlain, AtValue, AtLong
    <3> QED
      BY <1>0, <3>1, ArgType DEF Control
  <2>2. /\ argv' = argv /\ Len(argv) \in Nat
        /\ \/ n' = n + 1
           \/ n' = n + 2 /\ n + 1 <= Len(argv) /\ Taken(n + 1)
    BY <1>0, <1>1, <2>1, ReadsOn
  <2> SUFFICES ASSUME NEW name \in Names, NEW m \in Nat, m = n' - 1
               PROVE  Matches(name, GivenUpTo(name, m), values'[name], options'[name])
    BY <2>2, ArgumentsStay DEF Written
  <2>3. PICK new \in Seq(Types(name)) :
          /\ values'[name] = values[name] \o new
          /\ Len(new) = Len(Given(name, n))
          /\ \A k \in 1 .. Len(Given(name, n)) : Means(name, Given(name, n)[k], new[k])
          /\ name \in Members =>
               options'[name] = IF Given(name, n) = <<>> THEN options[name]
                                                         ELSE new[Len(Given(name, n))]
    BY <1>1, ReadsAdd DEF Adds
  <2>4. Given(name, n) \in Seq(GivenValue) /\ values[name] \in Seq(Types(name))
    BY <1>0, <2>1, GivenType DEF ValuesTyped
  <2>5. Matches(name, GivenUpTo(name, n - 1), values[name], options[name])
    <3>1. n - 1 \in Nat
      BY <2>1, <2>2
    <3> QED
      BY <3>1 DEF Written
  <2>6. Matches(name, GivenUpTo(name, n - 1) \o Given(name, n), values'[name], options'[name])
    <3> DEFINE more == Given(name, n)
               given == GivenUpTo(name, n - 1)
    <3>1. Matches(name, given, values[name], options[name]) /\ more \in Seq(GivenValue)
      BY <2>4, <2>5
    <3>2. /\ values'[name] = values[name] \o new /\ Len(new) = Len(more)
          /\ \A k \in 1 .. Len(more) : Means(name, more[k], new[k])
          /\ name \in Members => options'[name] = IF more = <<>> THEN options[name] ELSE new[Len(more)]
      BY <2>3
    <3> HIDE DEF more, given
    <3>3. Matches(name, given \o more, values[name] \o new, options'[name])
      BY <2>4, <3>1, <3>2, MatchesNext
    <3> QED
      BY <3>2, <3>3 DEF more, given
  <2>7. Matches(name, GivenUpTo(name, n), values'[name], options'[name])
    BY <1>0, <2>1, <2>6, GivenNext
  <2>8. CASE n' = n + 1
    <3>1. m = n
      BY <2>1, <2>2, <2>8
    <3> QED
      BY <2>7, <3>1
  <2>9. CASE n' = n + 2 /\ n + 1 <= Len(argv) /\ Taken(n + 1)
    <3>1. m = n + 1 /\ n + 1 \in 1 .. Len(argv) /\ (n + 1) - 1 = n
      BY <2>1, <2>2, <2>9
    <3>2. Given(name, n + 1) = <<>>
      BY <2>9 DEF Given
    <3>3. GivenUpTo(name, n) \in Seq(GivenValue)
      BY <2>7 DEF Matches
    <3>4. GivenUpTo(name, n) \o <<>> = GivenUpTo(name, n)
      BY <3>3, ConcatEmptySeq
    <3>5. GivenUpTo(name, n + 1) = GivenUpTo(name, n)
      <4>1. GivenUpTo(name, n + 1) = GivenUpTo(name, (n + 1) - 1) \o Given(name, n + 1)
        BY <1>0, <3>1, GivenNext
      <4> QED
        BY <3>1, <3>2, <3>4, <4>1, Zenon
    <3> QED
      BY <2>7, <3>1, <3>5
  <2> QED
    BY <2>2, <2>8, <2>9
<1>2. CASE ParseThrows \/ ParseEnds \/ PrintHelp \/ Fail \/ Construct \/ UNCHANGED vars
  <2>1. argv' = argv /\ UNCHANGED parserVars
    BY <1>2 DEF ParseThrows, ParseEnds, PrintHelp, Fail, Construct, MakeAcceptors, AcceptorsFail,
                MakeSink, SkipSink, SinkFails, Serve, vars
  <2> QED
    BY <2>1, ArgumentsStay DEF Written, parserVars
<1> QED
  BY <1>1, <1>2, NextCases

LEMMA WrittenInvariant == Spec => [](Typed /\ Control /\ Written)
BY ControlInvariant, WrittenInit, WrittenStep, PTL DEF Spec

(* Each option has the values that were given it, converted and in order,  *)
(* and its member of Options the last of them or the default, for any      *)
(* arguments (OptionParser::parse, src/popl.hpp:987-1091).                 *)
THEOREM OptionsAreAsWritten == Spec => []AsWritten
<1>1. Typed /\ Control /\ Written => AsWritten
  <2> SUFFICES ASSUME Typed, Control, Written PROVE AsWritten
    OBVIOUS
  <2>1. Len(argv) \in Nat /\ n \in 1 .. Len(argv) + 1
    BY LenProperties DEF Typed, ParserTyped
  <2>2. n <= Len(argv) => ~Taken(n)
    BY <2>1 DEF Control
  <2>3. n - 1 \in Nat
    BY <2>1
  <2>4. \A name \in Names : Matches(name, GivenUpTo(name, n - 1), values[name], options[name])
    BY <2>3 DEF Written
  <2> QED
    BY <2>2, <2>4, Zenon DEF AsWritten, Matches
<1> QED
  BY <1>1, WrittenInvariant, PTL
-------------------------------------------------------------------------------
(* Help goes first.                                                        *)

(* Help is asked for among the first m arguments.                          *)
HelpInFrontOf(m) == \E i \in 1 .. m : Given("help", i) # <<>>

(* The option for help is set if and only if an argument that was parsed   *)
(* asks for it; then it is printed, and the server is not constructed.     *)
Help ==
  /\ \A m \in Nat : m = n - 1 => (HelpIsAsked <=> HelpInFrontOf(m))
  /\ pc \in {"parse", "parsed", "thrown", "helped"} => acceptors = <<>> /\ sinks = <<>>
  /\ pc = "helped" => HelpIsAsked
  /\ pc \in {"failed", "sinks", "serving"} =>
       ~HelpIsAsked /\ \A i \in 1 .. Len(argv) : i = n => BadAt(i)

LEMMA HelpInit == Init => Help
<1> SUFFICES ASSUME Init PROVE Help
  OBVIOUS
<1>1. n = 1 /\ pc = "parse" /\ acceptors = <<>> /\ sinks = <<>>
  BY DEF Init
<1>2. ~HelpIsAsked
  BY DEF Init, HelpIsAsked, Names, Switches
<1>3. \A m \in Nat : m = n - 1 => ~HelpInFrontOf(m)
  BY <1>1 DEF HelpInFrontOf
<1> QED
  BY <1>1, <1>2, <1>3 DEF Help

LEMMA HelpStep == Typed /\ Control /\ Help /\ [Next]_vars => Help'
<1> SUFFICES ASSUME Typed, Control, Help, [Next]_vars PROVE Help'
  OBVIOUS
<1>0. ParserTyped /\ ValuesTyped /\ Len(argv) \in Nat /\ n \in 1 .. Len(argv) + 1
  BY LenProperties DEF Typed, ParserTyped
<1>1. CASE Reads
  <2>1. Parsing /\ n \in 1 .. Len(argv) /\ ~Taken(n)
    <3>1. Parsing
      BY <1>1 DEF Reads, ParseDashDash, ParseSwitch, ParseValue, ParseUnknown, ParseShort,
                  ParsePlain, AtValue, AtLong
    <3> QED
      BY <1>0, <3>1, ArgType DEF Control
  <2>2. /\ argv' = argv /\ pc' = pc
        /\ \/ n' = n + 1
           \/ n' = n + 2 /\ Taken(n + 1)
    BY <1>0, <1>1, <2>1, ReadsOn
  <2>3. UNCHANGED serverVars
    BY <1>1 DEF Reads, ParseDashDash, ParseSwitch, ParseValue, ParseUnknown, ParseShort, ParsePlain
  <2>4. HelpIsAsked' <=> HelpIsAsked \/ Given("help", n) # <<>>
    <3>1. "help" \in Names
      BY DEF Names, Switches
    <3>2. PICK new \in Seq(Types("help")) :
            values'["help"] = values["help"] \o new /\ Len(new) = Len(Given("help", n))
      BY <1>1, <3>1, ReadsAdd DEF Adds
    <3>3. values["help"] \in Seq(Types("help")) /\ Given("help", n) \in Seq(GivenValue)
      BY <1>0, <2>1, <3>1, GivenType DEF ValuesTyped
    <3>4. /\ values'["help"] \in Seq(Types("help"))
          /\ Len(values'["help"]) = Len(values["help"]) + Len(Given("help", n))
      BY <3>2, <3>3, ConcatProperties
    <3> DEFINE old == values["help"]
               now == values'["help"]
               more == Given("help", n)
    <3>5. /\ Len(old) \in Nat /\ Len(more) \in Nat
          /\ (old = <<>> <=> Len(old) = 0) /\ (now = <<>> <=> Len(now) = 0)
          /\ (more = <<>> <=> Len(more) = 0)
      BY <3>3, <3>4, LenProperties, EmptySeq
    <3>6. Len(now) = Len(old) + Len(more)
      BY <3>4
    <3> HIDE DEF old, now, more
    <3>7. now # <<>> <=> old # <<>> \/ more # <<>>
      BY <3>5, <3>6
    <3> QED
      BY <3>7 DEF HelpIsAsked, old, now, more
  <2>5. ASSUME NEW m \in Nat, m = n' - 1
        PROVE  HelpIsAsked' <=> HelpInFrontOf(m)
    <3>1. HelpIsAsked <=> HelpInFrontOf(n - 1)
      <4>1. n - 1 \in Nat
        BY <2>1
      <4> QED
        BY <4>1 DEF Help
    <3>2. Taken(n + 1) => Given("help", n + 1) = <<>>
      BY DEF Given
    <3>3. HelpInFrontOf(m) <=> HelpInFrontOf(n - 1) \/ Given("help", n) # <<>>
      <4>1. \A i \in 1 .. m : i \in 1 .. n - 1 \/ i = n \/ (n' = n + 2 /\ i = n + 1)
        BY <2>1, <2>2, <2>5
      <4>2. n \in 1 .. m /\ \A i \in 1 .. n - 1 : i \in 1 .. m
        BY <2>1, <2>2, <2>5
      <4>3. n' = n + 2 => Taken(n + 1)
        BY <2>1, <2>2
      <4> QED
        BY <3>2, <4>1, <4>2, <4>3, Zenon DEF HelpInFrontOf
    <3> QED
      BY <2>4, <3>1, <3>3
  <2>6. \A m : HelpInFrontOf(m)' <=> HelpInFrontOf(m)
    BY <2>2, ArgumentsStay DEF HelpInFrontOf
  <2> QED
    BY <2>1, <2>2, <2>3, <2>5, <2>6 DEF Help, Parsing, serverVars
<1>2. CASE ParseThrows \/ ParseEnds \/ PrintHelp \/ Fail \/ Construct \/ UNCHANGED vars
  <2>1. argv' = argv /\ UNCHANGED parserVars
    BY <1>2 DEF ParseThrows, ParseEnds, PrintHelp, Fail, Construct, MakeAcceptors, AcceptorsFail,
                MakeSink, SkipSink, SinkFails, Serve, vars
  <2>2. n' = n /\ (HelpIsAsked' <=> HelpIsAsked) /\ \A m : HelpInFrontOf(m)' <=> HelpInFrontOf(m)
    BY <2>1, ArgumentsStay DEF parserVars, HelpIsAsked, HelpInFrontOf
  <2>3. \/ pc' = pc /\ (UNCHANGED <<acceptors, sinks>> \/ pc = "sinks")
        \/ pc = "parse" /\ pc' \in {"parsed", "thrown"} /\ UNCHANGED <<acceptors, sinks>>
        \/ HelpIsAsked /\ pc \in {"parsed", "thrown"} /\ pc' = "helped" /\ UNCHANGED <<acceptors, sinks>>
        \/ ~HelpIsAsked /\ pc \in {"parsed", "thrown"} /\ pc' \in {"failed", "sinks"}
        \/ pc = "sinks" /\ pc' \in {"failed", "serving"}
    BY <1>2 DEF ParseThrows, ParseEnds, PrintHelp, Fail, Construct, MakeAcceptors, AcceptorsFail,
                MakeSink, SkipSink, SinkFails, Serve, vars, serverVars, AtValue, AtLong, Parsing,
                AtBlock
  <2>4. pc \in {"parsed", "thrown"} => \A i \in 1 .. Len(argv) : i = n => BadAt(i)
    BY <1>0 DEF Control
  <2>5. \A i : BadAt(i)' <=> BadAt(i)
    BY <2>1, ArgumentsStay
  <2> QED
    BY <2>1, <2>2, <2>3, <2>4, <2>5 DEF Help
<1> QED
  BY <1>1, <1>2, NextCases

(* Help that is asked for in front of the first bad value is printed and   *)
(* nothing else is done, and otherwise it is not, for any arguments        *)
(* (src/scriptor.cpp:117-121, 134-140).                                    *)
THEOREM HelpComesFirst == Spec => []HelpGoesFirst
<1>1. Typed /\ Control /\ Help => HelpGoesFirst
  <2> SUFFICES ASSUME Typed, Control, Help PROVE HelpGoesFirst
    OBVIOUS
  <2>1. Len(argv) \in Nat /\ n \in 1 .. Len(argv) + 1 /\ n - 1 \in Nat
    BY LenProperties DEF Typed, ParserTyped
  <2>2. HelpIsAsked <=> HelpInFrontOf(n - 1)
    BY <2>1 DEF Help
  <2>3. HelpIsAsked => AsksForHelp
    <3> SUFFICES ASSUME HelpIsAsked PROVE AsksForHelp
      OBVIOUS
    <3>1. PICK i \in 1 .. n - 1 : Given("help", i) # <<>>
      BY <2>2 DEF HelpInFrontOf
    <3>2. i \in 1 .. Len(argv) /\ \A k \in 1 .. i : k \in 1 .. n - 1
      BY <2>1
    <3>3. Clean(i)
      BY <3>2 DEF Control, Clean
    <3> QED
      BY <3>1, <3>2, <3>3 DEF AsksForHelp
  <2>4. ASSUME ~HelpIsAsked, \A i \in 1 .. Len(argv) : i = n => BadAt(i), AsksForHelp
        PROVE  FALSE
    <3>1. PICK i \in 1 .. Len(argv) : Given("help", i) # <<>> /\ Clean(i)
      BY <2>4 DEF AsksForHelp
    <3>2. i \notin 1 .. n - 1
      BY <2>2, <2>4, <3>1 DEF HelpInFrontOf
    <3>3. n \in 1 .. i /\ n \in 1 .. Len(argv)
      BY <2>1, <3>2
    <3> QED
      BY <2>4, <3>1, <3>3 DEF Clean
  <2> QED
    BY <2>3, <2>4 DEF HelpGoesFirst, Help
<1>2. Typed /\ Control /\ [Next]_vars => Typed'
  BY ParserTypedStep, ServerTypedStep DEF Typed
<1> QED
  BY <1>1, <1>2, ControlInvariant, HelpInit, HelpStep, PTL DEF Spec
-------------------------------------------------------------------------------
(* The sinks that were asked for.                                          *)

LEMMA BlockNames ==
  /\ Blocks[1] = "file" /\ Blocks[2] = "systemd" /\ Blocks[3] = "syslog"
  /\ Blocks[4] = "eventlog" /\ Blocks[5] = "console"
  /\ \A j, k \in 1 .. 5 : Blocks[j] = Blocks[k] => j = k
BY DEF Blocks

LEMMA AskedIs ==
  /\ Asked("file") <=> options["filelog_filename"] # Empty
  /\ Asked("systemd") <=> Platform = "linux" /\ options["systemd_logging"]
  /\ Asked("syslog") <=> Platform = "linux" /\ options["syslog_logging"]
  /\ Asked("eventlog") <=> Platform = "windows" /\ options["eventlog_logging"]
  /\ Asked("console") <=> sinks = <<>>
BY DEF Asked

LEMMA LevelIs ==
  /\ LevelOf("file") = options["filelog_level"]
  /\ LevelOf("systemd") = options["systemd_level"]
  /\ LevelOf("syslog") = options["syslog_level"]
  /\ LevelOf("eventlog") = options["eventlog_level"]
  /\ LevelOf("console") = 0
BY DEF LevelOf

(* What is asked for does not change, but that a console is asked for      *)
(* depends on the sinks there are.                                         *)
LEMMA AskedStays ==
  ASSUME options' = options
  PROVE  /\ \A j \in 1 .. 4 : Asked(Blocks[j])' <=> Asked(Blocks[j])
         /\ \A j \in 1 .. 5 : LevelOf(Blocks[j])' = LevelOf(Blocks[j])
<1>1. /\ Asked("file")' <=> Asked("file")
      /\ Asked("systemd")' <=> Asked("systemd")
      /\ Asked("syslog")' <=> Asked("syslog")
      /\ Asked("eventlog")' <=> Asked("eventlog")
  BY DEF Asked
<1>2. \A kind : LevelOf(kind)' = LevelOf(kind)
  BY DEF LevelOf
<1>3. \A j \in 1 .. 4 : j = 1 \/ j = 2 \/ j = 3 \/ j = 4
  OBVIOUS
<1>4. \A k : Blocks[k]' = Blocks[k]
  BY DEF Blocks
<1>5. \A j \in 1 .. 4 : Asked(Blocks[j])' <=> Asked(Blocks[j])
  BY <1>1, <1>3, <1>4, BlockNames, Zenon
<1>6. \A j \in 1 .. 5 : LevelOf(Blocks[j])' = LevelOf(Blocks[j])
  BY <1>2, <1>4, Zenon
<1> QED
  BY <1>5, <1>6

(* The sinks are those that the blocks passed so far ask for, one of each, *)
(* and the console is alone.                                               *)
Made ==
  /\ \A i \in 1 .. Len(sinks) : \E j \in 1 .. 5 :
       /\ j < block
       /\ sinks[i] = [kind |-> Blocks[j], level |-> LevelOf(Blocks[j])]
       /\ j # 5 => Asked(Blocks[j])
       /\ j = 5 => Len(sinks) = 1
  /\ \A j \in 1 .. 4 : j < block /\ Asked(Blocks[j]) =>
       \E i \in 1 .. Len(sinks) : sinks[i].kind = Blocks[j]
  /\ \A i, k \in 1 .. Len(sinks) : sinks[i].kind = sinks[k].kind => i = k
  /\ block = 6 => sinks # <<>>

(* Nothing is made before the parser is done; the acceptors come first.    *)
Building ==
  /\ pc \in {"parse", "parsed", "thrown"} => block = 1 /\ sinks = <<>>
  /\ pc \in {"sinks", "serving"} => acceptors = Endpoints /\ acceptors # <<>> /\ Made
  /\ pc = "serving" => block = 6

LEMMA MakeSinkMade == Typed /\ Made /\ MakeSink => Made'
<1> SUFFICES ASSUME Typed, Made, MakeSink PROVE Made'
  OBVIOUS
<1> DEFINE b == block
           l == Len(sinks)
           new == [kind |-> Blocks[b], level |-> LevelOf(Blocks[b])]
<1>1. /\ sinks' = Append(sinks, new) /\ block' = b + 1 /\ options' = options
      /\ Asked(Blocks[b]) /\ b <= Len(Blocks)
  BY DEF MakeSink, AtBlock, parserVars
<1>2. sinks \in Seq(Sink) /\ l \in Nat /\ b \in 1 .. 5
  BY <1>1, BlockKinds, LenProperties DEF Typed, ServerTyped
<1>3. /\ Len(sinks') = l + 1 /\ sinks'[l + 1] = new
      /\ \A i \in 1 .. l : sinks'[i] = sinks[i]
  BY <1>1, <1>2, AppendProperties
<1>4. /\ \A j \in 1 .. 4 : Asked(Blocks[j])' <=> Asked(Blocks[j])
      /\ \A j \in 1 .. 5 : LevelOf(Blocks[j])' = LevelOf(Blocks[j])
  BY <1>1, AskedStays
<1>5. b = 5 => l = 0
  BY <1>1, BlockNames, AskedIs, EmptySeq
<1>6. \A i \in 1 .. l : \E j \in 1 .. 5 :
        /\ j < b /\ sinks[i] = [kind |-> Blocks[j], level |-> LevelOf(Blocks[j])]
        /\ j # 5 => Asked(Blocks[j])
  BY DEF Made
<1> HIDE DEF b, l
<1>7. ASSUME NEW i \in 1 .. Len(sinks')
      PROVE  \E j \in 1 .. 5 :
               /\ j < block'
               /\ sinks'[i] = [kind |-> Blocks[j], level |-> LevelOf(Blocks[j])]
               /\ j # 5 => Asked(Blocks[j])
               /\ j = 5 => Len(sinks') = 1
  <2>1. CASE i \in 1 .. l
    <3>1. PICK j \in 1 .. 5 :
            /\ j < b /\ sinks[i] = [kind |-> Blocks[j], level |-> LevelOf(Blocks[j])]
            /\ j # 5 => Asked(Blocks[j])
      BY <1>6, <2>1
    <3>2. j < block' /\ j # 5 /\ sinks'[i] = sinks[i]
      BY <1>1, <1>2, <1>3, <2>1, <3>1
    <3> QED
      BY <3>1, <3>2
  <2>2. CASE i = l + 1
    <3>1. b \in 1 .. 5 /\ b < block' /\ sinks'[i] = new /\ Asked(Blocks[b])
          /\ (b = 5 => Len(sinks') = 1)
      BY <1>1, <1>2, <1>3, <1>5, <2>2
    <3> QED
      BY <3>1
  <2> QED
    BY <1>2, <1>3, <2>1, <2>2
<1>8. ASSUME NEW j \in 1 .. 4, j < block', Asked(Blocks[j])
      PROVE  \E i \in 1 .. Len(sinks') : sinks'[i].kind = Blocks[j]
  <2>1. CASE j = b
    BY <1>2, <1>3, <2>1
  <2>2. CASE j # b
    <3>1. j < b
      BY <1>1, <1>2, <1>8, <2>2
    <3>2. PICK i \in 1 .. l : sinks[i].kind = Blocks[j]
      BY <1>8, <3>1 DEF Made, b, l
    <3> QED
      BY <1>2, <1>3, <3>2
  <2> QED
    BY <2>1, <2>2
<1>9. ASSUME NEW i \in 1 .. Len(sinks'), NEW k \in 1 .. Len(sinks'), sinks'[i].kind = sinks'[k].kind
      PROVE  i = k
  <2>1. \A m \in 1 .. l : sinks'[m].kind # Blocks[b]
    <3> TAKE m \in 1 .. l
    <3>1. PICK j \in 1 .. 5 : j < b /\ sinks[m].kind = Blocks[j]
      BY <1>6
    <3>2. Blocks[j] # Blocks[b]
      BY <1>2, <3>1, BlockNames
    <3> QED
      BY <1>3, <3>1, <3>2
  <2>2. \A m \in 1 .. Len(sinks') : m \in 1 .. l \/ (m = l + 1 /\ sinks'[m].kind = Blocks[b])
    BY <1>2, <1>3
  <2>3. i \in 1 .. l /\ k \in 1 .. l => i = k
    BY <1>3, <1>9 DEF Made, l
  <2> QED
    BY <1>9, <2>1, <2>2, <2>3
<1>10. sinks' # <<>>
  <2>1. sinks' \in Seq(Sink \cup {new})
    BY <1>1, <1>2
  <2> QED
    BY <1>2, <1>3, <2>1, EmptySeq
<1> QED
  <2>1. \A j : Blocks[j]' = Blocks[j]
    BY DEF Blocks
  <2> QED
    BY <1>4, <1>7, <1>8, <1>9, <1>10, <2>1 DEF Made

LEMMA SkipSinkMade == Typed /\ Made /\ SkipSink => Made'
<1> SUFFICES ASSUME Typed, Made, SkipSink PROVE Made'
  OBVIOUS
<1>1. /\ sinks' = sinks /\ block' = block + 1 /\ options' = options
      /\ ~Asked(Blocks[block]) /\ block <= Len(Blocks)
  BY DEF SkipSink, AtBlock, parserVars
<1>2. block \in 1 .. 5
  BY <1>1, BlockKinds DEF Typed, ServerTyped
<1>3. /\ \A j \in 1 .. 4 : Asked(Blocks[j])' <=> Asked(Blocks[j])
      /\ \A j \in 1 .. 5 : LevelOf(Blocks[j])' = LevelOf(Blocks[j])
      /\ \A j : Blocks[j]' = Blocks[j]
  BY <1>1, AskedStays DEF Blocks
<1>4. block = 5 => sinks # <<>>
  BY <1>1, BlockNames, AskedIs
<1>5. \A j \in 1 .. 4 : j < block' /\ Asked(Blocks[j]) => j < block
  BY <1>1, <1>2
<1>6. \A j \in 1 .. 5 : j < block => j < block'
  BY <1>1, <1>2
<1>7. block' = 6 => block = 5
  BY <1>1, <1>2
<1>8. \A i \in 1 .. Len(sinks) : \E j \in 1 .. 5 :
        /\ j < block'
        /\ sinks[i] = [kind |-> Blocks[j], level |-> LevelOf(Blocks[j])]
        /\ j # 5 => Asked(Blocks[j])
        /\ j = 5 => Len(sinks) = 1
  BY <1>6 DEF Made
<1>9. \A j \in 1 .. 4 : j < block' /\ Asked(Blocks[j]) =>
        \E i \in 1 .. Len(sinks) : sinks[i].kind = Blocks[j]
  BY <1>5 DEF Made
<1>10. \A i, k \in 1 .. Len(sinks) : sinks[i].kind = sinks[k].kind => i = k
  BY DEF Made
<1> QED
  BY <1>1, <1>3, <1>4, <1>7, <1>8, <1>9, <1>10 DEF Made

LEMMA BuildingInit == Init => Building
BY DEF Init, Building

LEMMA BuildingStep == Typed /\ Building /\ [Next]_vars => Building'
<1> SUFFICES ASSUME Typed, Building, [Next]_vars PROVE Building'
  OBVIOUS
<1>1. ASSUME UNCHANGED <<options, serverVars>>, pc' = pc
      PROVE  Building'
  <2>1. \A j \in 1 .. 5 : Asked(Blocks[j])' <=> Asked(Blocks[j])
    <3>1. \A kind : Asked(kind)' <=> Asked(kind)
      BY <1>1, Zenon DEF Asked, serverVars
    <3> QED
      BY <3>1 DEF Blocks
  <2>2. \A j \in 1 .. 5 : LevelOf(Blocks[j])' = LevelOf(Blocks[j])
    BY <1>1, AskedStays
  <2>3. Endpoints' = Endpoints
    BY <1>1 DEF Endpoints
  <2> QED
    BY <1>1, <2>1, <2>2, <2>3 DEF Building, Made, serverVars, Blocks
<1>2. ASSUME pc' \notin {"sinks", "serving"},
             pc' \in {"parsed", "thrown"} => pc = "parse" /\ UNCHANGED serverVars,
             pc' # "parse"
      PROVE  Building'
  BY <1>2 DEF Building, serverVars
<1>3. CASE Reads
  <2>1. UNCHANGED serverVars /\ pc = "parse" /\ pc' = "parse"
    BY <1>3 DEF Reads, ParseDashDash, ParseSwitch, ParseValue, ParseUnknown, ParseShort,
                ParsePlain, AtValue, AtLong, Parsing
  <2> QED
    BY <2>1 DEF Building, serverVars
<1>4. CASE UNCHANGED vars
  <2>1. UNCHANGED <<options, serverVars>> /\ pc' = pc
    BY <1>4 DEF vars, parserVars
  <2> QED
    BY <1>1, <2>1
<1>5. CASE ParseThrows \/ ParseEnds \/ PrintHelp \/ Fail \/ AcceptorsFail \/ SinkFails
  <2>1. /\ pc' \notin {"sinks", "serving"} /\ pc' # "parse"
        /\ pc' \in {"parsed", "thrown"} => pc = "parse" /\ UNCHANGED serverVars
    BY <1>5 DEF ParseThrows, ParseEnds, PrintHelp, Fail, AcceptorsFail, SinkFails, AtValue, AtLong,
                Parsing
  <2> QED
    BY <1>2, <2>1
<1>6. CASE MakeAcceptors
  <2>1. /\ acceptors' = Endpoints /\ Endpoints # <<>> /\ block' = 1 /\ sinks' = <<>>
        /\ pc' = "sinks" /\ options' = options
    BY <1>6 DEF MakeAcceptors, Building, parserVars
  <2>2. Endpoints' = Endpoints
    BY <2>1 DEF Endpoints
  <2>3. Len(sinks') = 0
    BY <2>1, EmptySeq
  <2>4. Made'
    BY <2>1, <2>3 DEF Made
  <2> QED
    BY <2>1, <2>2, <2>4 DEF Building
<1>7. CASE MakeSink \/ SkipSink
  <2>1. pc = "sinks" /\ pc' = "sinks" /\ acceptors' = acceptors /\ options' = options
    BY <1>7 DEF MakeSink, SkipSink, AtBlock, parserVars
  <2>2. Endpoints' = Endpoints
    BY <2>1 DEF Endpoints
  <2>3. Made'
    BY <1>7, <2>1, MakeSinkMade, SkipSinkMade DEF Building
  <2> QED
    BY <2>1, <2>2, <2>3 DEF Building
<1>8. CASE Serve
  <2>1. pc = "sinks" /\ pc' = "serving" /\ UNCHANGED <<options, serverVars>> /\ block > Len(Blocks)
    BY <1>8 DEF Serve, parserVars
  <2>2. block' = 6
    BY <2>1, BlockKinds DEF Typed, ServerTyped, serverVars
  <2>3. /\ \A j \in 1 .. 4 : Asked(Blocks[j])' <=> Asked(Blocks[j])
        /\ \A j \in 1 .. 5 : LevelOf(Blocks[j])' = LevelOf(Blocks[j])
        /\ \A j : Blocks[j]' = Blocks[j]
    BY <2>1, AskedStays DEF Blocks
  <2>4. Endpoints' = Endpoints
    BY <2>1 DEF Endpoints
  <2>5. Made'
    BY <2>1, <2>3 DEF Building, Made, serverVars
  <2> QED
    BY <2>1, <2>2, <2>4, <2>5 DEF Building, serverVars
<1> QED
  BY <1>3, <1>4, <1>5, <1>6, <1>7, <1>8, NextCases DEF Construct
(* A switch that was given is on, and a text that was given is not empty.  *)
Truthy ==
  /\ \A name \in Switches : values[name] \in Seq({TRUE})
  /\ \A name \in Texts : values[name] \in Seq(Words \ {Empty})

LEMMA TruthyInit == Init => Truthy
<1>1. \A S : <<>> \in Seq(S)
  BY EmptySeq
<1>2. Switches \subseteq Names /\ Texts \subseteq Names
  BY DEF Names
<1> QED
  BY <1>1, <1>2 DEF Init, Truthy

LEMMA AddValuesTruthy ==
  ASSUME ValuesTyped, Truthy, NEW name \in Names, NEW new, AddValues(name, new),
         name \in Switches => new \in Seq({TRUE}),
         name \in Texts => new \in Seq(Words \ {Empty})
  PROVE  Truthy'
<1>1. /\ values'[name] = values[name] \o new
      /\ \A other \in Names : other # name => values'[other] = values[other]
  BY DEF AddValues, ValuesTyped
<1>2. Switches \subseteq Names /\ Texts \subseteq Names
  BY DEF Names
<1>3. ASSUME NEW S, values[name] \in Seq(S), new \in Seq(S)
      PROVE  values'[name] \in Seq(S)
  BY <1>1, <1>3, ConcatProperties
<1>4. ASSUME NEW m \in Switches PROVE values'[m] \in Seq({TRUE})
  <2> DEFINE S == {TRUE}
  <2>1. values[m] \in Seq(S) /\ (m = name => new \in Seq(S)) /\ m \in Names
    BY <1>2 DEF Truthy
  <2> HIDE DEF S
  <2>2. values'[m] \in Seq(S)
    BY <1>1, <1>3, <2>1
  <2> QED
    BY <2>2 DEF S
<1>5. ASSUME NEW m \in Texts PROVE values'[m] \in Seq(Words \ {Empty})
  <2> DEFINE S == Words \ {Empty}
  <2>1. values[m] \in Seq(S) /\ (m = name => new \in Seq(S)) /\ m \in Names
    BY <1>2 DEF Truthy
  <2> HIDE DEF S
  <2>2. values'[m] \in Seq(S)
    BY <1>1, <1>3, <2>1
  <2> QED
    BY <2>2 DEF S
<1> QED
  BY <1>4, <1>5 DEF Truthy

LEMMA TruthyStep == Typed /\ Truthy /\ [Next]_vars => Truthy'
<1> SUFFICES ASSUME Typed, Truthy, [Next]_vars PROVE Truthy'
  OBVIOUS
<1>0. ParserTyped /\ ValuesTyped
  BY DEF Typed
<1>1. CASE ParseSwitch
  <2>1. Arg.name \in Switches /\ Arg.name \in Names /\ AddValues(Arg.name, <<TRUE>>)
    BY <1>1 DEF ParseSwitch, Names
  <2>2. <<TRUE>> \in Seq({TRUE}) /\ Arg.name \notin Texts
    BY <2>1, KindsOfNames
  <2> QED
    BY <1>0, <2>1, <2>2, AddValuesTruthy
<1>2. CASE ParseShort
  <2> DEFINE h == HelpLetters(Arg)
             new == [i \in 1 .. h |-> TRUE]
  <2>1. AddValues("help", new) /\ Parsing
    BY <1>2 DEF ParseShort
  <2>2. h \in Nat
    BY <1>0, <2>1, ArgType, WordKinds DEF HelpLetters
  <2>3. "help" \in Names /\ "help" \notin Texts
    BY DEF Names, Switches, Texts
  <2> HIDE DEF h
  <2>4. new \in Seq({TRUE})
    BY <2>2
  <2> HIDE DEF new
  <2> QED
    BY <1>0, <2>1, <2>3, <2>4, AddValuesTruthy
<1>3. CASE ParseValue
  <2> DEFINE new == <<Convert(Arg.name, OptArg)>>
  <2>1. /\ Arg.name \in Names \ Switches /\ Accepts(Arg.name, OptArg) /\ AtValue
        /\ AddValues(Arg.name, new)
    BY <1>3 DEF ParseValue, AtValue
  <2>2. OptArg \in Words
    BY <1>0, <2>1, ValueAtIsOptArg
  <2>3. Arg.name \in Texts => new \in Seq(Words \ {Empty})
    <3> SUFFICES ASSUME Arg.name \in Texts PROVE new \in Seq(Words \ {Empty})
      OBVIOUS
    <3>1. OptArg # Empty
      BY <2>1, KindsOfNames DEF Accepts, AcceptsText
    <3>2. Convert(Arg.name, OptArg) = OptArg
      BY KindsOfNames DEF Convert
    <3> QED
      BY <2>2, <3>1, <3>2
  <2> HIDE DEF new
  <2> QED
    BY <1>0, <2>1, <2>3, AddValuesTruthy
<1>4. CASE ParseDashDash \/ ParseUnknown \/ ParsePlain
  BY <1>4 DEF ParseDashDash, ParseUnknown, ParsePlain, Truthy
<1>5. CASE ParseThrows \/ ParseEnds \/ PrintHelp \/ Fail \/ Construct \/ UNCHANGED vars
  <2>1. UNCHANGED parserVars
    BY <1>5 DEF ParseThrows, ParseEnds, PrintHelp, Fail, Construct, MakeAcceptors, AcceptorsFail,
                MakeSink, SkipSink, SinkFails, Serve, vars
  <2> QED
    BY <2>1 DEF parserVars, Truthy
<1> QED
  BY <1>1, <1>2, <1>3, <1>4, <1>5, NextCases DEF Reads

(* What the options hold once all arguments are read.                      *)
LEMMA OptionsHold ==
  ASSUME Typed, Written, Truthy, n = Len(argv) + 1, NEW name \in Members
  PROVE  /\ name \in Switches => (options[name] <=> GivenUpTo(name, Len(argv)) # <<>>)
         /\ name \in Texts \ {"identity"} =>
              (options[name] # Empty <=> GivenUpTo(name, Len(argv)) # <<>>)
         /\ Says(name, options[name])
<1> DEFINE given == GivenUpTo(name, Len(argv))
           vals == values[name]
<1>1. name \in Names /\ Len(argv) \in Nat
  BY LenProperties DEF Typed, ParserTyped, Members
<1>2. Matches(name, given, vals, options[name])
  <2>1. Len(argv) \in Nat /\ Len(argv) = n - 1
    BY <1>1
  <2> QED
    BY <1>1, <2>1 DEF Written
<1> HIDE DEF given, vals
<1>3. given \in Seq(GivenValue) /\ Len(vals) = Len(given)
  BY <1>2 DEF Matches
<1>4. given # <<>> => Len(given) \in 1 .. Len(given)
  BY <1>3, LenProperties, EmptySeq
<1>5. /\ given = <<>> => options[name] = Default(name)
      /\ given # <<>> => options[name] = vals[Len(vals)]
  BY <1>2, <1>3 DEF Matches
<1>6. ASSUME NEW S, vals \in Seq(S), given # <<>>
      PROVE  options[name] \in S
  BY <1>3, <1>4, <1>5, <1>6, ElementOfSeq
<1>7. ASSUME name \in Switches
      PROVE  options[name] <=> given # <<>>
  <2>1. Default(name) = FALSE
    BY <1>7, DefaultValues
  <2>2. vals \in Seq({TRUE})
    BY <1>7 DEF Truthy, vals
  <2>3. given # <<>> => options[name] \in {TRUE}
    BY <1>6, <2>2
  <2> QED
    BY <1>5, <2>1, <2>3, Zenon
<1>8. ASSUME name \in Texts \ {"identity"}
      PROVE  options[name] # Empty <=> given # <<>>
  <2>1. Default(name) = Empty
    BY <1>8, DefaultValues
  <2>2. vals \in Seq(Words \ {Empty})
    BY <1>8 DEF Truthy, vals
  <2>3. given # <<>> => options[name] \in Words \ {Empty}
    BY <1>6, <2>2
  <2> QED
    BY <1>5, <2>1, <2>3, Zenon
<1>9. Says(name, options[name])
  <2>1. given # <<>> => Means(name, given[Len(given)], options[name])
    BY <1>2, <1>3, <1>4, <1>5 DEF Matches
  <2> QED
    BY <1>5, <2>1, Zenon DEF Says, given
<1> QED
  BY <1>7, <1>8, <1>9 DEF given

LEMMA RequestedIsAsked ==
  ASSUME Typed, Written, Truthy, n = Len(argv) + 1
  PROVE  /\ \A o \in SinkOptions : /\ \E j \in 1 .. 4 : o.kind = Blocks[j]
                                   /\ o \in Requested <=> Asked(o.kind)
                                   /\ Says(o.level, LevelOf(o.kind))
         /\ \A j \in 1 .. 4 : \E o \in SinkOptions : o.kind = Blocks[j]
<1>1. SinkOptions =
        { [kind |-> "file",     option |-> "filelog_filename", level |-> "filelog_level",
           on |-> {"linux", "windows", "other"}],
          [kind |-> "systemd",  option |-> "systemd_logging",  level |-> "systemd_level",
           on |-> {"linux"}],
          [kind |-> "syslog",   option |-> "syslog_logging",   level |-> "syslog_level",
           on |-> {"linux"}],
          [kind |-> "eventlog", option |-> "eventlog_logging", level |-> "eventlog_level",
           on |-> {"windows"}] }
  BY DEF SinkOptions
<1> DEFINE N == Len(argv)
<1>2. /\ Asked("file") <=> GivenUpTo("filelog_filename", N) # <<>>
      /\ Asked("systemd") <=> Platform = "linux" /\ GivenUpTo("systemd_logging", N) # <<>>
      /\ Asked("syslog") <=> Platform = "linux" /\ GivenUpTo("syslog_logging", N) # <<>>
      /\ Asked("eventlog") <=> Platform = "windows" /\ GivenUpTo("eventlog_logging", N) # <<>>
  <2>1. /\ "filelog_filename" \in Members /\ "filelog_filename" \in Texts \ {"identity"}
        /\ "systemd_logging" \in Members /\ "systemd_logging" \in Switches
        /\ "syslog_logging" \in Members /\ "syslog_logging" \in Switches
        /\ "eventlog_logging" \in Members /\ "eventlog_logging" \in Switches
    BY DEF Members, Names, Switches, Texts
  <2>2. /\ options["filelog_filename"] # Empty <=> GivenUpTo("filelog_filename", N) # <<>>
        /\ options["systemd_logging"] <=> GivenUpTo("systemd_logging", N) # <<>>
        /\ options["syslog_logging"] <=> GivenUpTo("syslog_logging", N) # <<>>
        /\ options["eventlog_logging"] <=> GivenUpTo("eventlog_logging", N) # <<>>
    BY <2>1, OptionsHold
  <2> QED
    BY <2>2, AskedIs, Zenon
<1>3. /\ Says("filelog_level", LevelOf("file")) /\ Says("systemd_level", LevelOf("systemd"))
      /\ Says("syslog_level", LevelOf("syslog")) /\ Says("eventlog_level", LevelOf("eventlog"))
  <2>1. Levels \subseteq Members
    BY DEF Members, Names, Levels
  <2>2. \A m \in Levels : Says(m, options[m])
    BY <2>1, OptionsHold
  <2> QED
    BY <2>2, LevelIs DEF Levels
<1>4. ASSUME NEW o \in SinkOptions
      PROVE  o \in Requested <=> Asked(o.kind)
  <2>1. o \in Requested <=> Platform \in o.on /\ GivenUpTo(o.option, N) # <<>>
    BY DEF Requested
  <2>2. CASE o.kind = "file"
    <3>1. o.on = {"linux", "windows", "other"} /\ o.option = "filelog_filename"
      BY <1>1, <2>2
    <3> QED
      BY <1>2, <2>1, <2>2, <3>1, PlatformAssumption, Zenon
  <2>3. CASE o.kind = "systemd"
    <3>1. o.on = {"linux"} /\ o.option = "systemd_logging"
      BY <1>1, <2>3
    <3> QED
      BY <1>2, <2>1, <2>3, <3>1, Zenon
  <2>4. CASE o.kind = "syslog"
    <3>1. o.on = {"linux"} /\ o.option = "syslog_logging"
      BY <1>1, <2>4
    <3> QED
      BY <1>2, <2>1, <2>4, <3>1, Zenon
  <2>5. CASE o.kind = "eventlog"
    <3>1. o.on = {"windows"} /\ o.option = "eventlog_logging"
      BY <1>1, <2>5
    <3> QED
      BY <1>2, <2>1, <2>5, <3>1, Zenon
  <2> QED
    BY <1>1, <2>2, <2>3, <2>4, <2>5
<1>5. ASSUME NEW o \in SinkOptions
      PROVE  Says(o.level, LevelOf(o.kind))
  BY <1>1, <1>3
<1>6. ASSUME NEW o \in SinkOptions
      PROVE  \E j \in 1 .. 4 : o.kind = Blocks[j]
  <2>1. o.kind \in {"file", "systemd", "syslog", "eventlog"}
    BY <1>1
  <2>2. 1 \in 1 .. 4 /\ 2 \in 1 .. 4 /\ 3 \in 1 .. 4 /\ 4 \in 1 .. 4
    OBVIOUS
  <2> QED
    BY <2>1, <2>2, BlockNames, Zenon
<1>7. ASSUME NEW j \in 1 .. 4
      PROVE  \E o \in SinkOptions : o.kind = Blocks[j]
  <2>1. j = 1 \/ j = 2 \/ j = 3 \/ j = 4
    OBVIOUS
  <2>2. Blocks[j] \in {"file", "systemd", "syslog", "eventlog"}
    BY <2>1, BlockNames, Zenon
  <2> QED
    BY <1>1, <2>2
<1> QED
  BY <1>4, <1>5, <1>6, <1>7

(* A server that serves has exactly the endpoints and the sinks argv asks  *)
(* for, with their levels, and one for the console if and only if it asks  *)
(* for no other, for any arguments (src/server.cpp:22-95).                 *)
THEOREM SinksAreAsAsked == Spec => []SinksAsAsked
<1>1. Typed /\ Control /\ Written /\ Truthy /\ Building => SinksAsAsked
  <2> SUFFICES ASSUME Typed, Control, Written, Truthy, Building, pc = "serving"
               PROVE  /\ acceptors # <<>>
                      /\ "unix" \in Range(acceptors) <=> GivenUpTo("socket_file", Len(argv)) # <<>>
                      /\ "tcp" \in Range(acceptors) <=> GivenUpTo("socket_address", Len(argv)) # <<>>
                      /\ Requested = {} => sinks = <<[kind |-> "console", level |-> 0]>>
                      /\ Requested # {} =>
                           /\ {s.kind : s \in Range(sinks)} = {o.kind : o \in Requested}
                           /\ \A i, j \in 1 .. Len(sinks) : sinks[i].kind = sinks[j].kind => i = j
                           /\ \A s \in Range(sinks), o \in Requested :
                                s.kind = o.kind => Says(o.level, s.level)
    BY Zenon DEF SinksAsAsked
  <2>1. /\ n = Len(argv) + 1 /\ acceptors = Endpoints /\ acceptors # <<>> /\ Made /\ block = 6
        /\ sinks \in Seq(Sink) /\ Len(sinks) \in Nat /\ acceptors \in Seq({"unix", "tcp"})
    <3>1. n \in 1 .. Len(argv) + 1 /\ Len(argv) \in Nat /\ n > Len(argv)
      BY LenProperties DEF Typed, ParserTyped, Control
    <3>2. sinks \in Seq(Sink) /\ Len(sinks) \in Nat /\ acceptors \in Seq({"unix", "tcp"})
      BY LenProperties DEF Typed, ServerTyped
    <3> QED
      BY <3>1, <3>2 DEF Building
  <2>2. Range(sinks) = {sinks[i] : i \in 1 .. Len(sinks)}
    <3>1. DOMAIN sinks = 1 .. Len(sinks)
      BY <2>1, LenProperties
    <3> QED
      BY <3>1 DEF Range
  <2>3. /\ "unix" \in Range(acceptors) <=> options["socket_file"] # Empty
        /\ "tcp" \in Range(acceptors) <=> options["socket_address"] # Empty
    <3> DEFINE file == options["socket_file"] # Empty
               address == options["socket_address"] # Empty
    <3>1. acceptors = (IF file THEN <<"unix">> ELSE <<>>) \o (IF address THEN <<"tcp">> ELSE <<>>)
      BY <2>1 DEF Endpoints
    <3> HIDE DEF file, address
    <3>2. /\ "unix" \in Range(acceptors) <=> file
          /\ "tcp" \in Range(acceptors) <=> address
      <4>1. \A s : Range(s) = {s[i] : i \in DOMAIN s}
        BY DEF Range
      <4>2. CASE file /\ address
        <5> DEFINE x == <<"unix">>
                   y == <<"tcp">>
                   E == {"unix", "tcp"}
        <5>1. acceptors = x \o y
          BY <3>1, <4>2
        <5>2. x \in Seq(E) /\ y \in Seq(E) /\ Len(x) = 1 /\ Len(y) = 1 /\ x[1] = "unix" /\ y[1] = "tcp"
          OBVIOUS
        <5> HIDE DEF x, y, E
        <5>3. /\ Len(acceptors) = Len(x) + Len(y)
              /\ \A i \in 1 .. Len(x) + Len(y) :
                   acceptors[i] = IF i <= Len(x) THEN x[i] ELSE y[i - Len(x)]
          BY <5>1, <5>2, ConcatProperties
        <5>4. /\ acceptors[1] = "unix" /\ acceptors[2] = "tcp"
              /\ 1 \in 1 .. Len(acceptors) /\ 2 \in 1 .. Len(acceptors)
          BY <5>2, <5>3
        <5>5. DOMAIN acceptors = 1 .. Len(acceptors)
          BY <2>1, LenProperties
        <5> QED
          BY <4>1, <4>2, <5>4, <5>5
      <4>3. CASE file /\ ~address
        <5>1. acceptors = <<"unix">>
          BY <3>1, <4>3
        <5> QED
          BY <4>1, <4>3, <5>1
      <4>4. CASE ~file /\ address
        <5>1. acceptors = <<"tcp">>
          BY <3>1, <4>4
        <5> QED
          BY <4>1, <4>4, <5>1
      <4>5. CASE ~file /\ ~address
        <5>1. acceptors = <<>>
          BY <3>1, <4>5
        <5> QED
          BY <2>1, <5>1
      <4> QED
        BY <4>2, <4>3, <4>4, <4>5
    <3> QED
      BY <3>2 DEF file, address
  <2>4. /\ options["socket_file"] # Empty <=> GivenUpTo("socket_file", Len(argv)) # <<>>
        /\ options["socket_address"] # Empty <=> GivenUpTo("socket_address", Len(argv)) # <<>>
    <3>1. /\ "socket_file" \in Members /\ "socket_file" \in Texts \ {"identity"}
          /\ "socket_address" \in Members /\ "socket_address" \in Texts \ {"identity"}
      BY DEF Members, Names, Texts
    <3> QED
      BY <2>1, <3>1, OptionsHold
  <2>5. /\ \A o \in SinkOptions : /\ \E j \in 1 .. 4 : o.kind = Blocks[j]
                                  /\ o \in Requested <=> Asked(o.kind)
                                  /\ Says(o.level, LevelOf(o.kind))
        /\ \A j \in 1 .. 4 : \E o \in SinkOptions : o.kind = Blocks[j]
        /\ \A o \in Requested : o \in SinkOptions
    <3>1. \A o \in Requested : o \in SinkOptions
      BY DEF Requested
    <3> QED
      BY <2>1, <3>1, RequestedIsAsked
  <2>6. \A i \in 1 .. Len(sinks) : \E j \in 1 .. 5 :
          /\ sinks[i] = [kind |-> Blocks[j], level |-> LevelOf(Blocks[j])]
          /\ j # 5 => Asked(Blocks[j])
          /\ j = 5 => Len(sinks) = 1
    BY <2>1 DEF Made
  <2>7. \A j \in 1 .. 4 : Asked(Blocks[j]) =>
          \E i \in 1 .. Len(sinks) : sinks[i].kind = Blocks[j]
    BY <2>1 DEF Made
  <2>8. ASSUME Requested = {}
        PROVE  sinks = <<[kind |-> "console", level |-> 0]>>
    <3>1. \A j \in 1 .. 4 : ~Asked(Blocks[j])
      BY <2>5, <2>8
    <3>2. 1 \in 1 .. Len(sinks)
      BY <2>1, EmptySeq DEF Made
    <3>3. PICK j \in 1 .. 5 : /\ sinks[1] = [kind |-> Blocks[j], level |-> LevelOf(Blocks[j])]
                              /\ j # 5 => Asked(Blocks[j])
                              /\ j = 5 => Len(sinks) = 1
      BY <2>6, <3>2
    <3>4. j = 5
      BY <3>1, <3>3
    <3>5. Len(sinks) = 1 /\ sinks[1] = [kind |-> "console", level |-> 0]
      BY <3>3, <3>4, BlockNames, LevelIs
    <3> QED
      BY <2>1, <3>5
  <2>9. ASSUME Requested # {}
        PROVE  \A i \in 1 .. Len(sinks) : \E j \in 1 .. 4 :
                 sinks[i] = [kind |-> Blocks[j], level |-> LevelOf(Blocks[j])] /\ Asked(Blocks[j])
    <3>1. PICK o \in Requested : TRUE
      BY <2>9
    <3>2. PICK k \in 1 .. 4 : o.kind = Blocks[k] /\ Asked(Blocks[k])
      BY <2>5, <3>1
    <3>3. PICK m \in 1 .. Len(sinks) : sinks[m].kind = Blocks[k]
      BY <2>7, <3>2
    <3> TAKE i \in 1 .. Len(sinks)
    <3>4. PICK j \in 1 .. 5 : /\ sinks[i] = [kind |-> Blocks[j], level |-> LevelOf(Blocks[j])]
                              /\ j # 5 => Asked(Blocks[j])
                              /\ j = 5 => Len(sinks) = 1
      BY <2>6
    <3>5. j # 5
      <4> SUFFICES ASSUME j = 5 PROVE FALSE
        OBVIOUS
      <4>1. i = m
        <5>1. Len(sinks) = 1
          BY <3>4
        <5> QED
          BY <5>1
      <4>2. Blocks[5] = Blocks[k] /\ 5 \in 1 .. 5 /\ k \in 1 .. 5 /\ k # 5
        BY <3>3, <3>4, <4>1
      <4> QED
        BY <4>2, BlockNames
    <3> QED
      BY <3>4, <3>5
  <2>10. ASSUME Requested # {}
         PROVE  {s.kind : s \in Range(sinks)} = {o.kind : o \in Requested}
    <3>1. ASSUME NEW i \in 1 .. Len(sinks)
          PROVE  \E o \in Requested : sinks[i].kind = o.kind
      <4>1. PICK j \in 1 .. 4 : sinks[i].kind = Blocks[j] /\ Asked(Blocks[j])
        BY <2>9, <2>10
      <4>2. PICK o \in SinkOptions : o.kind = Blocks[j]
        BY <2>5
      <4>3. o \in Requested
        BY <2>5, <4>1, <4>2
      <4> QED
        BY <4>1, <4>2, <4>3
    <3>2. ASSUME NEW o \in Requested
          PROVE  \E i \in 1 .. Len(sinks) : sinks[i].kind = o.kind
      <4>1. PICK j \in 1 .. 4 : o.kind = Blocks[j] /\ Asked(Blocks[j])
        BY <2>5
      <4> QED
        BY <2>7, <4>1
    <3> QED
      BY <2>2, <3>1, <3>2
  <2>11. \A i, j \in 1 .. Len(sinks) : sinks[i].kind = sinks[j].kind => i = j
    BY <2>1 DEF Made
  <2>12. ASSUME Requested # {}, NEW s \in Range(sinks), NEW o \in Requested, s.kind = o.kind
         PROVE  Says(o.level, s.level)
    <3>1. PICK i \in 1 .. Len(sinks) : s = sinks[i]
      BY <2>2
    <3>2. PICK j \in 1 .. 4 : sinks[i] = [kind |-> Blocks[j], level |-> LevelOf(Blocks[j])]
      BY <2>9, <2>12
    <3>3. s.level = LevelOf(o.kind)
      BY <2>12, <3>1, <3>2
    <3> QED
      BY <2>5, <3>3
  <2> QED
    BY <2>1, <2>3, <2>4, <2>8, <2>10, <2>11, <2>12
<1>2. Typed /\ [Next]_vars => Typed'
  BY ParserTypedStep, ServerTypedStep DEF Typed
<1> QED
  BY <1>1, <1>2, WrittenInvariant, TruthyInit, TruthyStep, BuildingInit, BuildingStep, PTL DEF Spec
===============================================================================
