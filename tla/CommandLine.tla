----------------------------- MODULE CommandLine -----------------------------
(***************************************************************************)
(* From the command line to the sinks: OptionParser::parse (src/popl.hpp)  *)
(* over the options run adds (src/scriptor.cpp:33-115), the members of     *)
(* Options (src/server.h) they are bound to, run's reaction to what the    *)
(* parser did, and the choice of acceptors and sinks in the server's       *)
(* constructor (src/server.cpp:22-95).                                     *)
(*                                                                         *)
(* An argument is a record of what parse tells apart.  As the value of the *)
(* option before it any argument is taken as it stands.                    *)
(***************************************************************************)
EXTENDS Integers, Sequences, SequencesExt

CONSTANTS
  Arguments,        \* what argv may hold
  MaxArguments,     \* bound: the length of argv
  Platform,         \* what the program is built for
  PortMax, SizeMax, \* the largest port_type and size_t
  IntMax,           \* the largest int
  HardwareThreads   \* std::thread::hardware_concurrency()

ASSUME PlatformAssumption == Platform \in {"linux", "windows", "other"}
ASSUME WidthAssumption ==
  /\ PortMax \in Nat /\ SizeMax \in Nat /\ IntMax \in Nat
  /\ 12345 <= PortMax /\ 3 <= SizeMax /\ HardwareThreads \in 0 .. SizeMax

-------------------------------------------------------------------------------
(* Arguments.                                                              *)

Empty == [kind |-> "empty"]
Name(s) == [kind |-> "name", text |-> s]      \* a word that is not a number
Number(n) == [kind |-> "number", n |-> n]
DashDash == [kind |-> "dashes"]
(* "--name", or "--name=value" if the value is not empty ("--name=" is     *)
(* taken like "--name").                                                   *)
Long(s, value) == [kind |-> "long", name |-> s, value |-> value]
(* "-" and a cluster of letters: how many of them are h, and whether there *)
(* are others.                                                             *)
Short(h, others) == [kind |-> "short", h |-> h, others |-> others]

(* What may stand as a value: an argument, or what follows its "=".        *)
Words == Arguments \cup {a.value : a \in {b \in Arguments : b.kind = "long"}}

ASSUME ArgumentAssumption == \A w \in Words :
  \/ w.kind \in {"empty", "dashes"} /\ w = [kind |-> w.kind]
  \/ w.kind = "name" /\ w = Name(w.text)
  \/ w.kind = "number" /\ w = Number(w.n) /\ w.n \in Int
  \/ w.kind = "long" /\ w = Long(w.name, w.value)
  \/ w.kind = "short" /\ w = Short(w.h, w.others) /\ w.h \in Nat /\ w.others \in BOOLEAN

IsShort(a) == a.kind = "short" \/ (a.kind = "number" /\ a.n < 0)
IsPlain(a) == a.kind \in {"empty", "name"} \/ (a.kind = "number" /\ a.n >= 0)
HelpLetters(a) == IF a.kind = "short" THEN a.h ELSE 0
HasOtherLetters(a) == IF a.kind = "short" THEN a.others ELSE TRUE

-------------------------------------------------------------------------------
(* The options.                                                            *)

Switches == {"help", "systemd_logging", "syslog_logging", "eventlog_logging"}
Texts == {"socket_file", "socket_address", "identity", "filelog_filename"}
Sizes == {"threads", "filelog_max_files"}
Unsigned == Sizes \cup {"socket_port"}
Reals == {"filelog_max_file_mb"}
Levels == {"filelog_level", "systemd_level", "syslog_level", "eventlog_level"}
Names == Switches \cup Texts \cup Unsigned \cup Reals \cup Levels
Members == Names \ {"help"}

Largest(name) == IF name = "socket_port" THEN PortMax ELSE SizeMax

Default(name) ==
  IF name \in Switches THEN FALSE ELSE
  CASE name \in Levels -> 0
    [] name = "identity" -> Name("scriptor")
    [] name \in Texts \ {"identity"} -> Empty
    [] name = "socket_port" -> 12345
    [] name = "threads" -> HardwareThreads
    [] name = "filelog_max_files" -> 3
    [] name = "filelog_max_file_mb" -> 10

VARIABLES
  argv,        \* the arguments, without the program's name
  n,           \* parse's n: the argument it is at
  pc,          \* where run is
  values,      \* values_ of each option
  options,     \* the members of Options the options are bound to
  nonOptions,  \* non_option_args_
  unknown,     \* unknown_options_
  acceptors,   \* the acceptors made, in order
  block,       \* the next of the constructor's blocks that may make a sink
  sinks        \* the sinks made, in order

parserVars == <<n, values, options, nonOptions, unknown>>
serverVars == <<acceptors, block, sinks>>
vars == <<argv, pc, parserVars, serverVars>>

Init ==
  /\ argv \in UNION {[1 .. k -> Arguments] : k \in 0 .. MaxArguments}
  /\ n = 1
  /\ pc = "parse"
  /\ values = [name \in Names |-> <<>>]
  /\ options = [name \in Members |-> Default(name)]
  /\ nonOptions = <<>>
  /\ unknown = <<>>
  /\ acceptors = <<>>
  /\ block = 1
  /\ sinks = <<>>

-------------------------------------------------------------------------------
(* Values.  Where an operation is preceded by a variant of itself, the     *)
(* variant is a defect for mutation testing.                               *)

(* What Value<T>::parse takes for a T; for all the rest it throws.  A      *)
(* stream reads a negative number into an unsigned type, modulo its width, *)
(* unless its magnitude is too large for it.                               *)
AcceptsText(name, w) == w # Empty
AcceptsUnsigned(name, w) == w.kind = "number" /\ w.n \in -Largest(name) .. Largest(name)
AcceptsInt(name, w) == w.kind = "number" /\ w.n \in -IntMax - 1 .. IntMax
Accepts(name, w) ==
  \/ name \in Texts /\ AcceptsText(name, w)
  \/ name \in Unsigned /\ AcceptsUnsigned(name, w)
  \/ name \in Levels /\ AcceptsInt(name, w)
  \/ name \in Reals /\ w.kind = "number"

ConvertSigned(name, w) == IF name \in Texts THEN w ELSE w.n
Convert(name, w) ==
  CASE name \in Texts -> w
    [] name \in Unsigned -> w.n % (Largest(name) + 1)
    [] name \in Levels \cup Reals -> w.n

\* update_reference: the last value there is.
LastValue(seq) == seq[Len(seq)]

AddValues(name, new) ==
  /\ values' = [values EXCEPT ![name] = @ \o new]
  /\ options' = [m \in Members |->
                    IF m = name /\ new # <<>> THEN LastValue(values'[m]) ELSE options[m]]

-------------------------------------------------------------------------------
(* OptionParser::parse, one argument a step.                               *)

Parsing == pc = "parse" /\ n <= Len(argv)
Arg == argv[n]
AtLong == Parsing /\ Arg.kind = "long"

\* The rest is copied, and the loop goes on with it.
ParseDashDash ==
  /\ Parsing /\ Arg = DashDash
  /\ nonOptions' = nonOptions \o SubSeq(argv, n + 1, Len(argv))
  /\ n' = n + 1
  /\ UNCHANGED <<argv, pc, values, options, unknown, serverVars>>

ParseSwitch ==
  /\ AtLong /\ Arg.name \in Switches /\ Arg.value = Empty
  /\ AddValues(Arg.name, <<TRUE>>)
  /\ n' = n + 1
  /\ UNCHANGED <<argv, pc, nonOptions, unknown, serverVars>>

\* Without a value of its own the option takes the next argument, if any.
TakesAlways == n < Len(argv)
TakesNext == Arg.value = Empty /\ n < Len(argv)
OptArg == IF TakesNext THEN argv[n + 1] ELSE Arg.value

AtValue == AtLong /\ Arg.name \in Names \ Switches

ParseValue ==
  /\ AtValue
  /\ Accepts(Arg.name, OptArg)
  /\ AddValues(Arg.name, <<Convert(Arg.name, OptArg)>>)
  /\ n' = IF TakesNext THEN n + 2 ELSE n + 1
  /\ UNCHANGED <<argv, pc, nonOptions, unknown, serverVars>>

BadValueIgnored ==
  /\ AtValue
  /\ ~Accepts(Arg.name, OptArg)
  /\ n' = n + 1
  /\ UNCHANGED <<argv, pc, values, options, nonOptions, unknown, serverVars>>
ParseThrows ==
  /\ AtValue
  /\ ~Accepts(Arg.name, OptArg)
  /\ pc' = "thrown"
  /\ UNCHANGED <<argv, parserVars, serverVars>>

\* No such option, or a switch that was given a value.
ParseUnknown ==
  /\ AtLong
  /\ Arg.name \notin Names \/ (Arg.name \in Switches /\ Arg.value # Empty)
  /\ unknown' = Append(unknown, Arg)
  /\ n' = n + 1
  /\ UNCHANGED <<argv, pc, values, options, nonOptions, serverVars>>

\* Letter by letter; -h is the only short option, and a switch.
ParseShort ==
  /\ Parsing /\ IsShort(Arg)
  /\ AddValues("help", [i \in 1 .. HelpLetters(Arg) |-> TRUE])
  /\ unknown' = IF HasOtherLetters(Arg) THEN Append(unknown, Arg) ELSE unknown
  /\ n' = n + 1
  /\ UNCHANGED <<argv, pc, nonOptions, serverVars>>

ParsePlain ==
  /\ Parsing /\ IsPlain(Arg)
  /\ nonOptions' = Append(nonOptions, Arg)
  /\ n' = n + 1
  /\ UNCHANGED <<argv, pc, values, options, unknown, serverVars>>

\* None of the options is a required one, so nothing is missing.
ParseEnds ==
  /\ pc = "parse" /\ n > Len(argv)
  /\ pc' = "parsed"
  /\ UNCHANGED <<argv, parserVars, serverVars>>

-------------------------------------------------------------------------------
(* run, and the constructor of the server.                                 *)

HelpOnlyIfParsed == pc = "parsed" /\ values["help"] # <<>>
HelpIsAsked == values["help"] # <<>>

\* Looked at after the parser returned, and again if it has thrown.
PrintHelp ==
  /\ pc \in {"parsed", "thrown"} /\ HelpIsAsked
  /\ pc' = "helped"
  /\ UNCHANGED <<argv, parserVars, serverVars>>

Fail ==
  /\ pc = "thrown" /\ ~HelpIsAsked
  /\ pc' = "failed"
  /\ UNCHANGED <<argv, parserVars, serverVars>>

Endpoints ==
  (IF options["socket_file"] # Empty THEN <<"unix">> ELSE <<>>)
    \o (IF options["socket_address"] # Empty THEN <<"tcp">> ELSE <<>>)

MakeAcceptors ==
  /\ pc = "parsed" /\ ~HelpIsAsked
  /\ Endpoints # <<>>
  /\ acceptors' = Endpoints
  /\ pc' = "sinks"
  /\ UNCHANGED <<argv, parserVars, block, sinks>>

\* No endpoint is given, or one of them cannot be listened at; an acceptor
\* that was made closes again.
AcceptorsFail ==
  /\ pc = "parsed" /\ ~HelpIsAsked
  /\ pc' = "failed"
  /\ UNCHANGED <<argv, parserVars, serverVars>>

Blocks == <<"file", "systemd", "syslog", "eventlog", "console">>

Asked(kind) ==
  CASE kind = "file" -> options["filelog_filename"] # Empty
    [] kind = "systemd" -> Platform = "linux" /\ options["systemd_logging"]
    [] kind = "syslog" -> Platform = "linux" /\ options["syslog_logging"]
    [] kind = "eventlog" -> Platform = "windows" /\ options["eventlog_logging"]
    [] kind = "console" -> sinks = <<>>

LevelNeighbour(kind) ==
  CASE kind = "syslog" -> options["systemd_level"]
    [] kind = "console" -> 0
    [] OTHER -> options["filelog_level"]
LevelOf(kind) ==
  CASE kind = "file" -> options["filelog_level"]
    [] kind = "systemd" -> options["systemd_level"]
    [] kind = "syslog" -> options["syslog_level"]
    [] kind = "eventlog" -> options["eventlog_level"]
    [] kind = "console" -> 0

AtBlock == pc = "sinks" /\ block <= Len(Blocks)

MakeSink ==
  /\ AtBlock /\ Asked(Blocks[block])
  /\ sinks' = Append(sinks, [kind |-> Blocks[block], level |-> LevelOf(Blocks[block])])
  /\ block' = block + 1
  /\ UNCHANGED <<argv, pc, parserVars, acceptors>>

SkipSink ==
  /\ AtBlock /\ ~Asked(Blocks[block])
  /\ block' = block + 1
  /\ UNCHANGED <<argv, pc, parserVars, acceptors, sinks>>

\* A sink that cannot be made takes everything made so far with it.
SinkFails ==
  /\ AtBlock /\ Asked(Blocks[block])
  /\ pc' = "failed"
  /\ acceptors' = <<>> /\ sinks' = <<>>
  /\ UNCHANGED <<argv, parserVars, block>>

Serve ==
  /\ pc = "sinks" /\ block > Len(Blocks)
  /\ pc' = "serving"
  /\ UNCHANGED <<argv, parserVars, serverVars>>

Finished == pc \in {"helped", "failed", "serving"} /\ UNCHANGED vars

Parse ==
  \/ ParseDashDash \/ ParseSwitch \/ ParseValue \/ ParseThrows \/ ParseUnknown
  \/ ParseShort \/ ParsePlain \/ ParseEnds

Construct == MakeAcceptors \/ AcceptorsFail \/ MakeSink \/ SkipSink \/ SinkFails \/ Serve

Next == Parse \/ PrintHelp \/ Fail \/ Construct \/ Finished

Spec == Init /\ [][Next]_vars

-------------------------------------------------------------------------------
(* What a command line means, said of argv as a whole.  An option with a   *)
(* value that is not given with "=" is hungry.  Whoever follows a run of   *)
(* hungry options is taken as a value, or is not, by the run's length.     *)

IsLong(a) == a.kind = "long"
Valued(a) == IsLong(a) /\ a.name \in Names \ Switches
Hungry(i) == Valued(argv[i]) /\ argv[i].value = Empty

Taken(i) ==
  \E j \in 1 .. i - 1 :
    /\ \A k \in j .. i - 1 : Hungry(k)
    /\ j = 1 \/ ~Hungry(j - 1)
    /\ (i - j) % 2 = 1

ValueAt(i) == IF Hungry(i) /\ i < Len(argv) THEN argv[i + 1] ELSE argv[i].value
BadAt(i) == ~Taken(i) /\ Valued(argv[i]) /\ ~Accepts(argv[i].name, ValueAt(i))
Clean(m) == \A i \in 1 .. m : ~BadAt(i)

(* What argument i gives to an option: nothing, a value, or some.          *)
Gives(a, value, name) ==
  CASE Valued(a) /\ a.name = name -> <<value>>
    [] a = Long(name, Empty) /\ name \in Switches -> <<TRUE>>
    [] IsShort(a) /\ name = "help" -> [k \in 1 .. HelpLetters(a) |-> TRUE]
    [] OTHER -> <<>>

Given(name, i) == IF Taken(i) THEN <<>> ELSE Gives(argv[i], ValueAt(i), name)

GivenUpTo(name, m) == FlattenSeq([i \in 1 .. m |-> Given(name, i)])

(* A value means itself; a negative number given to an unsigned option is  *)
(* the number of that type it is congruent to.                             *)
Means(name, w, v) ==
  IF name \in Texts \cup Switches THEN v = w
  ELSE \/ v = w.n
       \/ name \in Unsigned /\ w.n < 0 /\ v = w.n + Largest(name) + 1

(* Properties.                                                             *)

Types(name) ==
  CASE name \in Switches -> BOOLEAN
    [] name \in Texts -> {Empty, Name("scriptor")} \cup Words
    [] name \in Unsigned -> 0 .. Largest(name)
    [] name \in Levels -> -IntMax - 1 .. IntMax
    [] name \in Reals -> Int

(* Every variable keeps its type; the numbers fit the members of Options   *)
(* (src/server.h:14-31) they are assigned to.                              *)
TypeOK ==
  /\ argv \in Seq(Arguments)
  /\ n \in 1 .. Len(argv) + 1
  /\ pc \in {"parse", "parsed", "thrown", "helped", "failed", "sinks", "serving"}
  /\ \A name \in Names : values[name] \in Seq(Types(name))
  /\ \A name \in Members : options[name] \in Types(name)
  /\ nonOptions \in Seq(Arguments) /\ unknown \in Seq(Arguments)
  /\ acceptors \in Seq({"unix", "tcp"})
  /\ block \in 1 .. Len(Blocks) + 1
  /\ \A s \in Range(sinks) : s.kind \in Range(Blocks) /\ s.level \in -IntMax - 1 .. IntMax

(* Whatever stands between and around them, each option gets the values    *)
(* the arguments before n give it, in their order, and its member of       *)
(* Options holds the last of them or the default; no argument is read both *)
(* as an option and as the value of another (popl.hpp:1007-1040).          *)
AsWritten ==
  /\ n <= Len(argv) => ~Taken(n)
  /\ \A name \in Names :
       LET given == GivenUpTo(name, n - 1) IN
       /\ Len(values[name]) = Len(given)
       /\ \A k \in 1 .. Len(given) : Means(name, given[k], values[name][k])
       /\ name \in Members =>
            options[name] = IF given = <<>> THEN Default(name) ELSE values[name][Len(given)]

(* The parser throws at the first value that is not of its option's type,  *)
(* and only there: nothing behind it has had an effect, and a bad value is *)
(* never passed over.                                                      *)
ThrowsAtFirstBadValue ==
  /\ Clean(n - 1)
  /\ pc = "thrown" => BadAt(n)
  /\ pc \in {"parsed", "sinks", "serving"} => Clean(Len(argv))

AsksForHelp == \E i \in 1 .. Len(argv) : Given("help", i) # <<>> /\ Clean(i)

(* Help that is asked for in front of the first bad value is printed, and  *)
(* nothing else is done, whatever is wrong behind it; a -h or --help that  *)
(* is the value of another option is none (src/scriptor.cpp:117-121,       *)
(* 134-140).                                                               *)
HelpGoesFirst ==
  /\ pc = "helped" => AsksForHelp /\ acceptors = <<>> /\ sinks = <<>>
  /\ pc \in {"failed", "sinks", "serving"} => ~AsksForHelp

(* The value v is what argv says of an option, or says nothing of.         *)
Says(name, v) ==
  LET given == GivenUpTo(name, Len(argv)) IN
  IF given = <<>> THEN v = Default(name) ELSE Means(name, given[Len(given)], v)

SinkOptions ==
  { [kind |-> "file",     option |-> "filelog_filename", level |-> "filelog_level",
     on |-> {"linux", "windows", "other"}],
    [kind |-> "systemd",  option |-> "systemd_logging",  level |-> "systemd_level",
     on |-> {"linux"}],
    [kind |-> "syslog",   option |-> "syslog_logging",   level |-> "syslog_level",
     on |-> {"linux"}],
    [kind |-> "eventlog", option |-> "eventlog_logging", level |-> "eventlog_level",
     on |-> {"windows"}] }

Requested == {o \in SinkOptions : Platform \in o.on /\ GivenUpTo(o.option, Len(argv)) # <<>>}

(* A server that serves listens at an endpoint argv names, and has exactly *)
(* the sinks argv asks for, each with the level that was written for it;   *)
(* and one for the console, of the lowest level, if and only if there is   *)
(* no other, also when only kinds were asked for that the platform does    *)
(* not have (src/server.cpp:22-95).                                        *)
SinksAsAsked ==
  pc = "serving" =>
    /\ acceptors # <<>>
    /\ "unix" \in Range(acceptors) <=> GivenUpTo("socket_file", Len(argv)) # <<>>
    /\ "tcp" \in Range(acceptors) <=> GivenUpTo("socket_address", Len(argv)) # <<>>
    /\ Requested = {} => sinks = <<[kind |-> "console", level |-> 0]>>
    /\ Requested # {} =>
         /\ {s.kind : s \in Range(sinks)} = {o.kind : o \in Requested}
         /\ \A i, j \in 1 .. Len(sinks) : sinks[i].kind = sinks[j].kind => i = j
         /\ \A s \in Range(sinks), o \in Requested : s.kind = o.kind => Says(o.level, s.level)

(* Said of the program by a comment, and not what it does: "from here on   *)
(* only non opt args" (popl.hpp:1003).  What follows a "--" that is not    *)
(* itself the value of an option sets no option.                           *)
NothingIsParsedAfterDashDash ==
  \A i \in 1 .. Len(argv) :
    argv[i] = DashDash /\ ~Taken(i) =>
      \A name \in Names : Len(values[name]) <= Len(GivenUpTo(name, i))
===============================================================================
