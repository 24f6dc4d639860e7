# scriptor in TLA+

scriptor is a log server: clients connect over unix or tcp sockets and send json
logs, one server process parses them and forwards each one to every logger it was
started with (file, systemd, syslog, event log or console). These modules model the
program as its source has it, check it with TLC on small instances, and prove what
matters most about it with TLAPS for all instances.

Paths below are those of the repository (`src/server.cpp` and so on).

## The system

| Component | Source | State | Operations |
|---|---|---|---|
| Command line | `src/popl.hpp`, `src/scriptor.cpp`, `src/server.h` | `values_` of each option, the members of `Options` | `OptionParser::parse`, `run`'s reaction to it |
| Process | `src/main.cpp`, `src/scriptor.cpp` | `g_signal`, the socket file | `signal_handler`/`stop`, `run` (parse options, remove a stale socket file, construct the server, poll the signal) |
| Server | `src/server.cpp`, `src/server.h` | `m_ioc`, `m_acceptors`, `m_ioc_threads`, `m_loggers` | constructor, `accept` and its handler, `shutdown`, destructor |
| Sockets, acceptors | `src/socket.*`, `src/acceptor.*` | one asio object each | `async_accept`, `async_read_some` |
| Session | `src/session.cpp` | `m_buffer`, `m_processor` | `read` and its handler |
| Processor | `src/session.cpp` | `m_current` | `operator()` |
| Element | `src/element.cpp` | none | `from_json` |
| Logger | `src/logger.cpp` | `m_elements`, `m_done`, `m_mutex`, `m_cv`, the sink | `push`, `worker`, destructor |

How they interact. The constructor of `Server` starts one asynchronous accept per
acceptor and then the io threads, which all run the same `io_context`. The handler of
an accept makes a `Session`, starts its first read, and starts the accepts again. The
handler of a read gives the bytes to the session's `Processor`, which cuts out the
complete logs and makes an `Element` of each; if there are any they are pushed, as
one batch, into each `Logger` in turn, by the io thread that runs the handler; then
the next read is started. Each `Logger` has a thread of its own that swaps the queued
elements out under the mutex and gives them to its sink without it. To stop,
`~Server` stops the `io_context`, joins the io threads, and only then destroys the
loggers, whose destructors set `m_done`, wake their threads and join them.

What is hard about it:

- the condition variable of a logger: a wakeup lost between the test of the
  predicate and the block would leave elements, or the destructor, waiting for ever;
- the hand-over of a logger's elements to its thread: order, and what becomes of a
  batch in which the sink throws, or of elements queued at shutdown;
- byte stream framing: a log may come in several reads, several in one read, and
  bad bytes may come between;
- sessions migrate between io threads without a lock or a strand: they are safe only
  because a session never has two reads outstanding;
- accepts: one is started again on every acceptor for each one that completes, also
  for those that fail; nobody else keeps the `io_context` in work;
- shutdown in the middle of all this, and a constructor that fails half way;
- the command line: an option takes the next argument whatever it is, so what an
  argument is depends on those in front of it; unsigned values wrap; an error stops the
  parser half way, and help competes with it;
- one log: numbers of different widths, in fields of any json type, any of which may
  make the conversion throw after others were converted;
- processes that share a socket path: one is started while another lives, or after
  one crashed; signals that come during the startup.

## The modules

| Module | What it is |
|---|---|
| `LossyQueue` | abstract: what a logger promises. A line that is left from the front only, into the sink or by being discarded. |
| `Logger` | `src/logger.cpp`, one logger |
| `LoggerProofs` | theorems about `Logger` |
| `Session` | `src/session.cpp`, one connection: `Session::read` and `Processor::operator()` |
| `SessionProofs` | theorems about `Session` |
| `FifoBroadcast` | abstract: what the server promises between connections and loggers |
| `Server` | `src/server.cpp`, with the handlers of `src/session.cpp` |
| `ServerProofs` | theorems about `Server`: its life, from the constructor to the destructor |
| `ServerDeliveryProofs` | theorems about `Server`: reads, batches and accepts |
| `Process` | `src/main.cpp`, `src/scriptor.cpp`, the first part of the server's constructor: several processes on one path and port |
| `ProcessProofs` | theorems about `Process` |
| `CommandLine` | `OptionParser::parse` of `src/popl.hpp` with the program's options, `run`'s reaction, and the acceptors and sinks the server's constructor makes of the result |
| `CommandLineProofs` | theorems about `CommandLine` |
| `Element` | `Element::from_json` of `src/element.cpp` and what `Processor` makes of an exception from it |
| `ElementProofs` | theorems about `Element` |
| `Pipeline` | the composition: the sessions' handlers, every logger, and the shutdown through both |
| `PipelineProofs` | theorems about `Pipeline` |
| `MCLogger`, `MCSession`, `MCServer`, `MCProcess`, `MCCommandLine`, `MCElement`, `MCPipeline` | values of the constants for TLC |

### Logger

`mutex`, `done`, `elements` are `m_mutex`, `m_done`, `m_elements`; `batch` and
`count` are the locals of `worker`; `wpc`, `ppc` and `dpc` say where the worker,
each pushing thread and the destructor are. `filtered`, `failed` and `lost` record
what became of elements that did not reach the sink, `threw` whether a call of the sink has thrown
yet; `sent` numbers the elements of each producer. An element is its level, its producer and that number.

`push` is three steps (lock, insert, notify and unlock) because other threads can
act in between. The wait on the condition variable is modelled as the standard
defines it, not as the loop one hopes for: test of the predicate, an atomic
release-and-block, wakeups by `notify_one` or spurious, and the mutex again before
the next test. `~Logger` notifies after it has released the mutex, as the code does.
The sink may throw from `log` and from `flush` if `SinkMayFail`; from the final
flush an exception ends the process (`"aborted"`), since no handler is there.

The two overloads of `push` differ in copying and moving the same elements; one
action stands for both. Memory exhaustion is not modelled.

### Session

The peer writes texts into a byte stream; `Read` takes 1 to `BufferSize` bytes of
it, so every way to cut the stream is explored. `FindOne` is one round of
`find_one`, `PushBatch` the rest of the handler. `pushed`, `received` and `written`
are history. An element keeps the text it was made of and where that stood in the
stream. Which texts `Element::from_json` accepts is a constant (`Json`): `Element` is
about that.

The reference that `Framing` compares with (`IsLog`) speaks of the whole stream and
knows nothing of reads, of `m_current` or of erasing.

### Server

`ready` is the queue of handlers in the `io_context`, `accepting[a]` and `reading[c]`
count operations started and not completed, `thread[t]` is what an io thread is
doing. An operation that completes queues its handler (`AcceptCompletes`,
`AcceptFails`, `ReadCompletes`, `ReadFails`); `RunAccept`, `RunRead` and
`RunReadFailed` take the next handler out; the loops over acceptors and loggers take
a step per turn (`StartAccept`, `Push`), so that other threads run in between.
`owner` follows the thread that constructs and destroys the server, including the
two failures of the constructor's thread loop (`StartFails`, `StoreFails`).
`Init` is the state after `accept()` in the constructor, when no thread runs yet.

A batch is the number of the read that brought it; a read may bring none (no
complete log). A push into a logger is one step here, its inside is `Logger`. The
loggers' queues are therefore histories (`pushed`), and the destruction of a logger
is one step (that it returns, or ends the process, is `DestructionReturns` of `Logger`;
what such an end costs the other loggers is in `Pipeline`).

`AcceptsAccumulate` counts `Outstanding`, `Started`, `InAccept` and the accept handlers
in `ready`. The first two are sets of numbered operations rather than sums, so that the
account can be proved from what is known of cardinalities.

### Process

`pc[p]` follows a process through `main` and `run`, `path` is what lies at the
path of the unix socket, `port` who listens at the tcp port. A command line is what
follows from it: help was asked for, the parser threw, which endpoints it names,
and whether loggers and threads can then be made. The check for the socket file,
its removal and the bind are three steps, as they are three system calls; the two
handlers are installed in two steps, and the reset of `g_signal` is another. A
process that fails, ends or is killed closes its sockets and leaves the path behind.
`heard`, `company` and `contested` are history.

A signal that is handled between the handlers' installation and the reset is
forgotten; the model has that, and `EveryRunSettles` says from where on a signal counts.
With `ExitCodeTellsWhy` it also says that a sound process that is alone gets to serve,
whatever earlier ones left behind.
A second process takes the path from a live one without looking, even if it then
fails: `LatestIsReachable` says who can be reached for how long.

Taken from the platform: a handler stays installed after it ran, as with glibc (where
it is reset, a second signal during the shutdown kills the process); and the socket
file is not something an existence check fails on. `test_scriptor.cpp` calls `run` and
`stop` inside one process; the model has one call of `run` per process.

### CommandLine

An argument is a record of what `parse` tells apart: a long option with or without a
value after `=`, a cluster of short letters, `--`, a number, another word, or nothing;
what follows an option without a value is that option's, as it stands. Each of
`ParseDashDash`, `ParseSwitch`, `ParseValue`, `ParseThrows`, `ParseUnknown`,
`ParseShort` and `ParsePlain` is one turn of the loop; `values` and `options` are the
options' `values_` and the members of `Options` they are bound to. `Convert` has the
widths of the types: a stream reads a negative number into an unsigned type modulo its
width. `PrintHelp` and `Fail` are the end of `run`, the rest is the constructor of
`Server` up to its loggers; the socket file is `Process`'s subject.

The reference the properties compare with (`Taken`, `GivenUpTo`) speaks of the whole
command line and knows nothing of a position in it.

### Element

A log is a record of its fields' values, each with its json type. Numbers, as they are
written, are fractions with a fixed denominator (`Scale`), and widths and units are
constants: TLC runs with an `int` of four bits and a clock of eight, so that every limit
is reached by small numbers.

The code computes a time in doubles, and so does the model: `Double` rounds to the
nearest multiple of a unit that reaches as far (`Units`, `Mantissa`; half of them to the
even one), and `Times` rounds twice, the decimal and its product with a million
(`Micro`), before it truncates. So a log may lose a microsecond that it had: 0.6 s are
two of the run's microseconds, of which there are five in a second, instead of three.
`Stored` is what json has for a number: an integer as it is, and any other as a double.
A double that does not fit the integer type it is converted to is undefined behaviour;
the model takes either end of the range. The parts of a message are in the order they
are formatted in; how they are joined is left out.

### Pipeline

`batch[c]` is what the handler of connection `c` still has to push, `next[c]` the logger
it pushes into next; `queue[l]` and `local[l]` are `m_elements` and the local vector of
a logger's worker. The steps are as coarse as the other modules allow: an insert and a
swap are atomic because `Logger` shows the mutex is held; a session has one handler
because of `OneReadPerSession`; the loggers go after the last handler because of
`NoUseAfterDestruction`. `CloseThrows` is the last flush of a logger when it throws
(`WorkerExitThrows` of `Logger`): it ends the process, and with it what the other loggers
have in hand and in their queues. Unlike the other modules, it says what a client sees: which of its
logs each sink has. `Picked`, the selection of a sequence's elements, is a recursive
function, since the library's `SelectSeq` is out of reach of the proofs.

## What is checked

| Run | Bounds | What it shows |
|---|---|---|
| `logger_failing_sink` | 2 producers, 2 levels, pushes of 1 or 2, 3 elements each, a sink that may throw from any call | `MutualExclusion`, `NoLostWakeup`, `ProducerOrder`, `Conservation` (every element is in exactly one place), `Durability` (flushed when the worker exits, and between batches until the sink has thrown), `LossOnlyAtTheEnd` (until the sink has thrown, only the destructor drops elements, each producer's newest) |
| `logger_liveness` | 2 elements each | `DestructionReturns`, and the refinement of `LossyQueue` with its fairness (whatever is pushed leaves the queue) |
| `logger_shutdown_loss` | 2 elements each | a violation, see below |
| `session_framing` | buffer of 3 bytes, 9 bytes written, six texts good and bad | `Framing`, `HangUpIsReached` |
| `session_brace_in_string` | one 5 byte log | a violation, see below |
| `server_two_acceptors` | 2 threads, 2 acceptors, 2 connections, 2 loggers, 2 reads each, 1 failed accept | `NeverStopsListening`, `AcceptsAccumulate`, `OneReadPerSession`, `AllOrNothing`, `NoUseAfterDestruction`, `EveryConnectionIsServed`, `ShutdownReturns` |
| `server_one_acceptor` | the same with 1 acceptor | `OneAcceptorIsNotShared`, `EveryBatchIsPushed`, the refinement of `FifoBroadcast` |
| `process_restarts` | 2 processes started twice each, 7 command lines, 2 signals or kills | `ExitCodeTellsWhy`, `LatestIsReachable`, `StartsDoNotAllFail`, `EveryRunSettles` |
| `command_line` | every command line of up to 4 of 17 arguments | `AsWritten` (each option has the values written for it), `ThrowsAtFirstBadValue`, `HelpGoesFirst`, `SinksAsAsked` |
| `command_line_double_dash` | up to 2 arguments | a violation, see below |
| `element_from_json` | every field with 424 values while the others are absent or plain, every two fields with 7 types each | `OnlyWrongTypesAreReported`, `TimeIsKept`, `ValuesAreKept` |
| `pipeline_two_sinks` | connections that send 3 and 2 logs in batches of 1 or 2, two sinks with different levels, 1 sink error | `SinkHoldsWhatWasSent`, `SinksCatchUp`, and that every logger in the server is a `LossyQueue` (`ImplementsQueues`) |

The runs of `Logger`, `Session`, `Server`, `Process`, `CommandLine` and `Element` check
the module's `TypeOK` too. `Framing` implies that a bad text costs at most the log
behind it: a text with one end byte, its last, that follows an end byte is a log of the
stream.

Why the bounds are enough. Two producers are what it takes for an insert to race a
swap and another insert; three elements let a batch have a middle, so that an error
or a filtered element has others before and behind it and a further push waits in
`m_elements`. Two levels are the two answers of `should_log`. In `Session` the
smallest log has two bytes and the buffer three, so logs are cut at every place and
reads bring up to one and a half; nine bytes hold a good log, a broken one and
another good one. In `Server` two threads, two sessions and two reads let handlers
of one session run on both threads and overlap with the other session's; a shutdown
may come anywhere. In `Process` two processes race and a second start of either meets
what the first left behind; two disturbances let one be killed and the other
signalled. In `CommandLine` four arguments hold two options that take the
next one as their value, or three that compete for it, with `--`, help or an error
before, between or behind; the values are such that they fit, wrap and are too large. In `Element` numbers reach both ends
of both widths and beyond, with and without fractions; times are all the whole
microseconds of the clock, and numbers next to some of them. Doubles have seven bits
there, so that roundings up and down, before and after the multiplication, all occur:
several times lose a microsecond.
In `Pipeline` one log between two others is below the second sink's level, one batch can
wait in `m_elements` while another is in the worker's hands, and the error comes in
either sink, in a batch or in its last flush while the other sink still has a batch.
`logger_failing_sink` uses its producers as symmetric; the other runs use no symmetry.

Deadlock is checked in every run; a destroyed logger, a dead session, a destroyed
server, a finished conversion, a command line that was dealt with, and processes that all serve or have ended, are allowed to stand still
(`Finished`).

### Fairness

`Logger`: weak fairness of the worker (the sink returns or throws from every call),
of each `push` once it has the mutex, and of the destructor once it has set `m_done`:
the operating system schedules every thread. Nothing obliges a producer to push, the
owner to destroy the logger, or a spurious wakeup to happen. The worker needs no
strong fairness for the mutex in these instances, where pushes are finite in number.

`Session`: weak fairness of the session's own steps: its handlers are run, and the
kernel delivers what was written and then the end of the stream. Errors and the peer
are unconstrained.

`Server`: weak fairness of each io thread, of the owner's steps other than the
shutdown, and of an accept completing once a client waits and an accept is
outstanding. Handlers are queued first in, first out, as asio does, so a thread that
keeps taking handlers reaches each of them. Clients are free. `EveryConnectionIsServed`
and `EveryBatchIsPushed` need an io thread to exist: with `--threads 0`, or where
`hardware_concurrency()` returns 0, the server accepts connections and serves none.

`Process`: weak fairness of each process. Starts, signals and kills are free.

`Pipeline`: weak fairness of each handler's next push (which `EveryBatchIsPushed` of
`Server` justifies), of each logger's worker and of the shutdown once it was begun. The
sessions and the owner are free. `CommandLine` and `Element` are sequential and state
no liveness.

### Where the code and its documentation disagree

- `logger_shutdown_loss` (`README.md:75-76`, "Each log is forwarded to both file and
  systemd"): `worker` looks at `m_done` before it looks at `m_elements`. What was
  pushed since its last swap is dropped. `LossOnlyAtTheEnd` says what still holds:
  with a sink that works, each producer loses only its newest elements, and only to
  the destructor.
- `session_brace_in_string` (`README.md:81-82`): the framing ends a log at its first
  `}`; a valid log with a `}` inside a string is reported as a parse error.
- `command_line_double_dash` (`src/popl.hpp:1003`, "from here on only non opt args"): the
  arguments behind `--` are copied to `non_option_args_`, and then parsed like those in
  front of it, since the loop goes on. `-- --help` prints the help.

No document says what a sink error costs: an exception for one element drops the
elements behind it in the batch. `Conservation` accounts for them, and
`SinkHoldsWhatWasSent` says that no other sink loses anything by it, with one exception:
the flush of a logger that is being destroyed is outside of any `try` block, so that an
exception from it ends the process, whatever the loggers behind it still have to write.

No document says how exactly a time is kept. `TimeIsKept` bounds what the two roundings
of `from_json` change.

What the level of a log may be is documented as 0 to 5; 6 (`off`) passes and is
above every sink's level. `ValuesAreKept` and `TypeOK` of `Element` say that nothing
beyond 6 does.

### Mutants

Each property has a variant of an operation that breaks it, written next to that
operation: a missing notification, a predicate that forgets `m_done`, an insert at
the wrong end, a flush left out, a buffer cleared instead of erased, a read started
too early, an accept not repeated after an error, threads not joined, a value taken for an
option that has one, an exception that empties the wrong logger's batch.

## What is proved

Every invariant that a passing run checks is a theorem too, and so are the safety
properties of steps and the refinements. A run shows it for a small instance, the
theorem for every value of the constants that the module's assumptions allow; what
those are is said below. In a table, `P` stands for `Spec => []P` if `P` is an invariant
or a state predicate, and for `Spec => P` otherwise.

### Logger

`LoggerProofs`, for any set of producers, any levels, pushes of any size and a sink
that may or may not throw. Assumed: the threads are different, the levels are integers.

| Theorem | Of |
|---|---|
| `TypeCorrect` | `TypeOK` |
| `LockInvariant` | `LockInv` |
| `Mutex` | `MutualExclusion` |
| `WakeupsArrive` | `NoLostWakeup` |
| `Order` | `ProducerOrder` |
| `FlushedInTime` | `Durability` |
| `LossIsAtTheEnd` | `LossOnlyAtTheEnd` |
| `NothingVanishes` | `Conservation` |
| `Implementation` | `Queue!Spec`: a logger implements `LossyQueue` |

`MutualExclusion` and `NoLostWakeup` are not inductive alone: that a push notifies a
worker that is not about to block needs the lock, and the lock needs `Phases` (a push
is under way only while the logger lives, so the final flush that throws never leaves
a pusher inside; the local vector is empty outside a batch). `LockInv` is their
conjunction with the types. `ProducerOrder` is strengthened by `Numbered` (no element
on its way has a number its producer has not reached), which makes the elements of a
push come after all others of that producer; removing a stretch from the line
(`RemoveMiddle`) keeps both. `Durability` is strengthened to `Flushed`: until the sink
has thrown, what it holds unflushed is what the worker has counted in the batch in its
hands. `LossOnlyAtTheEnd` is inductive beside the others: the destructor drops what is
left of the queue, which the order of the line (`EndIsLater`) puts behind everything of
the same producer that the sink has; nothing is logged afterwards, since the worker has
exited.

`Conservation` is an equation of numbers, which no step can be shown to keep without
knowing which elements are counted. `Conserved` says that: the elements that are
anywhere have exactly the numbers that were given out (`Named`), no two of them the
same (`Unique`), and each is in one place (`Apart`). The equation then follows from a
bijection between the elements and their numbers (`Counted`).

### Session

`SessionProofs`, for any bytes, texts and json, any buffer and any stream. Assumed:
the start and the end byte are different bytes, texts are not empty, the buffer has a
byte at least.

| Theorem | Of |
|---|---|
| `TypeCorrect` | `TypeOK` |
| `LogsAreFramed` | `Framing` |

`FramingInv` says what `m_current` holds of the stream: its end (`Remainder`), beginning
just behind an end byte or at the beginning of everything (`Boundary`). So no log
reaches from what was erased into what was not (`NoLogAcross`). The elements are logs
of the erased part, in order (`AllAreLogs`), and all of them (`AllLogsAre`); between
reads no log is in `m_current`. The one hard step is `find_one`: that the log from the
last start byte in front of the first end byte is the one log of the part it erases
(`FoundIsLog`). Searches for the first byte of a kind are reasoned about with the least
number of a set (`LeastNumber`).

### Server

`ServerProofs` and `ServerDeliveryProofs`, for any finite set of io threads, any
connections, acceptors and loggers, any number of reads and of failed accepts. Assumed:
there is at least one acceptor and one logger, each connection is made to one of the
acceptors.

| Theorem | Of |
|---|---|
| `TypeCorrect` | `TypeOK` |
| `SafeDestruction` | `NoUseAfterDestruction` |
| `AlwaysListening` | `NeverStopsListening` |
| `SessionsAreNotShared` | `OneReadPerSession` |
| `NothingHalfDelivered` | `AllOrNothing` |
| `Implementation` | `ImplementsFifoBroadcast`: the server implements `FifoBroadcast` |
| `AcceptorIsNotShared` | `OneAcceptorIsNotShared` |
| `AcceptsAreCounted` | `AcceptsAccumulate` |

`NoUseAfterDestruction` is strengthened to `Phases`: every thread that was started is
stored or is the one that could not be, there is none of the latter kind before the
constructor fails, and `stop` has been called before the owner joins. `AlwaysListening`
rests on `Phases` (no thread runs once the server is gone) and on two lemmas about what
a queue holds after an append and a removal; that no thread returns early follows from
the first half, since a server that listens, or is about to, is not out of work.

`OneReadPerSession` is strengthened to `Sessions`: what belongs to a session is in one
place, as a read that was started, a handler that is queued, or a thread (`OneReader`),
and before there is a session there is at most the one handler that will make it
(`Accepted`). That is all that keeps sessions from data races, as they have no strand.

`AllOrNothing` and the refinement rest on `Delivery`, and that on `Sessions`. Of the
batches that came, a logger has all but perhaps the last of each connection
(`Settled`); and where the last one is says which loggers have it (`InFlight`): none as
long as its handler is queued, those in front of the thread's next one while it is
pushed, all once the next read is started. In the refinement every step of the server
that is not a push or the arrival of a batch stutters.

With one acceptor there is one accept (`OneAccept`); with more they accumulate.
`Accounts` holds all accepts, outstanding, queued and in a thread, against the number
of them that were started again. It balances until the server is gone, and each of the
steps adds the same to either side.

### Process

`ProcessProofs`, for any set of processes and of command lines, any number of
restarts, signals and kills. Assumed: there is a command line to start with.

| Theorem | Of |
|---|---|
| `TypeCorrect` | `TypeOK` |
| `ExitCodesAreReasons` | `ExitCodeTellsWhy` |
| `LatestHoldsThePath` | `LatestIsReachable` |
| `SomeStartSucceeds` | `StartsDoNotAllFail` |

`Typed` adds that a live process has been started (`Counted`). `Knows` says at each
point of `run` what has been found out about the command line and the signal, `Listening`
who has the port, `Quiet` that no signal is there that nobody sent. `Alone` is what the
exit code 1 needs: a process that was alone all the time finds no path in its way when
it binds, since it has removed it. `Holds` is what `LatestIsReachable` needs: what a
process that fails, ends or is killed leaves at the path is its own, so it is in nobody
else's way who has bound it. `StartsDoNotAllFail` speaks of the end of a race;
`SomeoneSurvives` speaks of every moment of it: who finds the path or the port taken
was overtaken by another process, which then is the survivor.

### CommandLine

`CommandLineProofs`, for any arguments, any number of them, any widths and platform.
Assumed: arguments and values have the shapes the module gives them, and the default
port and number of threads fit their types.

| Theorem | Of |
|---|---|
| `TypeCorrect` | `TypeOK` |
| `BadValuesAreNotPassedOver` | `ThrowsAtFirstBadValue` |
| `OptionsAreAsWritten` | `AsWritten` |
| `HelpComesFirst` | `HelpGoesFirst` |
| `SinksAreAsAsked` | `SinksAsAsked` |

The properties compare the parser, which goes from left to right, with a reference
that tells from the whole command line which argument is an option's value: one behind
an odd run of options that take one. So the lemmas are about such runs (`Starts`):
behind a plain argument none ends, and behind an option that takes a value its parity
changes (`AfterPlain`, `AfterHungry`, `AfterTaken`). `Control` says that the parser always
stands at an argument that is not a value, with no bad value behind it. `Written` says
that what is stored for an option is what the arguments in front of the parser give
(`Matches`); the reference flattens a sequence of sequences, whose recursive definition is
shown to be unique first (`FlattensOnce`). `Help` follows the option for help in the
same way. `Building` and `Made` say which sinks there are after each block of the server's
constructor; that a switch is on if it was given and a text that was given is not
empty (`Truthy`) connects what the constructor tests with what was written.

### Element

`ElementProofs`, for any set of logs, denominator, doubles, units and widths. Assumed: an
`int` holds 7 and is no wider than 64 bits; `now()` fits its clock; a field has one of the
types of json; and of the distances between doubles, that each is a multiple of the
smaller ones, that half of one is another but for the smallest, that integers up to the
mantissa are doubles (`Scale \in Units`), and that doubles go further than the clock.

| Theorem | Of |
|---|---|
| `TypeCorrect` | `TypeOK` |
| `ReportsAreRight` | `OnlyWrongTypesAreReported` |
| `TimesAreKept` | `TimeIsKept` |
| `NothingElseIsWritten` | `ValuesAreKept` |

None is inductive alone. `Typed` adds that a conversion is only under way for a log
that is json, whose fields then have numbers where they need them (`LoggedType`).
`Progress` says at each point of `from_json` which fields have been found convertible,
and that a log that is given up has one that is not; that what `find_string` throws for
are just the wrong types (`FindStringType`, `ConvertibleTypes`) is the lemma it rests on.
`Sources` says of which field each part of the element was made; the rest is arithmetic.
A rounding is off by half a unit; the half of it that is a unit too does not reach as far
as the number, so this is a part in twice the mantissa, unless the unit is the smallest
(`RoundingError`, `DoubleIsNear`). Two of them, with the factor in between, add up to
`Blur` (`BlurArithmetic`, `MicroIsNear`); none is left of whole seconds (`WholeDouble`),
and what then fits the clock does not wrap (`TicksAreWritten`). A level that does not fit
an `int` never becomes one with a name (`LevelIsWritten`); that needs an `int` that holds
7: in one that ends at 6, the largest level, a number that is too large may become just
that.

### Pipeline

`PipelineProofs`, for any connections and loggers, logs of any levels, batches of any
size and any number of exceptions. Assumed: there is a logger, levels are integers.

| Theorem | Of |
|---|---|
| `EveryLoggerIsAQueue` | `ImplementsQueues`: each logger implements `LossyQueue` |
| `SinksHoldWhatWasSent` | `SinkHoldsWhatWasSent` |

`Phases` says that the loggers go after the last handler, and that one that is gone has
nothing in its hands or its queue; with the types that is enough for the refinement,
whose instance has the logger as a parameter. The step that is not one logger's alone,
the flush that ends the process, closes all the queues at once (`ProcessEnds`).
`SinkHoldsWhatWasSent` is the sum of the project: what a client sent, and what a sink
wrote. It is inductive (`HoldsFor`) once it is known that what a connection sent is what
it had sent before and the batch in hand (`Handed`). The lemmas are about selecting
elements of a sequence: that it distributes over concatenation (`PickedConcat`), and
does nothing where all or none are to be selected.

### How data is reasoned about

The provers have no induction over an operator given as a parameter. Where a proof
needs one, on the length of a sequence or the position in one, it takes the least
number for which the claim fails, from the set of all such numbers (`LeastNumber`,
`Upward`), and refutes it. A recursive function is used through its equation, after
proofs that a function with that equation exists and is unique. Numbers of elements
are those of sets, and change by a bijection or by one element.

### Not proved

- Liveness: `EveryConnectionIsServed`, `EveryBatchIsPushed`, `ShutdownReturns`,
  `EveryRunSettles`, `HangUpIsReached`, `DestructionReturns`, `SinksCatchUp`, and the part
  of `ImplementsLossyQueue` that is fairness. They need `ENABLED`, which the provers lack.
- The runs that expect a violation show an execution of a small instance.

## Not modelled

- Of `src/popl.hpp`: the help text and the completion scripts (formatting), ini files,
  `reset`, inactive and required options, `Implicit` values and short options with
  values. The program uses none of them but the help text, which changes no state.
- The example clients, the build and the service file.
- In `Element`: numbers beyond the largest double (`1e999`, for which the json parser or
  `std::stod` throws), and numerals that `std::stod` and `std::stoi` read differently (`"1e3"`), and
  the text of a message. `operator==` is used by tests only.
- spdlog's sinks beyond accepting, throwing and being flushed; log rotation; asio
  beyond what is said above. What other programs do to the socket file.
- Memory exhaustion, and the size of the unbounded buffers (`m_elements`,
  `m_current`): the code has no bound to state.

## Plan

Every safety property of the runs is proved. What would add to that:

1. `Pipeline` takes from `Logger` and `Server` that their steps are atomic and in which
   order things go; that it is an abstraction of both can be stated as a refinement,
   as `ImplementsQueues` and `ImplementsFifoBroadcast` are.
2. The proofs of `Server` and `CommandLine` are the longest. What several of them use
   about queues and sequences can be put into lemmas of a module of its own.
