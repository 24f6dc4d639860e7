------------------------------- MODULE Process -------------------------------
(***************************************************************************)
(* The life of scriptor processes (src/main.cpp, src/scriptor.cpp) from    *)
(* start to exit, and the constructor of the server as far as it takes     *)
(* things other processes can see: the path of the unix socket, and the    *)
(* tcp port (src/server.cpp:22-41).                                        *)
(*                                                                         *)
(* All processes are given the same path and port.  Of the kernel is       *)
(* modelled: a path that exists cannot be bound, closing a socket leaves   *)
(* its path behind, a port has one listener, and a signal that has no      *)
(* handler ends the process.                                               *)
(***************************************************************************)
EXTENDS Integers

CONSTANTS
  Processes,
  None,            \* in port: nobody listens
  Commands,        \* the command lines, as what follows from them
  MaxRuns,         \* bound: how often each process is started
  MaxDisturbances  \* bound: signals sent, and kills

SIGINT == 2
SIGTERM == 15
Signals == {SIGINT, SIGTERM}

(* How a run ended: by returning an exit code, by a signal without a       *)
(* handler; or it has not.                                                 *)
NotEnded == -1
Killed == 128

Command == [help : BOOLEAN,     \* -h was parsed
            invalid : BOOLEAN,  \* then the parser threw
            file : BOOLEAN,     \* socket_file is given
            address : BOOLEAN,  \* socket_address is given
            works : BOOLEAN]    \* the loggers and threads can be made

ASSUME ProcessAssumption == None \notin Processes
ASSUME CommandAssumption == Commands \subseteq Command /\ Commands # {}
ASSUME RunAssumption == MaxRuns \in Nat /\ MaxDisturbances \in Nat

VARIABLES
  pc,        \* where each process is
  run,       \* how often it was started
  cmd,       \* its command line
  caught,    \* the signals it has a handler for
  g_signal,  \* g_signal, 0 or a signal
  code,      \* how its last run ended: an exit code, or Killed
  path,      \* what is at the path of the unix socket
  port,      \* who listens at the tcp port
  heard,     \* history: a signal was handled since g_signal was reset
  company,   \* history: another process was alive during this run
  contested, \* history: since this process has bound the path, or just
             \* before, another one was about to
  disturbances

processVars == <<run, cmd, caught, code>>
worldVars == <<path, port>>
historyVars == <<heard, company, contested, disturbances>>
vars == <<pc, processVars, g_signal, worldVars, historyVars>>

Nothing == [kind |-> "nothing"]
File == [kind |-> "file"]                  \* or an empty directory
FullDirectory == [kind |-> "directory"]
SocketOf(p, n) == [kind |-> "socket", by |-> p, run |-> n]

Init ==
  /\ pc = [p \in Processes |-> "off"]
  /\ run = [p \in Processes |-> 0]
  /\ cmd = [p \in Processes |-> CHOOSE c \in Commands : TRUE]
  /\ caught = [p \in Processes |-> {}]
  /\ g_signal = [p \in Processes |-> 0]
  /\ code = [p \in Processes |-> NotEnded]
  /\ path \in {Nothing, File, FullDirectory}
  /\ port = None
  /\ heard = [p \in Processes |-> FALSE]
  /\ company = [p \in Processes |-> FALSE]
  /\ contested = [p \in Processes |-> FALSE]
  /\ disturbances = 0

Alive(p) == pc[p] # "off"
GoTo(p, label) == pc' = [pc EXCEPT ![p] = label]

(* The process is gone, and the kernel closes what it had open.            *)
Leave(p, how) ==
  /\ GoTo(p, "off")
  /\ code' = [code EXCEPT ![p] = how]
  /\ port' = IF port = p THEN None ELSE port

-------------------------------------------------------------------------------
(* main                                                                    *)

Start(p) ==
  /\ pc[p] = "off" /\ run[p] < MaxRuns
  /\ GoTo(p, "main")
  /\ run' = [run EXCEPT ![p] = @ + 1]
  /\ \E c \in Commands : cmd' = [cmd EXCEPT ![p] = c]
  /\ caught' = [caught EXCEPT ![p] = {}]
  /\ g_signal' = [g_signal EXCEPT ![p] = 0]
  /\ code' = [code EXCEPT ![p] = NotEnded]
  /\ heard' = [heard EXCEPT ![p] = FALSE]
  /\ contested' = [contested EXCEPT ![p] = FALSE]
  /\ company' = [q \in Processes |->
       IF q = p THEN \E r \in Processes : Alive(r) ELSE company[q] \/ Alive(q)]
  /\ UNCHANGED <<worldVars, disturbances>>

InstallInt(p) ==
  /\ pc[p] = "main"
  /\ caught' = [caught EXCEPT ![p] = @ \cup {SIGINT}]
  /\ GoTo(p, "main term")
  /\ UNCHANGED <<run, cmd, code, g_signal, worldVars, historyVars>>

InstallTerm(p) ==
  /\ pc[p] = "main term"
  /\ caught' = [caught EXCEPT ![p] = @ \cup {SIGTERM}]
  /\ GoTo(p, "reset")
  /\ UNCHANGED <<run, cmd, code, g_signal, worldVars, historyVars>>

-------------------------------------------------------------------------------
(* run                                                                     *)

ResetSignal(p) ==
  /\ pc[p] = "reset"
  /\ g_signal' = [g_signal EXCEPT ![p] = 0]
  /\ GoTo(p, "options")
  /\ UNCHANGED <<processVars, worldVars, historyVars>>

\* Help is printed, with exit code 0, also if a later option is invalid.
ParseOptions(p) ==
  /\ pc[p] = "options"
  /\ \/ cmd[p].help /\ Leave(p, 0)
     \/ ~cmd[p].help /\ cmd[p].invalid /\ Leave(p, 1)
     \/ ~cmd[p].help /\ ~cmd[p].invalid /\ GoTo(p, "check") /\ UNCHANGED <<code, port>>
  /\ UNCHANGED <<run, cmd, caught, g_signal, path, historyVars>>

(* Where an operation is preceded by a variant of itself, the variant is a *)
(* defect for mutation testing.                                            *)
OnlyFiles == path = File
OnlySockets == path.kind = "socket"
Exists == path # Nothing

CheckFile(p) ==
  /\ pc[p] = "check"
  /\ GoTo(p, IF cmd[p].file /\ Exists THEN "remove" ELSE "bind unix")
  /\ contested' = [q \in Processes |-> contested[q] \/ (q # p /\ Alive(q) /\ cmd[p].file)]
  /\ UNCHANGED <<processVars, g_signal, worldVars, heard, company, disturbances>>

\* Whatever is there now, if anything: nobody looks whose socket it is.
RemoveFile(p) ==
  /\ pc[p] = "remove"
  /\ IF path = FullDirectory
       THEN Leave(p, 1) /\ UNCHANGED path
       ELSE GoTo(p, "bind unix") /\ path' = Nothing /\ UNCHANGED <<code, port>>
  /\ UNCHANGED <<run, cmd, caught, g_signal, historyVars>>

AboutToBind(p) == cmd[p].file /\ pc[p] \in {"remove", "bind unix"}

BindUnix(p) ==
  /\ pc[p] = "bind unix"
  /\ IF cmd[p].file
       THEN IF path # Nothing
              THEN Leave(p, 1) /\ UNCHANGED <<path, contested>>
              ELSE /\ path' = SocketOf(p, run[p])
                   /\ contested' = [contested EXCEPT ![p] =
                        \E q \in Processes \ {p} : AboutToBind(q)]
                   /\ GoTo(p, "bind tcp") /\ UNCHANGED <<code, port>>
       ELSE GoTo(p, "bind tcp") /\ UNCHANGED <<code, worldVars, contested>>
  /\ UNCHANGED <<run, cmd, caught, g_signal, heard, company, disturbances>>

BindTcp(p) ==
  /\ pc[p] = "bind tcp"
  /\ \/ /\ cmd[p].address /\ port = None
        /\ port' = p
        /\ GoTo(p, "loggers") /\ UNCHANGED code
     \/ cmd[p].address /\ port # None /\ Leave(p, 1)
     \/ ~cmd[p].address /\ cmd[p].file /\ GoTo(p, "loggers") /\ UNCHANGED <<code, port>>
     \/ ~cmd[p].address /\ ~cmd[p].file /\ Leave(p, 1)
  /\ UNCHANGED <<run, cmd, caught, g_signal, path, historyVars>>

\* The reset comes as late as possible.
ServeAfresh(p) == g_signal' = [g_signal EXCEPT ![p] = 0]
Serve(p) == UNCHANGED g_signal

\* What fails here has taken the path already, and leaves it behind.
MakeLoggersAndThreads(p) ==
  /\ pc[p] = "loggers"
  /\ IF cmd[p].works THEN GoTo(p, "serving") /\ UNCHANGED <<code, port>> ELSE Leave(p, 1)
  /\ Serve(p)
  /\ UNCHANGED <<run, cmd, caught, path, historyVars>>

Poll(p) ==
  /\ pc[p] = "serving" /\ g_signal[p] # 0
  /\ GoTo(p, "destroying")
  /\ UNCHANGED <<processVars, g_signal, worldVars, historyVars>>

SignalAsCode(p) == g_signal[p]
Success(p) == 0
Unlinked == IF path.kind = "socket" THEN Nothing ELSE path
PathAfterStop == path

Destroy(p) ==
  /\ pc[p] = "destroying"
  /\ Leave(p, Success(p))
  /\ path' = PathAfterStop
  /\ UNCHANGED <<run, cmd, caught, g_signal, historyVars>>

-------------------------------------------------------------------------------
(* The world outside.                                                      *)

PastReset(p) == Alive(p) /\ pc[p] \notin {"main", "main term", "reset"}

SendSignal(p, s) ==
  /\ Alive(p) /\ disturbances < MaxDisturbances
  /\ disturbances' = disturbances + 1
  /\ IF s \in caught[p]
       THEN /\ g_signal' = [g_signal EXCEPT ![p] = s]
            /\ heard' = [heard EXCEPT ![p] = @ \/ PastReset(p)]
            /\ UNCHANGED <<pc, code, port>>
       ELSE Leave(p, Killed) /\ UNCHANGED <<g_signal, heard>>
  /\ UNCHANGED <<run, cmd, caught, path, company, contested>>

Kill(p) ==
  /\ Alive(p) /\ disturbances < MaxDisturbances
  /\ disturbances' = disturbances + 1
  /\ Leave(p, Killed)
  /\ UNCHANGED <<run, cmd, caught, g_signal, path, heard, company, contested>>

-------------------------------------------------------------------------------
Step(p) ==
  \/ InstallInt(p) \/ InstallTerm(p)
  \/ ResetSignal(p) \/ ParseOptions(p) \/ CheckFile(p) \/ RemoveFile(p)
  \/ BindUnix(p) \/ BindTcp(p) \/ MakeLoggersAndThreads(p)
  \/ Poll(p) \/ Destroy(p)

Finished == (\A p \in Processes : pc[p] \in {"off", "serving"}) /\ UNCHANGED vars

Next ==
  \/ \E p \in Processes : Start(p) \/ Step(p) \/ Kill(p)
  \/ \E p \in Processes, s \in Signals : SendSignal(p, s)
  \/ Finished

Spec == Init /\ [][Next]_vars

(* The operating system schedules every process.  Nobody has to start one, *)
(* or to signal or kill it.                                                *)
FairSpec == Spec /\ \A p \in Processes : WF_vars(Step(p))

-------------------------------------------------------------------------------
(* Properties.                                                             *)

Labels ==
  {"off", "main", "main term", "reset", "options", "check", "remove", "bind unix",
   "bind tcp", "loggers", "serving", "destroying"}

(* Every variable keeps its type; the exit codes of run                    *)
(* (src/scriptor.cpp:120-154) are 0 and 1.                                 *)
TypeOK ==
  /\ pc \in [Processes -> Labels]
  /\ run \in [Processes -> 0 .. MaxRuns]
  /\ cmd \in [Processes -> Commands]
  /\ caught \in [Processes -> SUBSET Signals]
  /\ g_signal \in [Processes -> {0} \cup Signals]
  /\ code \in [Processes -> {NotEnded, Killed, 0, 1}]
  /\ path \in {Nothing, File, FullDirectory}
       \cup {SocketOf(p, n) : p \in Processes, n \in 1 .. MaxRuns}
  /\ port \in Processes \cup {None}
  /\ heard \in [Processes -> BOOLEAN]
  /\ company \in [Processes -> BOOLEAN]
  /\ contested \in [Processes -> BOOLEAN]
  /\ disturbances \in 0 .. MaxDisturbances

Sound(c) == ~c.help /\ ~c.invalid /\ c.works /\ (c.file \/ c.address)

(* run returns 0 only for help or for a signal it was sent, and a sound    *)
(* command line fails only beside another process or on a path that cannot *)
(* be removed: what earlier runs left behind, crashed ones included, is no *)
(* obstacle.                                                               *)
ExitCodeTellsWhy ==
  \A p \in Processes :
    /\ code[p] = 0 => cmd[p].help \/ heard[p]
    /\ code[p] = 1 => ~Sound(cmd[p]) \/ company[p] \/ path = FullDirectory

(* A process that serves a unix socket is the one clients reach at the     *)
(* path, until another process starts to take the path: no process that    *)
(* fails, ends or is killed takes it from the one that came after it.      *)
LatestIsReachable ==
  \A p \in Processes :
    pc[p] = "serving" /\ cmd[p].file /\ ~contested[p] => path = SocketOf(p, run[p])

(* Processes with sound command lines that are started at the same time do *)
(* not all fail, in whatever order they check, remove and bind, whether    *)
(* the path exists or not.                                                 *)
StartsDoNotAllFail ==
  (disturbances = 0 /\ path # FullDirectory) =>
    \/ \A p \in Processes : run[p] = 0
    \/ \E p \in Processes : run[p] > 0 /\ ~Sound(cmd[p])
    \/ \E p \in Processes : Alive(p)

(* Every run comes to serve or to an end, and one that has handled a       *)
(* signal after run reset g_signal comes to an end, wherever in the        *)
(* startup the signal came.  (One that is handled before, between the      *)
(* handlers' installation and the reset, is forgotten.)  Together with     *)
(* ExitCodeTellsWhy: a sound process that is alone serves until it is told *)
(* to stop, whatever is left of earlier ones.                              *)
EveryRunSettles ==
  []<>(\A p \in Processes : Alive(p) => pc[p] = "serving" /\ ~heard[p])
===============================================================================
