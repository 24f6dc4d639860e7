---------------------------- MODULE ProcessProofs ----------------------------
(***************************************************************************)
(* Proofs about Process, for any set of processes and of command lines,    *)
(* any number of restarts, signals and kills.                              *)
(***************************************************************************)
EXTENDS Process, TLAPS

-------------------------------------------------------------------------------
(* Types.                                                                  *)

Paths == {Nothing, File, FullDirectory} \cup {SocketOf(p, n) : p \in Processes, n \in 1 .. MaxRuns}

(* The history is kept apart: the provers take its Boolean functions best  *)
(* on their own.                                                           *)
HistoryOK ==
  /\ heard \in [Processes -> BOOLEAN]
  /\ company \in [Processes -> BOOLEAN]
  /\ contested \in [Processes -> BOOLEAN]

StateOK ==
  /\ pc \in [Processes -> Labels]
  /\ run \in [Processes -> 0 .. MaxRuns]
  /\ cmd \in [Processes -> Commands]
  /\ caught \in [Processes -> SUBSET Signals]
  /\ g_signal \in [Processes -> {0} \cup Signals]
  /\ code \in [Processes -> {NotEnded, Killed, 0, 1}]
  /\ path \in Paths
  /\ port \in Processes \cup {None}
  /\ disturbances \in 0 .. MaxDisturbances

(* A live process is in one of its runs, so the socket it binds has that   *)
(* run's number.                                                           *)
Counted == \A p \in Processes : Alive(p) => run[p] # 0

Typed == StateOK /\ HistoryOK /\ Counted

LEMMA TypedInit == Init => Typed
<1> SUFFICES ASSUME Init
             PROVE  Typed
  OBVIOUS
<1> USE ProcessAssumption, CommandAssumption, RunAssumption
<1>1. StateOK
  BY DEF Init, StateOK, Labels, NotEnded, Paths
<1>2. HistoryOK
  BY DEF Init, HistoryOK
<1>3. Counted
  BY DEF Init, Counted, Alive
<1> QED
  BY <1>1, <1>2, <1>3 DEF Typed

LEMMA HistoryStep == HistoryOK /\ [Next]_vars => HistoryOK'
<1> SUFFICES ASSUME HistoryOK, [Next]_vars
             PROVE  HistoryOK'
  OBVIOUS
<1>1. ASSUME NEW f \in [Processes -> BOOLEAN], NEW p \in Processes, NEW b \in BOOLEAN
      PROVE  [f EXCEPT ![p] = b] \in [Processes -> BOOLEAN]
  OBVIOUS
<1>2. ASSUME UNCHANGED <<heard, company, contested>>
      PROVE  HistoryOK'
  BY <1>2 DEF HistoryOK
<1>3. ASSUME NEW p \in Processes, Start(p)
      PROVE  HistoryOK'
  <2>1. heard' \in [Processes -> BOOLEAN] /\ contested' \in [Processes -> BOOLEAN]
    BY <1>1, <1>3 DEF Start, HistoryOK
  <2>2. company' \in [Processes -> BOOLEAN]
    <3>1. company' = [q \in Processes |->
            IF q = p THEN \E r \in Processes : Alive(r) ELSE company[q] \/ Alive(q)]
      BY <1>3 DEF Start
    <3>2. \A q \in Processes : (\E r \in Processes : Alive(r)) \in BOOLEAN /\ (company[q] \/ Alive(q)) \in BOOLEAN
      BY Zenon DEF Alive
    <3>3. \A q \in Processes :
            (IF q = p THEN \E r \in Processes : Alive(r) ELSE company[q] \/ Alive(q)) \in BOOLEAN
      BY <3>2, Zenon
    <3> QED
      BY <3>1, <3>3, Zenon
  <2> QED
    BY <2>1, <2>2 DEF HistoryOK
<1>4. ASSUME NEW p \in Processes, CheckFile(p)
      PROVE  HistoryOK'
  <2>1. contested' = [q \in Processes |-> contested[q] \/ (q # p /\ Alive(q) /\ cmd[p].file)]
    BY <1>4 DEF CheckFile
  <2>2. \A q \in Processes : (contested[q] \/ (q # p /\ Alive(q) /\ cmd[p].file)) \in BOOLEAN
    BY Zenon DEF Alive
  <2>3. contested' \in [Processes -> BOOLEAN]
    BY <2>1, <2>2, Zenon
  <2> QED
    BY <1>4, <2>3 DEF CheckFile, HistoryOK
<1>5. ASSUME NEW p \in Processes, BindUnix(p)
      PROVE  HistoryOK'
  <2>1. (\E q \in Processes \ {p} : AboutToBind(q)) \in BOOLEAN
    BY Zenon
  <2>2. contested' = contested
          \/ contested' = [contested EXCEPT ![p] = \E q \in Processes \ {p} : AboutToBind(q)]
    BY <1>5, Zenon DEF BindUnix
  <2>3. contested' \in [Processes -> BOOLEAN]
    BY <1>1, <2>1, <2>2, Zenon DEF HistoryOK
  <2> QED
    BY <1>5, <2>3 DEF BindUnix, HistoryOK
<1>6. ASSUME NEW p \in Processes, NEW s \in Signals, SendSignal(p, s)
      PROVE  HistoryOK'
  <2>1. (heard[p] \/ PastReset(p)) \in BOOLEAN
    BY Zenon DEF PastReset, Alive
  <2>2. heard' = heard \/ heard' = [heard EXCEPT ![p] = heard[p] \/ PastReset(p)]
    BY <1>6, Zenon DEF SendSignal
  <2>3. heard' \in [Processes -> BOOLEAN]
    BY <1>1, <2>1, <2>2, Zenon DEF HistoryOK
  <2> QED
    BY <1>6, <2>3 DEF SendSignal, HistoryOK
<1>7. ASSUME NEW p \in Processes, Step(p), ~CheckFile(p), ~BindUnix(p)
      PROVE  HistoryOK'
  BY <1>2, <1>7 DEF Step, InstallInt, InstallTerm, ResetSignal, ParseOptions, RemoveFile,
                    BindTcp, MakeLoggersAndThreads, Poll, Destroy, historyVars
<1>8. ASSUME NEW p \in Processes, Kill(p)
      PROVE  HistoryOK'
  BY <1>2, <1>8 DEF Kill
<1>9. CASE Finished \/ UNCHANGED vars
  BY <1>2, <1>9 DEF Finished, vars, historyVars
<1> QED
  BY <1>3, <1>4, <1>5, <1>6, <1>7, <1>8, <1>9 DEF Next

(* What a process does changes its own state, the path, and its being the  *)
(* listener of the port, and no state of another process.                  *)
LEMMA Leaves ==
  ASSUME StateOK, Counted, NEW p \in Processes, NEW how \in {NotEnded, Killed, 0, 1}, Leave(p, how)
  PROVE  /\ pc' \in [Processes -> Labels]
         /\ code' \in [Processes -> {NotEnded, Killed, 0, 1}]
         /\ port' \in Processes \cup {None}
         /\ \A q \in Processes : pc'[q] # "off" => Alive(q)
BY DEF StateOK, Counted, Leave, GoTo, Alive, Labels

LEMMA StateStep == StateOK /\ Counted /\ [Next]_vars => StateOK' /\ Counted'
<1> SUFFICES ASSUME StateOK, Counted, [Next]_vars
             PROVE  StateOK' /\ Counted'
  OBVIOUS
<1> USE RunAssumption
<1>0. \A p \in Processes : Alive(p) => SocketOf(p, run[p]) \in Paths
  BY DEF StateOK, Counted, Paths
<1>1. ASSUME NEW p \in Processes, Start(p)
      PROVE  StateOK' /\ Counted'
  <2>1. PICK c \in Commands : cmd' = [cmd EXCEPT ![p] = c]
    BY <1>1 DEF Start
  <2>2. run' = [run EXCEPT ![p] = @ + 1] /\ run[p] < MaxRuns
    BY <1>1 DEF Start
  <2>3. run' \in [Processes -> 0 .. MaxRuns] /\ run'[p] # 0
    BY <2>2 DEF StateOK
  <2>4. pc' \in [Processes -> Labels] /\ \A q \in Processes \ {p} : pc'[q] = pc[q]
    BY <1>1 DEF Start, GoTo, StateOK, Labels
  <2>5. Counted'
    BY <2>2, <2>3, <2>4 DEF StateOK, Counted, Alive
  <2>6. /\ g_signal' \in [Processes -> {0} \cup Signals]
        /\ code' \in [Processes -> {NotEnded, Killed, 0, 1}]
        /\ caught' \in [Processes -> SUBSET Signals]
        /\ cmd' \in [Processes -> Commands]
    BY <1>1, <2>1 DEF Start, StateOK
  <2> QED
    BY <1>1, <2>3, <2>4, <2>5, <2>6 DEF Start, StateOK, worldVars
<1>2. ASSUME NEW p \in Processes, InstallInt(p) \/ InstallTerm(p)
      PROVE  StateOK' /\ Counted'
  <2>1. PICK s \in Signals : caught' = [caught EXCEPT ![p] = @ \cup {s}]
    BY <1>2 DEF InstallInt, InstallTerm, Signals
  <2>2. caught' \in [Processes -> SUBSET Signals]
    BY <2>1 DEF StateOK
  <2> QED
    BY <1>2, <2>2 DEF InstallInt, InstallTerm, GoTo, StateOK, Counted, Alive, Labels,
                      worldVars, historyVars
<1>3. ASSUME NEW p \in Processes, ResetSignal(p) \/ Poll(p)
      PROVE  StateOK' /\ Counted'
  BY <1>3 DEF ResetSignal, Poll, GoTo, StateOK, Counted, Alive, Labels,
              processVars, worldVars, historyVars
<1>4. ASSUME NEW p \in Processes, ParseOptions(p)
      PROVE  StateOK' /\ Counted'
  BY <1>4 DEF ParseOptions, GoTo, Leave, StateOK, Counted, Alive, Labels, historyVars
<1>5. ASSUME NEW p \in Processes, CheckFile(p)
      PROVE  StateOK' /\ Counted'
  BY <1>5 DEF CheckFile, GoTo, StateOK, Counted, Alive, Labels, processVars, worldVars
<1>6. ASSUME NEW p \in Processes, RemoveFile(p)
      PROVE  StateOK' /\ Counted'
  <2>1. CASE Leave(p, 1) /\ UNCHANGED path
    BY <1>6, <2>1, Leaves DEF RemoveFile, StateOK, Counted, Alive, historyVars
  <2>2. CASE GoTo(p, "bind unix") /\ path' = Nothing /\ UNCHANGED <<code, port>>
    <3>1. Nothing \in Paths
      BY DEF Paths
    <3> QED
      BY <1>6, <2>2, <3>1 DEF RemoveFile, GoTo, StateOK, Counted, Alive, Labels, historyVars
  <2> QED
    BY <1>6, <2>1, <2>2 DEF RemoveFile
<1>7. ASSUME NEW p \in Processes, BindUnix(p)
      PROVE  StateOK' /\ Counted'
  BY <1>0, <1>7 DEF BindUnix, GoTo, Leave, StateOK, Counted, Alive, Labels, worldVars
<1>8. ASSUME NEW p \in Processes, BindTcp(p)
      PROVE  StateOK' /\ Counted'
  BY <1>8 DEF BindTcp, GoTo, Leave, StateOK, Counted, Alive, Labels, historyVars
<1>9. ASSUME NEW p \in Processes, MakeLoggersAndThreads(p) \/ Destroy(p)
      PROVE  StateOK' /\ Counted'
  BY <1>9 DEF MakeLoggersAndThreads, Serve, Destroy, Success, PathAfterStop, GoTo, Leave,
              StateOK, Counted, Alive, Labels, historyVars
<1>10. ASSUME NEW p \in Processes, NEW s \in Signals, SendSignal(p, s)
       PROVE  StateOK' /\ Counted'
  <2>1. disturbances' \in 0 .. MaxDisturbances
    BY <1>10 DEF SendSignal, StateOK
  <2>2. CASE Leave(p, Killed) /\ UNCHANGED g_signal
    BY <1>10, <2>1, <2>2, Leaves DEF SendSignal, StateOK, Counted, Alive
  <2>3. CASE g_signal' = [g_signal EXCEPT ![p] = s] /\ UNCHANGED <<pc, code, port>>
    BY <1>10, <2>1, <2>3 DEF SendSignal, StateOK, Counted, Alive
  <2> QED
    BY <1>10, <2>2, <2>3 DEF SendSignal
<1>11. ASSUME NEW p \in Processes, Kill(p)
       PROVE  StateOK' /\ Counted'
  <2>1. disturbances' \in 0 .. MaxDisturbances
    BY <1>11 DEF Kill, StateOK
  <2> QED
    BY <1>11, <2>1, Leaves DEF Kill, StateOK, Counted, Alive
<1>12. CASE Finished \/ UNCHANGED vars
  BY <1>12 DEF Finished, vars, processVars, worldVars, historyVars, StateOK, Counted, Alive
<1> QED
  BY <1>1, <1>2, <1>3, <1>4, <1>5, <1>6, <1>7, <1>8, <1>9, <1>10, <1>11, <1>12 DEF Next, Step

LEMMA TypedInvariant == Spec => []Typed
<1>1. Typed /\ [Next]_vars => Typed'
  BY StateStep, HistoryStep DEF Typed
<1> QED
  BY <1>1, TypedInit, PTL DEF Spec

(* Every variable keeps its type, so the exit codes of run                 *)
(* (src/scriptor.cpp:120-154) are 0 and 1, for any processes and command   *)
(* lines.                                                                  *)
THEOREM TypeCorrect == Spec => []TypeOK
<1>1. Typed => TypeOK
  BY DEF Typed, StateOK, HistoryOK, TypeOK, Paths
<1> QED
  BY <1>1, TypedInvariant, PTL
-------------------------------------------------------------------------------
(* What a step does to a process, and to the others.                       *)
(* A step of a process, or of the world on it.                             *)
Acts(p) == Start(p) \/ Step(p) \/ Kill(p) \/ \E s \in Signals : SendSignal(p, s)

LEMMA SomeoneActs ==
  ASSUME [Next]_vars
  PROVE  (\E p \in Processes : Acts(p)) \/ UNCHANGED vars
BY DEF Next, Acts, Finished

(* A step of another process leaves all this of q alone.                   *)
Untouched(q) ==
  /\ pc'[q] = pc[q] /\ run'[q] = run[q] /\ cmd'[q] = cmd[q]
  /\ g_signal'[q] = g_signal[q] /\ code'[q] = code[q] /\ heard'[q] = heard[q]

LEMMA OthersStay ==
  ASSUME StateOK, HistoryOK, NEW p \in Processes, NEW q \in Processes \ {p}, Acts(p)
  PROVE  Untouched(q)
<1>0. /\ DOMAIN pc = Processes /\ DOMAIN run = Processes /\ DOMAIN cmd = Processes
      /\ DOMAIN g_signal = Processes /\ DOMAIN code = Processes /\ DOMAIN heard = Processes
  BY DEF StateOK, HistoryOK
<1>1. CASE Start(p)
  BY <1>0, <1>1 DEF Start, GoTo, Untouched
<1>2. CASE InstallInt(p) \/ InstallTerm(p) \/ ResetSignal(p) \/ Poll(p) \/ CheckFile(p)
  BY <1>0, <1>2 DEF InstallInt, InstallTerm, ResetSignal, Poll, CheckFile, GoTo, Untouched,
                    processVars, historyVars
<1>3. CASE ParseOptions(p) \/ RemoveFile(p) \/ BindUnix(p) \/ BindTcp(p)
  BY <1>0, <1>3 DEF ParseOptions, RemoveFile, BindUnix, BindTcp, GoTo, Leave, Untouched, historyVars
<1>4. CASE MakeLoggersAndThreads(p) \/ Destroy(p) \/ Kill(p)
  BY <1>0, <1>4 DEF MakeLoggersAndThreads, Serve, Destroy, Kill, GoTo, Leave, Untouched, historyVars
<1>5. ASSUME NEW s \in Signals, SendSignal(p, s)
      PROVE  Untouched(q)
  BY <1>0, <1>5 DEF SendSignal, GoTo, Leave, Untouched
<1> QED
  BY <1>1, <1>2, <1>3, <1>4, <1>5 DEF Acts, Step

(* What a process knows when it is where it is: its command line, and that *)
(* it was told to stop.                                                    *)
Knows(p) ==
  /\ Alive(p) => code[p] = NotEnded
  /\ pc[p] \notin {"off", "main", "main term", "reset", "options"} =>
       ~cmd[p].help /\ ~cmd[p].invalid
  /\ pc[p] = "remove" => cmd[p].file
  /\ pc[p] \in {"loggers", "serving", "destroying"} => cmd[p].file \/ cmd[p].address
  /\ pc[p] \in {"serving", "destroying"} => cmd[p].works
  /\ PastReset(p) /\ g_signal[p] # 0 => heard[p]
  /\ pc[p] = "destroying" => heard[p]
  /\ code[p] = 0 => cmd[p].help \/ heard[p]

LEMMA EndsDiffer ==
  /\ NotEnded # 0 /\ NotEnded # 1
  /\ Killed # 0 /\ Killed # 1
BY DEF NotEnded, Killed

LEMMA KnowsOff ==
  ASSUME NEW p \in Processes, pc'[p] = "off", code'[p] = 0 => cmd'[p].help \/ heard'[p]
  PROVE  Knows(p)'
BY DEF Knows, Alive, PastReset

(* The process goes on to another label, and only there.                   *)
LEMMA KnowsGo ==
  ASSUME StateOK, HistoryOK, NEW p \in Processes, NEW label, Knows(p), GoTo(p, label),
         UNCHANGED <<run, cmd, code, heard>>, Alive(p),
         g_signal'[p] = g_signal[p] \/ g_signal'[p] = 0,
         label \notin {"off", "main", "main term", "reset", "options"} =>
           ~cmd[p].help /\ ~cmd[p].invalid,
         label = "remove" => cmd[p].file,
         label \in {"loggers", "serving", "destroying"} => cmd[p].file \/ cmd[p].address,
         label \in {"serving", "destroying"} => cmd[p].works,
         label \notin {"off", "main", "main term", "reset"} =>
           PastReset(p) \/ g_signal'[p] = 0,
         label = "destroying" => heard[p]
  PROVE  Knows(p)'
<1>1. pc'[p] = label
  BY DEF StateOK, GoTo
<1>2. /\ code'[p] = NotEnded /\ code'[p] # 0
      /\ cmd'[p] = cmd[p] /\ heard'[p] = heard[p]
  BY EndsDiffer DEF Knows
<1> QED
  BY <1>1, <1>2 DEF Knows, Alive, PastReset

LEMMA KnowsStep ==
  ASSUME StateOK, HistoryOK, NEW p \in Processes, Knows(p), Acts(p)
  PROVE  Knows(p)'
<1>0. /\ DOMAIN pc = Processes /\ DOMAIN run = Processes /\ DOMAIN cmd = Processes
      /\ DOMAIN g_signal = Processes /\ DOMAIN code = Processes /\ DOMAIN heard = Processes
  BY DEF StateOK, HistoryOK
<1>1. ASSUME NEW how, Leave(p, how), UNCHANGED <<cmd, heard>>,
             how = 0 => cmd[p].help \/ heard[p]
      PROVE  Knows(p)'
  BY <1>0, <1>1, KnowsOff DEF Leave, GoTo
<1>2. CASE Start(p)
  <2>1. pc'[p] = "main" /\ code'[p] = NotEnded
    BY <1>0, <1>2 DEF Start, GoTo
  <2> QED
    BY <2>1, EndsDiffer DEF Knows, Alive, PastReset
<1>3. CASE InstallInt(p) \/ InstallTerm(p)
  <2>1. PICK label \in {"main term", "reset"} : GoTo(p, label)
    BY <1>3 DEF InstallInt, InstallTerm
  <2>2. Alive(p) /\ UNCHANGED <<run, cmd, code, heard, g_signal>>
    BY <1>3 DEF InstallInt, InstallTerm, Alive, historyVars
  <2> QED
    BY <2>1, <2>2, KnowsGo
<1>4. CASE ResetSignal(p)
  <2>1. /\ Alive(p) /\ GoTo(p, "options") /\ g_signal'[p] = 0
        /\ UNCHANGED <<run, cmd, code, heard>>
    BY <1>0, <1>4 DEF ResetSignal, Alive, processVars, historyVars
  <2> QED
    BY <2>1, KnowsGo
<1>5. CASE ParseOptions(p)
  <2>1. UNCHANGED <<run, cmd, g_signal, heard>> /\ Alive(p) /\ PastReset(p)
    BY <1>5 DEF ParseOptions, Alive, PastReset, historyVars
  <2>2. CASE Leave(p, 0) /\ cmd[p].help
    BY <1>1, <2>1, <2>2
  <2>3. CASE Leave(p, 1)
    BY <1>1, <2>1, <2>3
  <2>4. CASE ~cmd[p].help /\ ~cmd[p].invalid /\ GoTo(p, "check") /\ UNCHANGED <<code, port>>
    BY <2>1, <2>4, KnowsGo
  <2> QED
    BY <1>5, <2>2, <2>3, <2>4 DEF ParseOptions
<1>6. CASE CheckFile(p)
  <2>1. /\ UNCHANGED <<run, cmd, code, g_signal, heard>> /\ Alive(p) /\ PastReset(p)
        /\ ~cmd[p].help /\ ~cmd[p].invalid
    BY <1>6 DEF CheckFile, Alive, PastReset, Knows, processVars
  <2>2. (cmd[p].file /\ GoTo(p, "remove")) \/ GoTo(p, "bind unix")
    BY <1>6 DEF CheckFile
  <2> QED
    BY <2>1, <2>2, KnowsGo
<1>7. CASE RemoveFile(p) \/ BindUnix(p) \/ BindTcp(p) \/ MakeLoggersAndThreads(p)
  <2>1. /\ UNCHANGED <<run, cmd, g_signal, heard>> /\ Alive(p) /\ PastReset(p)
        /\ ~cmd[p].help /\ ~cmd[p].invalid
        /\ MakeLoggersAndThreads(p) => cmd[p].file \/ cmd[p].address
    BY <1>7 DEF RemoveFile, BindUnix, BindTcp, MakeLoggersAndThreads, Serve, Alive, PastReset,
                Knows, historyVars
  <2>2. CASE Leave(p, 1)
    BY <1>1, <2>1, <2>2
  <2>3. CASE UNCHANGED code /\ (GoTo(p, "bind unix") \/ GoTo(p, "bind tcp"))
    BY <2>1, <2>3, KnowsGo
  <2>4. CASE UNCHANGED code /\ GoTo(p, "loggers") /\ (cmd[p].file \/ cmd[p].address)
    BY <2>1, <2>4, KnowsGo
  <2>5. CASE /\ UNCHANGED code /\ GoTo(p, "serving")
             /\ cmd[p].works /\ (cmd[p].file \/ cmd[p].address)
    BY <2>1, <2>5, KnowsGo
  <2> QED
    BY <1>7, <2>1, <2>2, <2>3, <2>4, <2>5
       DEF RemoveFile, BindUnix, BindTcp, MakeLoggersAndThreads
<1>8. CASE Poll(p)
  <2>1. /\ UNCHANGED <<run, cmd, code, g_signal, heard>> /\ Alive(p) /\ PastReset(p)
        /\ ~cmd[p].help /\ ~cmd[p].invalid /\ (cmd[p].file \/ cmd[p].address) /\ cmd[p].works
        /\ heard[p] /\ GoTo(p, "destroying")
    BY <1>8 DEF Poll, Alive, PastReset, Knows, processVars, historyVars
  <2> QED
    BY <2>1, KnowsGo
<1>9. CASE Destroy(p)
  <2>1. UNCHANGED <<cmd, heard>> /\ heard[p] /\ Leave(p, 0)
    BY <1>9 DEF Destroy, Success, Knows, historyVars
  <2> QED
    BY <1>1, <2>1
<1>10. CASE Kill(p)
  BY <1>1, <1>10, EndsDiffer DEF Kill
<1>11. ASSUME NEW s \in Signals, SendSignal(p, s)
       PROVE  Knows(p)'
  <2>1. CASE Leave(p, Killed) /\ UNCHANGED heard
    BY <1>1, <1>11, <2>1, EndsDiffer DEF SendSignal
  <2>2. CASE heard' = [heard EXCEPT ![p] = @ \/ PastReset(p)] /\ UNCHANGED <<pc, code>>
    <3>1. UNCHANGED <<pc, code, cmd>>
      BY <1>11, <2>2 DEF SendSignal
    <3>2. heard'[p] <=> heard[p] \/ PastReset(p)
      BY <2>2 DEF HistoryOK
    <3> QED
      BY <3>1, <3>2 DEF Knows, Alive, PastReset
  <2> QED
    BY <1>11, <2>1, <2>2 DEF SendSignal
<1> QED
  BY <1>2, <1>3, <1>4, <1>5, <1>6, <1>7, <1>8, <1>9, <1>10, <1>11 DEF Acts, Step

(* The tcp port is free, or someone who serves, is about to or no longer   *)
(* does listens there; before any signal or kill nobody has been told to   *)
(* stop.                                                                   *)
Listening == \A p \in Processes : port = p => pc[p] \in {"loggers", "serving", "destroying"}
Quiet == disturbances = 0 => \A p \in Processes : g_signal[p] = 0 /\ pc[p] # "destroying"

Phases == Listening /\ Quiet /\ \A p \in Processes : Knows(p)

LEMMA PhasesInit == Init => Phases
<1> SUFFICES ASSUME Init
             PROVE  Phases
  OBVIOUS
<1>1. Listening
  BY ProcessAssumption DEF Init, Listening
<1>2. Quiet
  BY DEF Init, Quiet
<1>3. ASSUME NEW p \in Processes
      PROVE  Knows(p)
  BY DEF Init, Knows, Alive, PastReset, NotEnded
<1> QED
  BY <1>1, <1>2, <1>3 DEF Phases
LEMMA PortStep ==
  ASSUME StateOK, NEW p \in Processes, Acts(p)
  PROVE  \/ pc'[p] = "off" /\ port' = IF port = p THEN None ELSE port
         \/ BindTcp(p) /\ port' = p /\ pc'[p] = "loggers"
         \/ UNCHANGED port /\ pc' = pc
         \/ UNCHANGED port /\ pc'[p] \notin {"loggers", "serving", "destroying"}
              /\ pc[p] \notin {"loggers", "serving", "destroying"}
         \/ UNCHANGED port /\ pc'[p] \in {"loggers", "serving", "destroying"}
<1>0. DOMAIN pc = Processes
  BY DEF StateOK
<1>1. ASSUME NEW how, Leave(p, how)
      PROVE  pc'[p] = "off" /\ port' = IF port = p THEN None ELSE port
  BY <1>0, <1>1 DEF Leave, GoTo
<1>2. ASSUME NEW label, GoTo(p, label)
      PROVE  pc'[p] = label
  BY <1>0, <1>2 DEF GoTo
<1>3. CASE Start(p) \/ InstallInt(p) \/ InstallTerm(p) \/ ResetSignal(p) \/ CheckFile(p)
  BY <1>2, <1>3 DEF Start, InstallInt, InstallTerm, ResetSignal, CheckFile, worldVars
<1>4. CASE ParseOptions(p) \/ RemoveFile(p) \/ BindUnix(p)
  BY <1>1, <1>2, <1>4 DEF ParseOptions, RemoveFile, BindUnix, worldVars
<1>5. CASE BindTcp(p)
  BY <1>1, <1>2, <1>5 DEF BindTcp
<1>6. CASE MakeLoggersAndThreads(p) \/ Poll(p) \/ Destroy(p) \/ Kill(p)
  BY <1>1, <1>2, <1>6 DEF MakeLoggersAndThreads, Poll, Destroy, Kill, worldVars
<1>7. ASSUME NEW s \in Signals, SendSignal(p, s)
      PROVE  \/ pc'[p] = "off" /\ port' = IF port = p THEN None ELSE port
             \/ UNCHANGED port /\ pc' = pc
  BY <1>1, <1>7 DEF SendSignal
<1> QED
  BY <1>3, <1>4, <1>5, <1>6, <1>7 DEF Acts, Step

LEMMA QuietStep ==
  ASSUME StateOK, HistoryOK, Quiet, NEW p \in Processes, Acts(p)
  PROVE  Quiet'
<1> SUFFICES ASSUME disturbances' = 0, NEW q \in Processes
             PROVE  g_signal'[q] = 0 /\ pc'[q] # "destroying"
  BY DEF Quiet
<1>0. disturbances \in Nat /\ DOMAIN pc = Processes /\ DOMAIN g_signal = Processes
  BY RunAssumption DEF StateOK
<1>1. ~Kill(p) /\ \A s \in Signals : ~SendSignal(p, s)
  BY <1>0 DEF Kill, SendSignal
<1>2. disturbances = 0
  BY <1>1 DEF Acts, Start, Step, InstallInt, InstallTerm, ResetSignal, ParseOptions, CheckFile,
       RemoveFile, BindUnix, BindTcp, MakeLoggersAndThreads, Poll, Destroy, historyVars
<1>3. g_signal[p] = 0 /\ pc[p] # "destroying" /\ g_signal[q] = 0 /\ pc[q] # "destroying"
  BY <1>2 DEF Quiet
<1>4. CASE q # p
  BY <1>3, <1>4, OthersStay DEF Untouched
<1>5. CASE q = p
  <2>1. ~Poll(p) /\ ~Destroy(p)
    BY <1>3 DEF Poll, Destroy
  <2>2. g_signal'[p] = 0
    BY <1>0, <1>1, <1>3, <2>1 DEF Acts, Start, Step, InstallInt, InstallTerm, ResetSignal,
       ParseOptions, CheckFile, RemoveFile, BindUnix, BindTcp, MakeLoggersAndThreads, Serve, processVars
  <2>3. ASSUME NEW label, GoTo(p, label)
        PROVE  pc'[p] = label
    BY <1>0, <2>3 DEF GoTo
  <2>4. pc'[p] # "destroying"
    <3>1. CASE Start(p) \/ InstallInt(p) \/ InstallTerm(p) \/ ResetSignal(p) \/ CheckFile(p)
      BY <2>3, <3>1 DEF Start, InstallInt, InstallTerm, ResetSignal, CheckFile
    <3>2. CASE ParseOptions(p) \/ RemoveFile(p) \/ BindUnix(p) \/ BindTcp(p)
               \/ MakeLoggersAndThreads(p)
      BY <2>3, <3>2 DEF ParseOptions, RemoveFile, BindUnix, BindTcp, MakeLoggersAndThreads, Leave
    <3> QED
      BY <1>1, <2>1, <3>1, <3>2 DEF Acts, Step
  <2> QED
    BY <1>5, <2>2, <2>4
<1> QED
  BY <1>4, <1>5

LEMMA PhasesStep == Typed /\ Phases /\ [Next]_vars => Phases'
<1> SUFFICES ASSUME Typed, Phases, [Next]_vars
             PROVE  Phases'
  OBVIOUS
<1>0. StateOK /\ HistoryOK
  BY DEF Typed
<1>1. ASSUME NEW p \in Processes, Acts(p)
      PROVE  Phases'
  <2>1. ASSUME NEW q \in Processes
        PROVE  Knows(q)'
    <3>1. Knows(q)
      BY DEF Phases
    <3>2. CASE q = p
      BY <1>0, <1>1, <3>1, <3>2, KnowsStep
    <3>3. CASE q # p
      <4>1. Untouched(q)
        BY <1>0, <1>1, <3>3, OthersStay
      <4> QED
        BY <3>1, <4>1 DEF Knows, Untouched, Alive, PastReset
    <3> QED
      BY <3>2, <3>3
  <2>2. ASSUME NEW q \in Processes, port' = q
        PROVE  pc'[q] \in {"loggers", "serving", "destroying"}
    <3>1. port = q => pc[q] \in {"loggers", "serving", "destroying"}
      BY DEF Phases, Listening
    <3>2. CASE q = p
      BY <1>0, <1>1, <2>2, <3>1, <3>2, PortStep, ProcessAssumption
    <3>3. CASE q # p
      <4>1. pc'[q] = pc[q]
        BY <1>0, <1>1, <3>3, OthersStay DEF Untouched
      <4>2. port = q
        BY <1>0, <1>1, <2>2, <3>3, PortStep, ProcessAssumption
      <4> QED
        BY <3>1, <4>1, <4>2
    <3> QED
      BY <3>2, <3>3
  <2>3. Quiet'
    BY <1>0, <1>1, QuietStep DEF Phases
  <2> QED
    BY <2>1, <2>2, <2>3 DEF Phases, Listening
<1>2. CASE UNCHANGED vars
  BY <1>2 DEF vars, processVars, worldVars, historyVars, Phases, Listening, Quiet, Knows,
              Alive, PastReset
<1> QED
  BY <1>1, <1>2, SomeoneActs
LEMMA PathsDiffer ==
  /\ Nothing # File /\ Nothing # FullDirectory
  /\ \A p, n : SocketOf(p, n) # Nothing /\ SocketOf(p, n) # FullDirectory
  /\ \A p, q, n, m : SocketOf(p, n) = SocketOf(q, m) => p = q /\ n = m
BY DEF Nothing, File, FullDirectory, SocketOf

LEMMA PathStep ==
  ASSUME StateOK, NEW p \in Processes, Acts(p)
  PROVE  \/ UNCHANGED path
         \/ /\ pc[p] = "remove" /\ pc'[p] = "bind unix"
            /\ path # FullDirectory /\ path' = Nothing
         \/ /\ pc[p] = "bind unix" /\ pc'[p] = "bind tcp" /\ cmd[p].file
            /\ path = Nothing /\ path' = SocketOf(p, run[p])
<1>0. DOMAIN pc = Processes
  BY DEF StateOK
<1>1. CASE RemoveFile(p)
  BY <1>0, <1>1 DEF RemoveFile, GoTo
<1>2. CASE BindUnix(p)
  BY <1>0, <1>2 DEF BindUnix, GoTo, worldVars
<1>3. CASE Acts(p) /\ ~RemoveFile(p) /\ ~BindUnix(p)
  BY <1>3 DEF Acts, Start, Step, InstallInt, InstallTerm, ResetSignal, ParseOptions, CheckFile,
     BindTcp, MakeLoggersAndThreads, Poll, Destroy, PathAfterStop, Kill, SendSignal, worldVars
<1> QED
  BY <1>1, <1>2, <1>3

(* Nothing removes a full directory.                                       *)
LEMMA DirectoryStays ==
  ASSUME StateOK, NEW p \in Processes, Acts(p), path = FullDirectory
  PROVE  path' = FullDirectory
BY PathStep, PathsDiffer

LEMMA ActsAlive ==
  ASSUME NEW p \in Processes, Acts(p), ~Start(p)
  PROVE  /\ Alive(p)
         /\ UNCHANGED <<run, cmd, company>>
BY DEF Acts, Step, InstallInt, InstallTerm, ResetSignal, ParseOptions, CheckFile, RemoveFile,
   BindUnix, BindTcp, MakeLoggersAndThreads, Poll, Destroy, Kill, SendSignal, Alive,
   processVars, historyVars

-------------------------------------------------------------------------------
(* Exit codes.                                                             *)

(* A process that has been alone since it started is alone, and finds no   *)
(* path where it wants to bind.                                            *)
Alone ==
  \A p \in Processes : Alive(p) /\ ~company[p] =>
    /\ \A q \in Processes \ {p} : ~Alive(q)
    /\ pc[p] = "bind unix" /\ cmd[p].file => path = Nothing

(* Whoever returned 1 had a reason.                                        *)
Reasons ==
  \A p \in Processes : code[p] = 1 => ~Sound(cmd[p]) \/ company[p] \/ path = FullDirectory

LEMMA BindingNext ==
  ASSUME StateOK, NEW p \in Processes, Acts(p), ~Start(p),
         pc'[p] = "bind unix", cmd[p].file,
         pc[p] = "bind unix" => path = Nothing
  PROVE  path' = Nothing
<1>0. DOMAIN pc = Processes
  BY DEF StateOK
<1>1. ASSUME NEW how, Leave(p, how)
      PROVE  FALSE
  BY <1>0, <1>1 DEF Leave, GoTo
<1>2. ASSUME NEW label, GoTo(p, label)
      PROVE  label = "bind unix"
  BY <1>0, <1>2 DEF GoTo
<1>3. CASE CheckFile(p)
  BY <1>2, <1>3 DEF CheckFile, Exists, worldVars
<1>4. CASE RemoveFile(p)
  BY <1>1, <1>4 DEF RemoveFile
<1>5. CASE InstallInt(p) \/ InstallTerm(p) \/ ResetSignal(p) \/ ParseOptions(p) \/ BindUnix(p)
  BY <1>1, <1>2, <1>5 DEF InstallInt, InstallTerm, ResetSignal, ParseOptions, BindUnix
<1>6. CASE BindTcp(p) \/ MakeLoggersAndThreads(p) \/ Poll(p) \/ Destroy(p) \/ Kill(p)
  BY <1>1, <1>2, <1>6 DEF BindTcp, MakeLoggersAndThreads, Poll, Destroy, Kill
<1>7. ASSUME NEW s \in Signals, SendSignal(p, s)
      PROVE  path' = Nothing
  BY <1>1, <1>7 DEF SendSignal
<1> QED
  BY <1>3, <1>4, <1>5, <1>6, <1>7 DEF Acts, Step

LEMMA AloneStep ==
  ASSUME StateOK, HistoryOK, Alone, NEW p \in Processes, Acts(p)
  PROVE  Alone'
<1> SUFFICES ASSUME NEW q \in Processes, Alive(q)', ~company'[q]
             PROVE  /\ \A r \in Processes \ {q} : ~Alive(r)'
                    /\ pc'[q] = "bind unix" /\ cmd'[q].file => path' = Nothing
  BY DEF Alone
<1>1. \A r \in Processes \ {p} : Alive(r)' <=> Alive(r)
  BY OthersStay DEF Untouched, Alive
<1>2. CASE Start(p)
  <2>1. company' = [r \in Processes |->
          IF r = p THEN \E s \in Processes : Alive(s) ELSE company[r] \/ Alive(r)]
    BY <1>2 DEF Start
  <2>2. CASE q = p
    <3>1. \A r \in Processes : ~Alive(r)
      BY <2>1, <2>2
    <3>2. pc'[p] = "main"
      BY <1>2 DEF Start, GoTo, StateOK
    <3> QED
      BY <1>1, <2>2, <3>1, <3>2
  <2>3. CASE q # p
    BY <1>1, <2>1, <2>3
  <2> QED
    BY <2>2, <2>3
<1>3. CASE ~Start(p)
  <2>1. Alive(p) /\ UNCHANGED <<cmd, company>>
    BY <1>3, ActsAlive
  <2>2. Alive(q) /\ ~company[q]
    BY <1>1, <2>1
  <2>3. \A r \in Processes \ {q} : ~Alive(r)
    BY <2>2 DEF Alone
  <2>4. q = p
    BY <2>1, <2>3
  <2>5. pc[q] = "bind unix" /\ cmd[q].file => path = Nothing
    BY <2>2 DEF Alone
  <2> QED
    BY <1>1, <1>3, <2>1, <2>3, <2>4, <2>5, BindingNext
<1> QED
  BY <1>2, <1>3

LEMMA ReasonsStep ==
  ASSUME StateOK, HistoryOK, Phases, Alone, Reasons, NEW p \in Processes, Acts(p)
  PROVE  Reasons'
<1> SUFFICES ASSUME NEW q \in Processes, code'[q] = 1
             PROVE  ~Sound(cmd'[q]) \/ company'[q] \/ path' = FullDirectory
  BY DEF Reasons
<1>0. DOMAIN code = Processes
  BY DEF StateOK
<1>1. path = FullDirectory => path' = FullDirectory
  BY DirectoryStays
<1>2. CASE Start(p)
  <2>1. q # p
    BY <1>0, <1>2, EndsDiffer DEF Start
  <2>2. code[q] = 1 /\ cmd'[q] = cmd[q]
    BY <2>1, OthersStay DEF Untouched
  <2>3. company[q] => company'[q]
    BY <1>2, <2>1 DEF Start
  <2> QED
    BY <1>1, <2>2, <2>3 DEF Reasons
<1>3. CASE ~Start(p)
  <2>1. Alive(p) /\ UNCHANGED <<cmd, company>>
    BY <1>3, ActsAlive
  <2>2. CASE code[q] = 1
    BY <1>1, <2>1, <2>2 DEF Reasons
  <2>3. CASE code[q] # 1
    <3>1. q = p
      BY <2>3, OthersStay DEF Untouched
    <3>2. UNCHANGED code => FALSE
      BY <2>3
    <3>3. ASSUME NEW how, Leave(p, how)
          PROVE  how = 1
      BY <1>0, <3>1, <3>3 DEF Leave
    <3>4. CASE ParseOptions(p)
      BY <2>1, <3>1, <3>2, <3>3, <3>4 DEF ParseOptions, Sound
    <3>5. CASE RemoveFile(p)
      BY <3>2, <3>5 DEF RemoveFile
    <3>6. CASE BindUnix(p)
      <4>1. pc[p] = "bind unix" /\ cmd[p].file /\ path # Nothing
        BY <3>2, <3>6 DEF BindUnix
      <4> QED
        BY <2>1, <3>1, <4>1 DEF Alone
    <3>7. CASE BindTcp(p)
      <4>1. CASE cmd[p].address /\ port # None
        <5>1. port \in Processes /\ pc[port] \in {"loggers", "serving", "destroying"}
          BY <4>1 DEF StateOK, Phases, Listening
        <5>2. pc[p] = "bind tcp"
          BY <3>7 DEF BindTcp
        <5>3. Alive(port) /\ port # p
          BY <5>1, <5>2 DEF Alive
        <5> QED
          BY <2>1, <3>1, <5>1, <5>3 DEF Alone
      <4>2. CASE ~cmd[p].address /\ ~cmd[p].file
        BY <2>1, <3>1, <4>2 DEF Sound
      <4> QED
        BY <3>2, <3>7, <4>1, <4>2 DEF BindTcp
    <3>8. CASE MakeLoggersAndThreads(p)
      BY <2>1, <3>1, <3>2, <3>8 DEF MakeLoggersAndThreads, Sound
    <3>9. CASE Destroy(p) \/ Kill(p)
      BY <3>3, <3>9, EndsDiffer DEF Destroy, Success, Kill
    <3>10. ASSUME NEW s \in Signals, SendSignal(p, s)
           PROVE  FALSE
      BY <3>2, <3>3, <3>10, EndsDiffer DEF SendSignal
    <3>11. CASE InstallInt(p) \/ InstallTerm(p) \/ ResetSignal(p) \/ CheckFile(p) \/ Poll(p)
      BY <3>2, <3>11 DEF InstallInt, InstallTerm, ResetSignal, CheckFile, Poll, processVars
    <3> QED
      BY <1>3, <3>4, <3>5, <3>6, <3>7, <3>8, <3>9, <3>10, <3>11 DEF Acts, Step
  <2> QED
    BY <2>2, <2>3
<1> QED
  BY <1>2, <1>3
Ends == Typed /\ Phases /\ Alone /\ Reasons

LEMMA EndsInit == Init => Ends
<1> SUFFICES ASSUME Init
             PROVE  Ends
  OBVIOUS
<1>1. Alone
  BY DEF Init, Alone, Alive
<1>2. Reasons
  BY EndsDiffer DEF Init, Reasons
<1> QED
  BY <1>1, <1>2, TypedInit, PhasesInit DEF Ends

LEMMA EndsStep == Ends /\ [Next]_vars => Ends'
<1> SUFFICES ASSUME Ends, [Next]_vars
             PROVE  Ends'
  OBVIOUS
<1>1. Typed' /\ Phases'
  BY StateStep, HistoryStep, PhasesStep DEF Ends, Typed
<1>2. ASSUME NEW p \in Processes, Acts(p)
      PROVE  Alone' /\ Reasons'
  BY <1>2, AloneStep, ReasonsStep DEF Ends, Typed
<1>3. ASSUME UNCHANGED vars
      PROVE  Alone' /\ Reasons'
  BY <1>3 DEF Ends, vars, processVars, worldVars, historyVars, Alone, Reasons, Alive
<1> QED
  BY <1>1, <1>2, <1>3, SomeoneActs DEF Ends

LEMMA EndsInvariant == Spec => []Ends
BY EndsInit, EndsStep, PTL DEF Spec

(* Exit code 0 is for help or a signal, and exit code 1 for a command line *)
(* that is not sound, for a run beside another process or for a path that  *)
(* cannot be removed (src/scriptor.cpp:120-154), whatever earlier runs     *)
(* have left behind.                                                       *)
THEOREM ExitCodesAreReasons == Spec => []ExitCodeTellsWhy
<1>1. Ends => ExitCodeTellsWhy
  <2> SUFFICES ASSUME Ends, NEW p \in Processes
               PROVE  /\ code[p] = 0 => cmd[p].help \/ heard[p]
                      /\ code[p] = 1 => ~Sound(cmd[p]) \/ company[p] \/ path = FullDirectory
    BY DEF ExitCodeTellsWhy
  <2>1. code[p] = 0 => cmd[p].help \/ heard[p]
    BY DEF Ends, Phases, Knows
  <2>2. code[p] = 1 => ~Sound(cmd[p]) \/ company[p] \/ path = FullDirectory
    BY DEF Ends, Reasons
  <2> QED
    BY <2>1, <2>2
<1> QED
  BY <1>1, EndsInvariant, PTL
-------------------------------------------------------------------------------
(* The path of the latest.                                                 *)

(* Where a process is from its bind of the unix socket to its end.         *)
HasBound == {"bind tcp", "loggers", "serving", "destroying"}

(* Who has bound the path, and saw nobody about to when it did nor since,  *)
(* still has it, and nobody is about to: what a process that fails, ends   *)
(* or is killed leaves behind is its own.                                  *)
Holds(p) ==
  pc[p] \in HasBound /\ cmd[p].file /\ ~contested[p] =>
    /\ path = SocketOf(p, run[p])
    /\ \A q \in Processes \ {p} : ~AboutToBind(q)

(* A contested process stays contested while it is alive.                  *)
LEMMA ContestedStays ==
  ASSUME HistoryOK, NEW p \in Processes, Acts(p), NEW q \in Processes \ {p}
  PROVE  contested[q] => contested'[q]
<1>0. DOMAIN contested = Processes
  BY DEF HistoryOK
<1>1. CASE Start(p) \/ CheckFile(p) \/ BindUnix(p)
  BY <1>0, <1>1 DEF Start, CheckFile, BindUnix
<1>2. CASE ~Start(p) /\ ~CheckFile(p) /\ ~BindUnix(p)
  BY <1>2 DEF Acts, Step, InstallInt, InstallTerm, ResetSignal, ParseOptions, RemoveFile,
     BindTcp, MakeLoggersAndThreads, Poll, Destroy, Kill, SendSignal, historyVars
<1> QED
  BY <1>1, <1>2

(* Only the check of the path makes a process one that is about to bind.   *)
LEMMA AboutNext ==
  ASSUME StateOK, NEW p \in Processes, Phases, Acts(p), AboutToBind(p)'
  PROVE  cmd[p].file /\ (CheckFile(p) \/ AboutToBind(p))
<1>0. DOMAIN pc = Processes
  BY DEF StateOK
<1>1. pc'[p] \in {"remove", "bind unix"} /\ cmd'[p].file
  BY DEF AboutToBind
<1>2. ASSUME NEW how, Leave(p, how)
      PROVE  FALSE
  BY <1>0, <1>1, <1>2 DEF Leave, GoTo
<1>3. ASSUME NEW label, GoTo(p, label)
      PROVE  pc'[p] = label
  BY <1>0, <1>3 DEF GoTo
<1>4. ~Start(p)
  BY <1>1, <1>3 DEF Start
<1>5. cmd[p].file
  BY <1>1, <1>4, ActsAlive
<1>6. CASE RemoveFile(p)
  BY <1>5, <1>6 DEF RemoveFile, AboutToBind
<1>7. CASE InstallInt(p) \/ InstallTerm(p) \/ ResetSignal(p) \/ ParseOptions(p) \/ BindUnix(p)
  BY <1>1, <1>2, <1>3, <1>7 DEF InstallInt, InstallTerm, ResetSignal, ParseOptions, BindUnix
<1>8. CASE BindTcp(p) \/ MakeLoggersAndThreads(p) \/ Poll(p) \/ Destroy(p) \/ Kill(p)
  BY <1>1, <1>2, <1>3, <1>8 DEF BindTcp, MakeLoggersAndThreads, Poll, Destroy, Kill
<1>9. ASSUME NEW s \in Signals, SendSignal(p, s)
      PROVE  AboutToBind(p)
  BY <1>1, <1>2, <1>5, <1>9 DEF SendSignal, AboutToBind
<1> QED
  BY <1>4, <1>5, <1>6, <1>7, <1>8, <1>9 DEF Acts, Step

(* A process that has bound did it in this step, or has left the path.     *)
LEMMA BoundNext ==
  ASSUME StateOK, NEW p \in Processes, Acts(p), pc'[p] \in HasBound
  PROVE  /\ UNCHANGED <<run, cmd>>
         /\ BindUnix(p) \/ (pc[p] \in HasBound /\ UNCHANGED <<path, contested>>)
<1>0. DOMAIN pc = Processes
  BY DEF StateOK
<1>1. ASSUME NEW how, Leave(p, how)
      PROVE  FALSE
  BY <1>0, <1>1 DEF Leave, GoTo, HasBound
<1>2. ASSUME NEW label, GoTo(p, label)
      PROVE  pc'[p] = label
  BY <1>0, <1>2 DEF GoTo
<1>3. ~Start(p)
  BY <1>2 DEF Start, HasBound
<1>4. CASE InstallInt(p) \/ InstallTerm(p) \/ ResetSignal(p) \/ ParseOptions(p) \/ RemoveFile(p)
           \/ CheckFile(p)
  BY <1>1, <1>2, <1>4 DEF InstallInt, InstallTerm, ResetSignal, ParseOptions, RemoveFile, CheckFile,
                          HasBound
<1>5. CASE BindTcp(p) \/ MakeLoggersAndThreads(p) \/ Poll(p)
  <2>1. pc[p] \in {"bind tcp", "loggers", "serving"}
    BY <1>5 DEF BindTcp, MakeLoggersAndThreads, Poll
  <2>2. UNCHANGED path /\ UNCHANGED contested
    BY <1>5 DEF BindTcp, MakeLoggersAndThreads, Poll, historyVars, worldVars
  <2> QED
    BY <1>3, <2>1, <2>2, ActsAlive DEF HasBound
<1>6. CASE Destroy(p) \/ Kill(p)
  BY <1>1, <1>6 DEF Destroy, Kill
<1>7. ASSUME NEW s \in Signals, SendSignal(p, s)
      PROVE  pc[p] \in HasBound /\ UNCHANGED <<path, contested>>
  BY <1>1, <1>7 DEF SendSignal
<1> QED
  BY <1>3, <1>4, <1>5, <1>6, <1>7, ActsAlive DEF Acts, Step

LEMMA HoldsStep ==
  ASSUME StateOK, HistoryOK, Phases, \A p \in Processes : Holds(p), NEW p \in Processes, Acts(p)
  PROVE  \A q \in Processes : Holds(q)'
<1> SUFFICES ASSUME NEW h \in Processes, pc'[h] \in HasBound, cmd'[h].file, ~contested'[h]
             PROVE  /\ path' = SocketOf(h, run'[h])
                    /\ \A q \in Processes \ {h} : ~AboutToBind(q)'
  BY DEF Holds
<1>1. \A q \in Processes \ {p} : AboutToBind(q)' <=> AboutToBind(q)
  BY OthersStay DEF Untouched, AboutToBind
<1>2. CASE h # p
  <2>1. pc[h] \in HasBound /\ cmd[h].file /\ run'[h] = run[h]
    BY <1>2, OthersStay DEF Untouched
  <2>2. ~contested[h]
    BY <1>2, ContestedStays
  <2>3. path = SocketOf(h, run[h]) /\ \A q \in Processes \ {h} : ~AboutToBind(q)
    BY <2>1, <2>2 DEF Holds
  <2>4. ~AboutToBind(p)
    BY <1>2, <2>3
  <2>5. UNCHANGED path
    <3>1. pc[p] = "remove" => cmd[p].file
      BY DEF Phases, Knows
    <3> QED
      BY <2>4, <3>1, PathStep DEF AboutToBind
  <2>6. ~AboutToBind(p)'
    <3> SUFFICES ASSUME AboutToBind(p)'
                 PROVE  FALSE
      OBVIOUS
    <3>1. cmd[p].file /\ CheckFile(p)
      BY <2>4, AboutNext
    <3>2. contested' = [q \in Processes |-> contested[q] \/ (q # p /\ Alive(q) /\ cmd[p].file)]
      BY <3>1 DEF CheckFile
    <3>3. Alive(h)
      BY <2>1 DEF Alive, HasBound
    <3> QED
      BY <1>2, <3>1, <3>2, <3>3
  <2> QED
    BY <1>1, <2>1, <2>3, <2>5, <2>6
<1>3. CASE h = p
  <2>1. UNCHANGED <<run, cmd>> /\ (BindUnix(p) \/ (pc[p] \in HasBound /\ UNCHANGED <<path, contested>>))
    BY <1>3, BoundNext
  <2>2. CASE BindUnix(p)
    <3>1. pc'[p] # "off" /\ cmd[p].file
      BY <1>3, <2>1 DEF HasBound
    <3>2. ~Leave(p, 1)
      BY <3>1 DEF Leave, GoTo, StateOK
    <3>3. /\ path' = SocketOf(p, run[p])
          /\ contested' = [contested EXCEPT ![p] = \E q \in Processes \ {p} : AboutToBind(q)]
      BY <2>2, <3>1, <3>2 DEF BindUnix
    <3>4. ~\E q \in Processes \ {p} : AboutToBind(q)
      BY <1>3, <3>3 DEF HistoryOK
    <3> QED
      BY <1>1, <1>3, <2>1, <3>3, <3>4
  <2>3. CASE pc[p] \in HasBound /\ UNCHANGED <<path, contested>>
    BY <1>1, <1>3, <2>1, <2>3 DEF Holds
  <2> QED
    BY <2>1, <2>2, <2>3
<1> QED
  BY <1>2, <1>3

(* A process that serves a unix socket is the one at the path, from the    *)
(* bind (src/server.cpp:22-33) until another process checks, removes or    *)
(* binds the path (src/scriptor.cpp:123-126), for any number of processes    *)
(* that start, fail, end and are killed.                                   *)
THEOREM LatestHoldsThePath == Spec => []LatestIsReachable
<1> DEFINE Held == \A p \in Processes : Holds(p)
<1>1. Init => Held
  BY DEF Init, Holds, HasBound
<1>2. Ends /\ Held /\ [Next]_vars => Held'
  <2> SUFFICES ASSUME Ends, Held, [Next]_vars
               PROVE  Held'
    OBVIOUS
  <2>1. ASSUME NEW p \in Processes, Acts(p)
        PROVE  Held'
    <3>1. StateOK /\ HistoryOK /\ Phases
      BY DEF Ends, Typed
    <3> QED
      BY <2>1, <3>1, HoldsStep
  <2>2. CASE UNCHANGED vars
    BY <2>2 DEF vars, processVars, worldVars, historyVars, Holds, AboutToBind
  <2> QED
    BY <2>1, <2>2, SomeoneActs
<1>3. Held => LatestIsReachable
  BY DEF Holds, HasBound, LatestIsReachable
<1> QED
  BY <1>1, <1>2, <1>3, EndsInvariant, PTL DEF Spec
-------------------------------------------------------------------------------
(* Starting at the same time.                                              *)

(* A live process survives unless it is about to find that another has     *)
(* taken the path since it checked.                                        *)
Survives(p) == Alive(p) /\ ~(pc[p] = "bind unix" /\ cmd[p].file /\ path # Nothing)

(* Among the sound processes one survives: who loses the path or the port  *)
(* loses it to a survivor.                                                 *)
SomeoneSurvives ==
  /\ disturbances = 0 /\ path # FullDirectory
  /\ \E p \in Processes : run[p] # 0
  /\ \A p \in Processes : run[p] # 0 => Sound(cmd[p])
  => \E p \in Processes : Survives(p)

LEMMA Undisturbed ==
  ASSUME StateOK, NEW p \in Processes, Acts(p), disturbances' = 0
  PROVE  disturbances = 0 /\ ~Kill(p) /\ \A s \in Signals : ~SendSignal(p, s)
<1>0. disturbances \in Nat
  BY RunAssumption DEF StateOK
<1>1. ~Kill(p) /\ \A s \in Signals : ~SendSignal(p, s)
  BY <1>0 DEF Kill, SendSignal
<1>2. disturbances = 0
  BY <1>1 DEF Acts, Start, Step, InstallInt, InstallTerm, ResetSignal, ParseOptions, CheckFile,
       RemoveFile, BindUnix, BindTcp, MakeLoggersAndThreads, Poll, Destroy, historyVars
<1> QED
  BY <1>1, <1>2

(* Undisturbed, a sound process that survives ends only at the port.       *)
LEMMA EndsAtPort ==
  ASSUME StateOK, Quiet, NEW p \in Processes, Acts(p), ~Start(p), disturbances' = 0,
         path # FullDirectory, Sound(cmd[p]), Survives(p), pc'[p] = "off"
  PROVE  pc[p] = "bind tcp" /\ port # None
<1>0. DOMAIN pc = Processes
  BY DEF StateOK
<1>1. ASSUME NEW label, label # "off", GoTo(p, label)
      PROVE  FALSE
  BY <1>0, <1>1 DEF GoTo
<1>2. disturbances = 0 /\ ~Kill(p) /\ \A s \in Signals : ~SendSignal(p, s)
  BY Undisturbed
<1>3. ~Destroy(p)
  BY <1>2 DEF Quiet, Destroy
<1>4. CASE InstallInt(p) \/ InstallTerm(p) \/ ResetSignal(p) \/ CheckFile(p) \/ Poll(p)
  BY <1>1, <1>4 DEF InstallInt, InstallTerm, ResetSignal, CheckFile, Poll
<1>5. CASE ParseOptions(p) \/ RemoveFile(p) \/ MakeLoggersAndThreads(p)
  BY <1>1, <1>5 DEF ParseOptions, RemoveFile, MakeLoggersAndThreads, Sound
<1>6. CASE BindUnix(p)
  BY <1>1, <1>6 DEF BindUnix, Survives
<1>7. CASE BindTcp(p)
  BY <1>1, <1>7 DEF BindTcp, Sound
<1> QED
  BY <1>2, <1>3, <1>4, <1>5, <1>6, <1>7 DEF Acts, Step

LEMMA SurvivesStep ==
  ASSUME StateOK, HistoryOK, Counted, Phases, SomeoneSurvives, NEW p \in Processes, Acts(p)
  PROVE  SomeoneSurvives'
<1> SUFFICES ASSUME disturbances' = 0, path' # FullDirectory,
                    \E q \in Processes : run'[q] # 0,
                    \A q \in Processes : run'[q] # 0 => Sound(cmd'[q])
             PROVE  \E q \in Processes : Survives(q)'
  BY DEF SomeoneSurvives, Sound
<1>1. disturbances = 0 /\ path # FullDirectory
  BY Undisturbed, DirectoryStays
<1>2. ASSUME NEW q \in Processes, pc'[q] \notin {"off", "bind unix"}
      PROVE  Survives(q)'
  BY <1>2 DEF Survives, Alive
<1>3. CASE Start(p)
  <2>1. pc'[p] = "main"
    BY <1>3 DEF Start, GoTo, StateOK
  <2> QED
    BY <1>2, <2>1
<1>4. CASE ~Start(p)
  <2>1. Alive(p) /\ UNCHANGED <<run, cmd>>
    BY <1>4, ActsAlive
  <2>2. Sound(cmd[p])
    BY <2>1 DEF Counted
  <2>3. PICK s \in Processes : Survives(s)
    BY <1>1, <2>1 DEF SomeoneSurvives
  <2>4. CASE UNCHANGED path
    <3>1. CASE s # p
      BY <2>3, <2>4, <3>1, OthersStay DEF Untouched, Survives, Alive
    <3>2. CASE s = p /\ pc'[p] # "off"
      <4>1. pc'[p] = "bind unix" /\ cmd[p].file => path' = Nothing
        BY <1>4, <2>3, <3>2, BindingNext DEF Survives
      <4> QED
        BY <2>1, <3>2, <4>1 DEF Survives, Alive
    <3>3. CASE s = p /\ pc'[p] = "off"
      <4>1. pc[p] = "bind tcp" /\ port # None
        BY <1>1, <1>4, <2>2, <2>3, <3>3, EndsAtPort DEF Phases
      <4>2. port \in Processes /\ pc[port] \in {"loggers", "serving", "destroying"}
        BY <4>1 DEF StateOK, Phases, Listening
      <4>3. port # p
        BY <4>1, <4>2
      <4>4. pc'[port] = pc[port]
        BY <4>2, <4>3, OthersStay DEF Untouched
      <4> QED
        BY <1>2, <4>2, <4>4
    <3> QED
      BY <3>1, <3>2, <3>3
  <2>5. CASE pc'[p] = "bind unix" /\ path' = Nothing
    BY <2>5 DEF Survives, Alive
  <2>6. CASE pc'[p] = "bind tcp"
    BY <1>2, <2>6
  <2> QED
    BY <2>4, <2>5, <2>6, PathStep
<1> QED
  BY <1>3, <1>4

(* Sound processes that are started together, however many, do not all     *)
(* fail between std::filesystem::exists, remove                            *)
(* (src/scriptor.cpp:123-126) and the binds (src/server.cpp:26-36).        *)
THEOREM SomeStartSucceeds == Spec => []StartsDoNotAllFail
<1>1. Init => SomeoneSurvives
  BY DEF Init, SomeoneSurvives
<1>2. Ends /\ SomeoneSurvives /\ [Next]_vars => SomeoneSurvives'
  <2> SUFFICES ASSUME Ends, SomeoneSurvives, [Next]_vars
               PROVE  SomeoneSurvives'
    OBVIOUS
  <2>1. ASSUME NEW p \in Processes, Acts(p)
        PROVE  SomeoneSurvives'
    <3>1. StateOK /\ HistoryOK /\ Counted /\ Phases
      BY DEF Ends, Typed
    <3> QED
      BY <2>1, <3>1, SurvivesStep
  <2>2. CASE UNCHANGED vars
    BY <2>2 DEF vars, processVars, worldVars, historyVars, SomeoneSurvives, Survives, Alive, Sound
  <2> QED
    BY <2>1, <2>2, SomeoneActs
<1>3. Ends /\ SomeoneSurvives => StartsDoNotAllFail
  <2> SUFFICES ASSUME Ends, SomeoneSurvives, disturbances = 0, path # FullDirectory,
                      \E p \in Processes : run[p] # 0,
                      \A p \in Processes : run[p] > 0 => Sound(cmd[p])
               PROVE  \E p \in Processes : Alive(p)
    BY DEF StartsDoNotAllFail
  <2>1. \A p \in Processes : run[p] # 0 => run[p] > 0
    BY RunAssumption DEF Ends, Typed, StateOK
  <2>2. \A p \in Processes : run[p] # 0 => Sound(cmd[p])
    BY <2>1
  <2> QED
    BY <2>2 DEF SomeoneSurvives, Survives
<1> QED
  BY <1>1, <1>2, <1>3, EndsInvariant, PTL DEF Spec
===============================================================================
