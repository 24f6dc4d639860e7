------------------------------- MODULE Pipeline -------------------------------
(***************************************************************************)
(* From the sessions to the sinks: the read handlers of the connections    *)
(* push their batches into one logger after the other                      *)
(* (src/server.cpp:144-157), every logger swaps out and forwards what it   *)
(* has (src/logger.cpp), and the destructor of the server lets the         *)
(* handlers that run come to their end and then destroys the loggers, one  *)
(* by one (src/server.cpp:124-131), while the others still forward.        *)
(*                                                                         *)
(* The parts are taken as coarsely as the modules about them allow: a push *)
(* and a swap are steps of their own, since a mutex makes them so          *)
(* (Logger), a session has one handler running at a time, and no handler   *)
(* runs once the io threads are joined (Server).                           *)
(***************************************************************************)
EXTENDS Integers, Sequences, SequencesExt

CONSTANTS
  Connections,
  Loggers,      \* how many there are
  SinkLevel,    \* the level of each logger's sink
  LevelsOf,     \* bound: the logs each connection sends, by their levels
  MaxBatch,     \* bound: logs in one read
  MaxErrors     \* bound: exceptions from the sinks

ASSUME PipelineAssumption ==
  /\ Loggers \in Nat \ {0} /\ {MaxBatch, MaxErrors} \subseteq Nat
  /\ LevelsOf \in [Connections -> Seq(Int)]
  /\ SinkLevel \in [1 .. Loggers -> Int]

LoggerNumbers == 1 .. Loggers

VARIABLES
  logs,      \* history: what each connection has sent, as far as it was read
  batch,     \* the batch a connection's handler has in hand; none: no handler
  next,      \* the logger it pushes it into next
  queue,     \* m_elements of each logger
  local,     \* the local vector of each logger's worker
  sink,      \* what each sink has taken, in order
  threw,     \* history: a call of the sink has thrown
  errors,
  stopped,   \* m_ioc.stop() was called
  done,      \* m_done of each logger
  closed     \* the logger is gone: destroyed, or its process has ended

sessionVars == <<logs, batch, next>>
loggerVars == <<queue, local, sink, threw, errors, closed>>
ownerVars == <<stopped, done>>
vars == <<sessionVars, loggerVars, ownerVars>>

Init ==
  /\ logs = [c \in Connections |-> <<>>]
  /\ batch = [c \in Connections |-> <<>>]
  /\ next = [c \in Connections |-> 1]
  /\ queue = [l \in LoggerNumbers |-> <<>>]
  /\ local = [l \in LoggerNumbers |-> <<>>]
  /\ sink = [l \in LoggerNumbers |-> <<>>]
  /\ threw = [l \in LoggerNumbers |-> FALSE]
  /\ errors = 0
  /\ stopped = FALSE
  /\ done = [l \in LoggerNumbers |-> FALSE]
  /\ closed = [l \in LoggerNumbers |-> FALSE]

-------------------------------------------------------------------------------
(* The handlers.  Where an operation is preceded by a variant of itself,   *)
(* the variant is a defect for mutation testing.                           *)

LogOf(c, n) == [from |-> c, n |-> n, level |-> LevelsOf[c][n]]

\* Bytes with complete logs in them; a read without any pushes nothing.
Receive(c) ==
  /\ ~stopped
  /\ batch[c] = <<>>
  /\ \E len \in 1 .. MaxBatch :
       LET new == [i \in 1 .. len |-> LogOf(c, Len(logs[c]) + i)] IN
       /\ Len(logs[c]) + len <= Len(LevelsOf[c])
       /\ logs' = [logs EXCEPT ![c] = @ \o new]
       /\ batch' = [batch EXCEPT ![c] = new]
  /\ next' = [next EXCEPT ![c] = 1]
  /\ UNCHANGED <<loggerVars, ownerVars>>

Insert(l, new) == queue' = [queue EXCEPT ![l] = @ \o new]

AllButLast == Loggers - 1
LastLogger == Loggers

\* The handler ends with its last push; until then no other one of c runs.
Push(c) ==
  /\ batch[c] # <<>>
  /\ Insert(next[c], batch[c])
  /\ IF next[c] < LastLogger
       THEN next' = [next EXCEPT ![c] = @ + 1] /\ UNCHANGED batch
       ELSE batch' = [batch EXCEPT ![c] = <<>>] /\ UNCHANGED next
  /\ UNCHANGED <<logs, local, sink, threw, errors, closed, ownerVars>>

-------------------------------------------------------------------------------
(* The loggers.                                                            *)

ShouldLog(l, e) == e.level >= SinkLevel[l]

\* m_done is looked at first, and between batches only.
Swap(l) ==
  /\ ~closed[l] /\ ~done[l]
  /\ local[l] = <<>> /\ queue[l] # <<>>
  /\ local' = [local EXCEPT ![l] = queue[l]]
  /\ queue' = [queue EXCEPT ![l] = <<>>]
  /\ UNCHANGED <<sessionVars, sink, threw, errors, closed, ownerVars>>

Forward(l) ==
  /\ local[l] # <<>>
  /\ sink' = IF ShouldLog(l, Head(local[l]))
               THEN [sink EXCEPT ![l] = Append(@, Head(local[l]))] ELSE sink
  /\ local' = [local EXCEPT ![l] = Tail(@)]
  /\ UNCHANGED <<sessionVars, queue, threw, errors, closed, ownerVars>>

\* The exception ends the batch, not the worker.
LoseAllBatches(l) == local' = [k \in LoggerNumbers |-> <<>>]
LoseBatch(l) == local' = [local EXCEPT ![l] = <<>>]

SinkThrows(l) ==
  /\ errors < MaxErrors
  /\ local[l] # <<>> /\ ShouldLog(l, Head(local[l]))
  /\ LoseBatch(l)
  /\ threw' = [threw EXCEPT ![l] = TRUE]
  /\ errors' = errors + 1
  /\ UNCHANGED <<sessionVars, queue, sink, closed, ownerVars>>

\* The worker leaves its loop; what is queued goes with the logger.
Close(l) ==
  /\ done[l] /\ ~closed[l]
  /\ local[l] = <<>>
  /\ closed' = [closed EXCEPT ![l] = TRUE]
  /\ queue' = [queue EXCEPT ![l] = <<>>]
  /\ UNCHANGED <<sessionVars, local, sink, threw, errors, ownerVars>>

(* The flush in front of that is outside the try block: if it throws, the  *)
(* process ends, with what the other loggers have in hand and in m_elements.*)
CloseThrows(l) ==
  /\ errors < MaxErrors
  /\ done[l] /\ ~closed[l]
  /\ local[l] = <<>>
  /\ threw' = [threw EXCEPT ![l] = TRUE]
  /\ errors' = errors + 1
  /\ closed' = [k \in LoggerNumbers |-> TRUE]
  /\ queue' = [k \in LoggerNumbers |-> <<>>]
  /\ local' = [k \in LoggerNumbers |-> <<>>]
  /\ UNCHANGED <<sessionVars, sink, ownerVars>>

-------------------------------------------------------------------------------
(* The owner.                                                              *)

Stop ==
  /\ ~stopped
  /\ stopped' = TRUE
  /\ UNCHANGED <<sessionVars, loggerVars, done>>

JoinNone == TRUE
Joined == \A c \in Connections : batch[c] = <<>>

\* m_loggers.clear(): the first to the last, each joined before the next.
Destroy(l) ==
  /\ stopped /\ Joined
  /\ ~done[l] /\ ~closed[l] /\ \A k \in 1 .. l - 1 : closed[k]
  /\ done' = [done EXCEPT ![l] = TRUE]
  /\ UNCHANGED <<sessionVars, loggerVars, stopped>>

Finished == (\A l \in LoggerNumbers : closed[l]) /\ UNCHANGED vars

LoggerNext(l) == Swap(l) \/ Forward(l) \/ SinkThrows(l) \/ Close(l) \/ CloseThrows(l)

Next ==
  \/ \E c \in Connections : Receive(c) \/ Push(c)
  \/ \E l \in LoggerNumbers : LoggerNext(l) \/ Destroy(l)
  \/ Stop
  \/ Finished

Spec == Init /\ [][Next]_vars

(* A handler that runs comes to its end, the workers run, and a shutdown    *)
(* that was begun goes on.  Nobody has to send logs or to stop the server.  *)
FairSpec ==
  /\ Spec
  /\ \A c \in Connections : WF_vars(Push(c))
  /\ \A l \in LoggerNumbers : WF_vars(LoggerNext(l)) /\ WF_vars(Destroy(l))

-------------------------------------------------------------------------------
(* Properties.                                                             *)

Log == [from : Connections, n : Nat \ {0}, level : Int]

(* The elements of seq that are in S, in their order: SelectSeq, written   *)
(* as a recursive function, of which more can be proved.                   *)
Picked(seq, S) ==
  LET picked[i \in 0 .. Len(seq)] ==
        IF i = 0 THEN <<>>
        ELSE picked[i - 1] \o (IF seq[i] \in S THEN <<seq[i]>> ELSE <<>>)
  IN picked[Len(seq)]

From(c, seq) == Picked(seq, {e \in Log : e.from = c})
Admitted(l, seq) == Picked(seq, {e \in Log : ShouldLog(l, e)})

(* What logger l was given of connection c so far: all, but for a batch    *)
(* that has not come to l yet.                                             *)
GivenTo(l, c) ==
  IF batch[c] # <<>> /\ next[c] <= l
    THEN SubSeq(logs[c], 1, Len(logs[c]) - Len(batch[c])) ELSE logs[c]

(* In a logger whose sink never threw nothing is missing while it lives,   *)
(* whatever other connections, other sinks' errors and the shutdown do;    *)
(* and once it is gone, only the end of what each connection sent: also if *)
(* another sink's last flush ended the process in the middle of a batch.   *)
SinkHoldsWhatWasSent ==
  \A l \in LoggerNumbers, c \in Connections :
    ~threw[l] =>
      LET line == From(c, sink[l] \o Admitted(l, local[l] \o queue[l])) IN
      IF closed[l] THEN IsPrefix(line, Admitted(l, logs[c]))
                   ELSE line = Admitted(l, GivenTo(l, c))

(* Every logger is the lossy queue that is proved of Logger, all at once:  *)
(* a step of the server is a step of each queue, or none of its.           *)
Queue(l) == INSTANCE LossyQueue WITH
  pending <- local[l] \o queue[l], sink <- sink[l], closed <- closed[l]

ImplementsQueues ==
  /\ \A l \in LoggerNumbers : Queue(l)!Init
  /\ [][\A l \in LoggerNumbers : Queue(l)!Next \/ UNCHANGED Queue(l)!vars]_vars

Missing(l, c) ==
  {i \in 1 .. Len(logs[c]) : ShouldLog(l, logs[c][i]) /\ ~Contains(sink[l], logs[c][i])}

(* As long as no sink throws and nobody stops the server, all sinks catch  *)
(* up, again and again, with all that was read.                            *)
SinksCatchUp ==
  \A l \in LoggerNumbers :
    []<>(threw[l] \/ stopped \/ \A c \in Connections : Missing(l, c) = {})
===============================================================================
