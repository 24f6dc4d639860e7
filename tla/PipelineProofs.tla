---------------------------- MODULE PipelineProofs ----------------------------
(***************************************************************************)
(* Proofs about Pipeline, for any number of connections and loggers, logs  *)
(* of any levels, and any number of exceptions from the sinks.             *)
(***************************************************************************)
EXTENDS Pipeline, SequenceTheorems, WellFoundedInduction, TLAPS

-------------------------------------------------------------------------------
(* Types.                                                                  *)

SessionsTyped ==
  /\ logs \in [Connections -> Seq(Log)]
  /\ batch \in [Connections -> Seq(Log)]
  /\ next \in [Connections -> LoggerNumbers]

LoggersTyped ==
  /\ queue \in [LoggerNumbers -> Seq(Log)]
  /\ local \in [LoggerNumbers -> Seq(Log)]
  /\ sink \in [LoggerNumbers -> Seq(Log)]

OwnerTyped ==
  /\ done \in [LoggerNumbers -> BOOLEAN]
  /\ closed \in [LoggerNumbers -> BOOLEAN]
  /\ threw \in [LoggerNumbers -> BOOLEAN]
  /\ stopped \in BOOLEAN

Typed == SessionsTyped /\ LoggersTyped /\ OwnerTyped

(* The loggers go after the last handler, and nothing is left in one that  *)
(* is gone.                                                                *)
Phases ==
  /\ \A l \in LoggerNumbers :
       done[l] \/ closed[l] => stopped /\ \A c \in Connections : batch[c] = <<>>
  /\ \A l \in LoggerNumbers : closed[l] => local[l] = <<>> /\ queue[l] = <<>>

LEMMA TypedInit == Init => Typed /\ Phases
<1> SUFFICES ASSUME Init
             PROVE  Typed /\ Phases
  OBVIOUS
<1>1. SessionsTyped
  BY PipelineAssumption, EmptySeq DEF Init, SessionsTyped, LoggerNumbers
<1>2. LoggersTyped
  BY EmptySeq DEF Init, LoggersTyped
<1>3. OwnerTyped
  <2>1. stopped \in BOOLEAN
    BY Zenon DEF Init
  <2> QED
    BY <2>1 DEF Init, OwnerTyped
<1>4. Phases
  BY DEF Init, Phases
<1> QED
  BY <1>1, <1>2, <1>3, <1>4 DEF Typed

LEMMA NewType ==
  ASSUME NEW c \in Connections, NEW m \in Nat, NEW len \in Nat, m + len <= Len(LevelsOf[c])
  PROVE  [i \in 1 .. len |-> LogOf(c, m + i)] \in Seq(Log)
<1>1. LevelsOf[c] \in Seq(Int)
  BY PipelineAssumption
<1>2. \A i \in 1 .. len : m + i \in 1 .. Len(LevelsOf[c])
  BY <1>1, LenProperties
<1>3. \A i \in 1 .. len : LevelsOf[c][m + i] \in Int
  BY <1>1, <1>2, ElementOfSeq
<1>4. \A i \in 1 .. len : LogOf(c, m + i) \in Log
  <2> SUFFICES ASSUME NEW i \in 1 .. len
               PROVE  LogOf(c, m + i) \in Log
    OBVIOUS
  <2>1. m + i \in Nat \ {0}
    OBVIOUS
  <2> DEFINE k == m + i
  <2>2. k \in Nat \ {0} /\ LevelsOf[c][k] \in Int
    BY <1>3, <2>1
  <2> HIDE DEF k
  <2>3. LogOf(c, k) \in Log
    BY <2>2 DEF LogOf, Log
  <2> QED
    BY <2>3 DEF k
<1> QED
  BY <1>4

LEMMA SessionsTypedStep == Typed /\ [Next]_vars => SessionsTyped'
<1> SUFFICES ASSUME Typed, [Next]_vars
             PROVE  SessionsTyped'
  OBVIOUS
<1> USE DEF Typed, SessionsTyped
<1>1. ASSUME NEW c \in Connections, Receive(c)
      PROVE  SessionsTyped'
  <2>1. PICK len \in 1 .. MaxBatch :
          LET new == [i \in 1 .. len |-> LogOf(c, Len(logs[c]) + i)] IN
          /\ Len(logs[c]) + len <= Len(LevelsOf[c])
          /\ logs' = [logs EXCEPT ![c] = @ \o new]
          /\ batch' = [batch EXCEPT ![c] = new]
    BY <1>1 DEF Receive
  <2> DEFINE new == [i \in 1 .. len |-> LogOf(c, Len(logs[c]) + i)]
  <2>2. logs[c] \in Seq(Log) /\ Len(logs[c]) \in Nat /\ len \in Nat
    BY PipelineAssumption, LenProperties
  <2>3. new \in Seq(Log)
    BY <2>1, <2>2, NewType
  <2> HIDE DEF new
  <2>4. logs' = [logs EXCEPT ![c] = @ \o new] /\ batch' = [batch EXCEPT ![c] = new]
    BY <2>1 DEF new
  <2>5. logs[c] \o new \in Seq(Log)
    BY <2>2, <2>3, ConcatProperties
  <2>6. next' \in [Connections -> LoggerNumbers]
    BY <1>1, PipelineAssumption DEF Receive, LoggerNumbers
  <2> QED
    BY <2>3, <2>4, <2>5, <2>6
<1>2. ASSUME NEW c \in Connections, Push(c)
      PROVE  SessionsTyped'
  <2>1. next[c] < Loggers => next[c] + 1 \in LoggerNumbers
    BY PipelineAssumption DEF LoggerNumbers
  <2> QED
    BY <1>2, <2>1, EmptySeq DEF Push, LastLogger
<1>3. CASE UNCHANGED sessionVars
  BY <1>3 DEF sessionVars
<1>4. ASSUME NEW l \in LoggerNumbers, LoggerNext(l) \/ Destroy(l)
      PROVE  UNCHANGED sessionVars
  BY <1>4 DEF LoggerNext, Swap, Forward, SinkThrows, Close, CloseThrows, Destroy
<1> QED
  BY <1>1, <1>2, <1>3, <1>4 DEF Next, Stop, Finished, vars

LEMMA LoggersTypedStep == Typed /\ [Next]_vars => LoggersTyped'
<1> SUFFICES ASSUME Typed, [Next]_vars
             PROVE  LoggersTyped'
  OBVIOUS
<1> USE DEF Typed, LoggersTyped
<1>1. ASSUME NEW c \in Connections, Push(c)
      PROVE  LoggersTyped'
  <2>1. next[c] \in LoggerNumbers /\ batch[c] \in Seq(Log)
    BY DEF SessionsTyped
  <2>2. queue[next[c]] \o batch[c] \in Seq(Log)
    BY <2>1, ConcatProperties
  <2> QED
    BY <1>1, <2>2 DEF Push, Insert
<1>2. ASSUME NEW l \in LoggerNumbers, Swap(l) \/ SinkThrows(l) \/ Close(l) \/ CloseThrows(l)
      PROVE  LoggersTyped'
  <2>1. <<>> \in Seq(Log) /\ queue[l] \in Seq(Log)
    BY EmptySeq
  <2>2. CASE Swap(l)
    BY <2>1, <2>2 DEF Swap
  <2>3. CASE SinkThrows(l)
    BY <2>1, <2>3 DEF SinkThrows, LoseBatch
  <2>4. CASE Close(l)
    BY <2>1, <2>4 DEF Close
  <2>5. CASE CloseThrows(l)
    BY <2>1, <2>5 DEF CloseThrows
  <2> QED
    BY <1>2, <2>2, <2>3, <2>4, <2>5
<1>3. ASSUME NEW l \in LoggerNumbers, Forward(l)
      PROVE  LoggersTyped'
  <2>1. local[l] # <<>> /\ local[l] \in Seq(Log) /\ sink[l] \in Seq(Log)
    BY <1>3 DEF Forward
  <2>2. Head(local[l]) \in Log /\ Tail(local[l]) \in Seq(Log)
    BY <2>1, HeadTailProperties
  <2>3. Append(sink[l], Head(local[l])) \in Seq(Log)
    BY <2>1, <2>2, AppendProperties
  <2> QED
    BY <1>3, <2>2, <2>3 DEF Forward
<1>4. CASE UNCHANGED loggerVars
  BY <1>4 DEF loggerVars
<1>5. ASSUME NEW c \in Connections, Receive(c)
      PROVE  UNCHANGED loggerVars
  BY <1>5 DEF Receive
<1>6. ASSUME NEW l \in LoggerNumbers, Destroy(l)
      PROVE  UNCHANGED loggerVars
  BY <1>6 DEF Destroy
<1> QED
  BY <1>1, <1>2, <1>3, <1>4, <1>5, <1>6 DEF Next, LoggerNext, Stop, Finished, vars

LEMMA OwnerTypedStep == Typed /\ [Next]_vars => OwnerTyped'
<1> SUFFICES ASSUME OwnerTyped, [Next]_vars
             PROVE  OwnerTyped'
  BY DEF Typed
<1>1. ASSUME NEW c \in Connections, Receive(c) \/ Push(c)
      PROVE  OwnerTyped'
  BY <1>1 DEF OwnerTyped, Receive, Push, loggerVars, ownerVars
<1>2. ASSUME NEW l \in LoggerNumbers, LoggerNext(l)
      PROVE  OwnerTyped'
  BY <1>2 DEF OwnerTyped, LoggerNext, Swap, Forward, SinkThrows, Close, CloseThrows, ownerVars
<1>3. ASSUME NEW l \in LoggerNumbers, Destroy(l)
      PROVE  OwnerTyped'
  BY <1>3 DEF OwnerTyped, Destroy, loggerVars
<1>4. CASE Stop
  BY <1>4 DEF OwnerTyped, Stop, loggerVars
<1>5. CASE Finished \/ UNCHANGED vars
  BY <1>5 DEF OwnerTyped, Finished, vars, loggerVars, ownerVars
<1> QED
  BY <1>1, <1>2, <1>3, <1>4, <1>5 DEF Next

LEMMA PhasesStep == Typed /\ Phases /\ [Next]_vars => Phases'
<1> SUFFICES ASSUME Typed, Phases, [Next]_vars
             PROVE  Phases'
  OBVIOUS
<1> USE DEF Phases
<1>0. /\ done \in [LoggerNumbers -> BOOLEAN] /\ closed \in [LoggerNumbers -> BOOLEAN]
      /\ DOMAIN local = LoggerNumbers /\ DOMAIN queue = LoggerNumbers
      /\ DOMAIN batch = Connections
  BY DEF Typed, OwnerTyped, SessionsTyped, LoggersTyped
<1>1. ASSUME NEW c \in Connections, Receive(c)
      PROVE  Phases'
  BY <1>1 DEF Receive, loggerVars, ownerVars
<1>2. ASSUME NEW c \in Connections, Push(c)
      PROVE  Phases'
  <2>1. \A l \in LoggerNumbers : ~done[l] /\ ~closed[l]
    BY <1>2 DEF Push
  <2> QED
    BY <1>2, <2>1 DEF Push, ownerVars
<1>3. ASSUME NEW l \in LoggerNumbers, LoggerNext(l)
      PROVE  Phases'
  <2>1. UNCHANGED <<done, stopped, batch>>
    BY <1>3 DEF LoggerNext, Swap, Forward, SinkThrows, Close, CloseThrows, sessionVars, ownerVars
  <2>2. CASE Swap(l)
    BY <1>0, <2>1, <2>2 DEF Swap
  <2>3. CASE Forward(l) \/ SinkThrows(l)
    <3>1. local[l] # <<>> /\ UNCHANGED <<queue, closed>> /\ \A k \in LoggerNumbers \ {l} : local'[k] = local[k]
      BY <1>0, <2>3 DEF Forward, SinkThrows, LoseBatch
    <3> QED
      BY <2>1, <3>1
  <2>4. CASE Close(l)
    BY <1>0, <2>1, <2>4 DEF Close
  <2>5. CASE CloseThrows(l)
    <3>1. stopped /\ \A c \in Connections : batch[c] = <<>>
      BY <2>5 DEF CloseThrows
    <3> QED
      BY <2>1, <2>5, <3>1 DEF CloseThrows
  <2> QED
    BY <1>3, <2>2, <2>3, <2>4, <2>5 DEF LoggerNext
<1>4. ASSUME NEW l \in LoggerNumbers, Destroy(l)
      PROVE  Phases'
  BY <1>0, <1>4 DEF Destroy, Joined, sessionVars, loggerVars
<1>5. CASE Stop
  BY <1>5 DEF Stop, sessionVars, loggerVars
<1>6. CASE Finished \/ UNCHANGED vars
  BY <1>6 DEF Finished, vars, sessionVars, loggerVars, ownerVars
<1> QED
  BY <1>1, <1>2, <1>3, <1>4, <1>5, <1>6 DEF Next

LEMMA PhasesInvariant == Spec => [](Typed /\ Phases)
<1>1. Typed /\ Phases /\ [Next]_vars => Typed' /\ Phases'
  BY SessionsTypedStep, LoggersTypedStep, OwnerTypedStep, PhasesStep DEF Typed
<1> QED
  BY <1>1, TypedInit, PTL DEF Spec
-------------------------------------------------------------------------------
(* The queues.                                                             *)

LEMMA Associative == \A s, t, u \in Seq(Log) : (s \o t) \o u = s \o (t \o u)
BY ConcatAssociative

(* The parts of two sequences put together.                                *)
LEMMA FrontOfConcat ==
  ASSUME NEW S, NEW s \in Seq(S), NEW t \in Seq(S)
  PROVE  SubSeq(s \o t, 1, Len(s)) = s
<1> DEFINE long == s \o t
<1>1. /\ long \in Seq(S) /\ Len(long) = Len(s) + Len(t) /\ Len(s) \in Nat /\ Len(t) \in Nat
      /\ \A i \in 1 .. Len(s) : long[i] = s[i]
  BY ConcatProperties, LenProperties
<1> HIDE DEF long
<1>2. SubSeq(long, 1, Len(s)) = s
  BY <1>1
<1> QED
  BY <1>2 DEF long

LEMMA BackOfConcat ==
  ASSUME NEW S, NEW s \in Seq(S), NEW t \in Seq(S)
  PROVE  SubSeq(s \o t, Len(s) + 1, Len(s \o t)) = t
<1> DEFINE long == s \o t
<1>1. /\ long \in Seq(S) /\ Len(long) = Len(s) + Len(t) /\ Len(s) \in Nat /\ Len(t) \in Nat
      /\ \A i \in 1 .. Len(t) : long[Len(s) + i] = t[i]
  BY ConcatProperties, LenProperties
<1> HIDE DEF long
<1>2. SubSeq(long, Len(s) + 1, Len(long)) = t
  BY <1>1
<1> QED
  BY <1>2 DEF long

LEMMA HeadTailOfConcat ==
  ASSUME NEW S, NEW s \in Seq(S), NEW t \in Seq(S), s # <<>>
  PROVE  /\ s \o t # <<>>
         /\ Head(s \o t) = Head(s)
         /\ Tail(s \o t) = Tail(s) \o t
OBVIOUS

(* What a step does to logger l, if anything.                              *)
Same(l) == /\ local'[l] = local[l] /\ queue'[l] = queue[l]
           /\ sink'[l] = sink[l] /\ closed'[l] = closed[l]

LEMMA SameStutters ==
  ASSUME NEW l \in LoggerNumbers, Same(l)
  PROVE  UNCHANGED Queue(l)!vars
BY DEF Same, Queue!vars

LEMMA PushEnqueues ==
  ASSUME Typed, Phases, NEW c \in Connections, Push(c), NEW l \in LoggerNumbers
  PROVE  Queue(l)!Next \/ UNCHANGED Queue(l)!vars
<1>0. /\ batch[c] \in Seq(Log) /\ batch[c] # <<>> /\ UNCHANGED <<local, sink, closed>>
      /\ queue' = [queue EXCEPT ![next[c]] = @ \o batch[c]]
      /\ queue \in [LoggerNumbers -> Seq(Log)] /\ local[l] \in Seq(Log) /\ queue[l] \in Seq(Log)
  BY DEF Push, Insert, Typed, SessionsTyped, LoggersTyped
<1>1. CASE l # next[c]
  BY <1>0, <1>1, SameStutters DEF Same
<1>2. CASE l = next[c]
  <2> DEFINE q == queue[l]
             b == batch[c]
             line == local[l] \o q
  <2>1. queue'[l] = q \o b
    BY <1>0, <1>2
  <2>2. q \in Seq(Log) /\ b \in Seq(Log) /\ b # <<>> /\ line \in Seq(Log)
    BY <1>0, ConcatProperties
  <2>3. local[l] \o (q \o b) = line \o b
    <3> HIDE DEF q, b
    <3>1. local[l] \in Seq(Log) /\ q \in Seq(Log) /\ b \in Seq(Log)
      BY <1>0, <2>2
    <3>2. (local[l] \o q) \o b = local[l] \o (q \o b)
      BY <3>1, Associative, Zenon
    <3> QED
      BY <3>2, Zenon
  <2> HIDE DEF q, b, line
  <2>4. Len(b) \in Nat \ {0} /\ Len(line) \in Nat /\ Len(line \o b) = Len(line) + Len(b)
    BY <2>2, LenProperties, EmptySeq, ConcatProperties
  <2>5. SubSeq(line \o b, 1, Len(line)) = line
    BY <2>2, FrontOfConcat
  <2>6. ~closed[l]
    BY <2>2 DEF Phases, b
  <2>7. local'[l] \o queue'[l] = line \o b
    BY <1>0, <2>1, <2>3
  <2>8. /\ ~closed[l] /\ sink'[l] = sink[l] /\ closed'[l] = closed[l]
        /\ Len(local'[l] \o queue'[l]) > Len(line)
        /\ SubSeq(local'[l] \o queue'[l], 1, Len(line)) = line
    <3>1. Len(line \o b) > Len(line)
      BY <2>4
    <3>2. UNCHANGED <<local, sink, closed>>
      BY <1>0
    <3> QED
      BY <2>5, <2>6, <2>7, <3>1, <3>2, Zenon
  <2>9. Queue(l)!Enqueue
    <3>1. line = local[l] \o queue[l]
      BY DEF line, q
    <3> QED
      BY <2>8, <3>1, Zenon DEF Queue!Enqueue
  <2> QED
    BY <2>9 DEF Queue!Next
<1> QED
  BY <1>1, <1>2

(* The end of the process is the end of every queue that is left.          *)
LEMMA ProcessEnds ==
  ASSUME Typed, Phases, NEW k \in LoggerNumbers, CloseThrows(k), NEW l \in LoggerNumbers
  PROVE  /\ closed[l] => Same(l)
         /\ ~closed[l] => Queue(l)!Close
<1>1. /\ local'[l] = <<>> /\ queue'[l] = <<>> /\ closed'[l] = TRUE /\ sink'[l] = sink[l]
  BY DEF CloseThrows
<1>2. closed[l] \in BOOLEAN
  BY DEF Typed, OwnerTyped
<1>3. closed[l] => Same(l)
  BY <1>1, <1>2 DEF Phases, Same
<1>4. local'[l] \o queue'[l] = <<>>
  BY <1>1
<1>5. ~closed[l] => Queue(l)!Close
  BY <1>1, <1>4 DEF Queue!Close
<1> QED
  BY <1>3, <1>5

LEMMA LoggerForwards ==
  ASSUME Typed, Phases, NEW l \in LoggerNumbers, LoggerNext(l)
  PROVE  Queue(l)!Next \/ UNCHANGED Queue(l)!vars
<1> DEFINE q == queue[l]
           b == local[l]
           line == b \o q
<1>0. /\ q \in Seq(Log) /\ b \in Seq(Log) /\ line \in Seq(Log)
      /\ Len(line) = Len(b) + Len(q) /\ Len(b) \in Nat /\ Len(q) \in Nat
      /\ DOMAIN queue = LoggerNumbers /\ DOMAIN local = LoggerNumbers
      /\ DOMAIN sink = LoggerNumbers /\ DOMAIN closed = LoggerNumbers
  BY ConcatProperties, LenProperties DEF Typed, LoggersTyped, OwnerTyped
<1>1. CASE Swap(l)
  <2>1. /\ b = <<>> /\ local'[l] = q /\ queue'[l] = <<>>
        /\ sink'[l] = sink[l] /\ closed'[l] = closed[l]
    BY <1>0, <1>1 DEF Swap
  <2> HIDE DEF q, b
  <2>2. q \o <<>> = q /\ <<>> \o q = q
    BY <1>0, ConcatEmptySeq
  <2>3. local'[l] \o queue'[l] = local[l] \o queue[l]
    BY <2>1, <2>2 DEF q, b
  <2> QED
    BY <2>1, <2>3 DEF Queue!vars
<1>2. CASE Forward(l) \/ SinkThrows(l)
  <2>1. b # <<>> /\ queue'[l] = q /\ UNCHANGED closed
    BY <1>2 DEF Forward, SinkThrows
  <2>2. ~closed[l]
    BY <2>1 DEF Phases
  <2> DEFINE h == Head(b)
             t == Tail(b)
  <2>3. /\ h \in Log /\ t \in Seq(Log) /\ Len(b) >= 1
        /\ Head(line) = h /\ Tail(line) = t \o q /\ line # <<>>
    <3> HIDE DEF q, b
    <3>1. h \in Log /\ t \in Seq(Log) /\ Len(b) >= 1
      BY <1>0, <2>1, HeadTailProperties, EmptySeq
    <3> QED
      BY <1>0, <2>1, <3>1, HeadTailOfConcat
  <2> HIDE DEF h, t
  <2>4. CASE Forward(l) /\ ShouldLog(l, h)
    <3>1. sink'[l] = Append(sink[l], h) /\ local'[l] = t
      BY <1>0, <2>4 DEF Forward, h, t
    <3>2. /\ line # <<>> /\ sink'[l] = Append(sink[l], Head(line))
          /\ local'[l] \o queue'[l] = Tail(line) /\ closed'[l] = closed[l]
      BY <2>1, <2>3, <3>1
    <3>3. Queue(l)!Forward
      BY <2>2, <3>2 DEF Queue!Forward
    <3> QED
      BY <3>3 DEF Queue!Next
  <2>5. ASSUME NEW k \in 1 .. Len(line), local'[l] \o queue'[l] = SubSeq(line, k + 1, Len(line)),
               sink'[l] = sink[l]
        PROVE  Queue(l)!Next
    <3>1. Queue(l)!Discard
      BY <2>1, <2>2, <2>5 DEF Queue!Discard
    <3> QED
      BY <3>1 DEF Queue!Next
  <2>6. CASE Forward(l) /\ ~ShouldLog(l, h)
    <3>1. sink'[l] = sink[l] /\ local'[l] = t
      BY <1>0, <2>6 DEF Forward, h, t
    <3>2. local'[l] \o queue'[l] = Tail(line)
      BY <2>1, <2>3, <3>1
    <3>4. 1 \in 1 .. Len(line)
      <4> HIDE DEF b, q, line
      <4> QED
        BY <1>0, <2>3
    <3>3. Tail(line) = SubSeq(line, 1 + 1, Len(line))
      BY <1>0, <2>3, TailIsSubSeq
    <3> QED
      BY <2>5, <3>1, <3>2, <3>3, <3>4
  <2>7. CASE SinkThrows(l)
    <3>1. sink'[l] = sink[l] /\ local'[l] = <<>>
      BY <1>0, <2>7 DEF SinkThrows, LoseBatch
    <3>2. <<>> \o q = q /\ Len(b) \in 1 .. Len(line)
      BY <1>0, <2>3, ConcatEmptySeq
    <3>3. SubSeq(line, Len(b) + 1, Len(line)) = q
      <4> HIDE DEF q, b
      <4> QED
        BY <1>0, BackOfConcat
    <3> QED
      BY <2>1, <2>5, <3>1, <3>2, <3>3
  <2> QED
    BY <1>2, <2>4, <2>6, <2>7
<1>3. CASE Close(l)
  <2>1. /\ ~closed[l] /\ local'[l] = <<>> /\ queue'[l] = <<>> /\ closed'[l] = TRUE
        /\ sink'[l] = sink[l]
    BY <1>0, <1>3 DEF Close
  <2>2. local'[l] \o queue'[l] = <<>>
    BY <2>1
  <2>3. Queue(l)!Close
    BY <2>1, <2>2 DEF Queue!Close
  <2> QED
    BY <2>3 DEF Queue!Next
<1>4. CASE CloseThrows(l)
  BY <1>4, ProcessEnds, SameStutters DEF Queue!Next
<1> QED
  BY <1>1, <1>2, <1>3, <1>4 DEF LoggerNext

LEMMA QueuesStep ==
  ASSUME Typed, Phases, [Next]_vars, NEW l \in LoggerNumbers
  PROVE  Queue(l)!Next \/ UNCHANGED Queue(l)!vars
<1>1. ASSUME NEW c \in Connections, Push(c)
      PROVE  Queue(l)!Next \/ UNCHANGED Queue(l)!vars
  BY <1>1, PushEnqueues
<1>2. ASSUME NEW k \in LoggerNumbers, LoggerNext(k)
      PROVE  Queue(l)!Next \/ UNCHANGED Queue(l)!vars
  <2>1. CASE k = l
    BY <1>2, <2>1, LoggerForwards
  <2>3. CASE CloseThrows(k)
    BY <2>3, ProcessEnds, SameStutters DEF Queue!Next
  <2>2. CASE k # l /\ ~CloseThrows(k)
    <3>1. /\ DOMAIN queue = LoggerNumbers /\ DOMAIN local = LoggerNumbers
          /\ DOMAIN sink = LoggerNumbers /\ DOMAIN closed = LoggerNumbers
      BY DEF Typed, LoggersTyped, OwnerTyped
    <3>2. Same(l)
      BY <1>2, <2>2, <3>1 DEF LoggerNext, Swap, Forward, SinkThrows, LoseBatch, Close, Same
    <3> QED
      BY <3>2, SameStutters
  <2> QED
    BY <2>1, <2>2, <2>3
<1>3. ASSUME UNCHANGED loggerVars
      PROVE  UNCHANGED Queue(l)!vars
  BY <1>3, SameStutters DEF loggerVars, Same
<1>4. ASSUME NEW c \in Connections, Receive(c)
      PROVE  UNCHANGED loggerVars
  BY <1>4 DEF Receive
<1>5. ASSUME NEW k \in LoggerNumbers, Destroy(k)
      PROVE  UNCHANGED loggerVars
  BY <1>5 DEF Destroy
<1> QED
  BY <1>1, <1>2, <1>3, <1>4, <1>5 DEF Next, Stop, Finished, vars

(* Every logger of the server is the queue that loses but neither reorders *)
(* nor repeats (LossyQueue), all of them at once: none of what the         *)
(* connections push into the others (src/server.cpp:144-157), or their     *)
(* sinks throw, disturbs it, until a last flush that throws closes all.    *)
THEOREM EveryLoggerIsAQueue == Spec => ImplementsQueues
<1>1. Init => \A l \in LoggerNumbers : Queue(l)!Init
  BY DEF Init, Queue!Init
<1>2. Typed /\ Phases /\ [Next]_vars =>
        [\A l \in LoggerNumbers : Queue(l)!Next \/ UNCHANGED Queue(l)!vars]_vars
  BY QueuesStep
<1> QED
  BY <1>1, <1>2, PhasesInvariant, PTL DEF Spec, ImplementsQueues
-------------------------------------------------------------------------------
(* Picked.                                                                 *)

(* Induction, with the numbers a fact holds of as a set: if not, the least *)
(* one outside it would contradict the step.                               *)
LEMMA Upward ==
  ASSUME NEW m \in Nat, NEW G, 0 \in G, \A i \in 1 .. m : i - 1 \in G => i \in G
  PROVE  \A i \in 0 .. m : i \in G
<1> DEFINE S == {i \in 0 .. m : i \notin G}
<1> SUFFICES ASSUME S # {} PROVE FALSE
  OBVIOUS
<1>1. PICK k \in S : \A i \in S : k <= i
  <2> DEFINE Less == OpToRel(<, Nat)
  <2>1. IsWellFoundedOn(Less, Nat)
    BY NatLessThanWellFounded
  <2>2. S \subseteq Nat
    OBVIOUS
  <2>3. PICK k \in S : \A i \in S : <<i, k>> \notin Less
    <3> HIDE DEF Less, S
    <3> QED
      BY <2>1, <2>2, WFMin
  <2>4. \A i \in S : ~(i < k)
    BY <2>2, <2>3 DEF OpToRel
  <2> HIDE DEF Less
  <2> QED
    BY <2>2, <2>4
<1>2. k \in 1 .. m /\ k - 1 \in 0 .. m /\ k - 1 \notin S
  BY <1>1
<1> QED
  BY <1>1, <1>2

(* What Picked takes at place i, and the function it is the end of.        *)
Kept(s, S, i) == IF s[i] \in S THEN <<s[i]>> ELSE <<>>

Picks(f, s, S, m) ==
  f = [i \in 0 .. m |-> IF i = 0 THEN <<>> ELSE f[i - 1] \o Kept(s, S, i)]

LEMMA PicksStep ==
  ASSUME NEW f, NEW s, NEW S, NEW m \in Nat, Picks(f, s, S, m)
  PROVE  /\ f[0] = <<>>
         /\ \A i \in 1 .. m : f[i] = f[i - 1] \o Kept(s, S, i)
<1> DEFINE g == [i \in 0 .. m |-> IF i = 0 THEN <<>> ELSE f[i - 1] \o Kept(s, S, i)]
<1>1. f = g
  BY DEF Picks
<1>2. g[0] = <<>> /\ \A i \in 1 .. m : g[i] = f[i - 1] \o Kept(s, S, i)
  <2>1. 0 \in 0 .. m /\ \A i \in 1 .. m : i \in 0 .. m /\ i # 0
    OBVIOUS
  <2> QED
    BY <2>1, Zenon
<1> HIDE DEF g
<1> QED
  BY <1>1, <1>2, Zenon

LEMMA SomethingPicks ==
  ASSUME NEW s, NEW S, NEW m \in Nat
  PROVE  \E f : Picks(f, s, S, m)
<1> DEFINE G == {i \in 0 .. m : \E f : Picks(f, s, S, i)}
<1>1. 0 \in G
  <2> DEFINE f == [i \in 0 .. 0 |-> <<>>]
  <2>1. f = [i \in 0 .. 0 |-> IF i = 0 THEN <<>> ELSE f[i - 1] \o Kept(s, S, i)]
    OBVIOUS
  <2> HIDE DEF f
  <2>2. Picks(f, s, S, 0)
    BY <2>1 DEF Picks
  <2> QED
    BY <2>2
<1>2. ASSUME NEW k \in 1 .. m, k - 1 \in G PROVE k \in G
  <2>1. PICK f : Picks(f, s, S, k - 1)
    BY <1>2
  <2> DEFINE h == [i \in 0 .. k |-> IF i < k THEN f[i] ELSE f[k - 1] \o Kept(s, S, k)]
  <2>2. k \in Nat \ {0} /\ k - 1 \in Nat
    OBVIOUS
  <2>3. f[0] = <<>> /\ \A i \in 1 .. k - 1 : f[i] = f[i - 1] \o Kept(s, S, i)
    BY <2>1, <2>2, PicksStep
  <2>4. /\ \A i \in 0 .. k - 1 : h[i] = f[i]
        /\ h[k] = f[k - 1] \o Kept(s, S, k)
    BY <2>2
  <2>5. h = [i \in 0 .. k |-> h[i]]
    OBVIOUS
  <2> HIDE DEF h
  <2>6. \A i \in 0 .. k : h[i] = IF i = 0 THEN <<>> ELSE h[i - 1] \o Kept(s, S, i)
    <3> TAKE i \in 0 .. k
    <3>1. CASE i = 0
      BY <2>2, <2>3, <2>4, <3>1
    <3>2. CASE i \in 1 .. k - 1
      <4>1. i \in 0 .. k - 1 /\ i - 1 \in 0 .. k - 1 /\ i # 0
        BY <3>2
      <4>2. h[i] = f[i] /\ h[i - 1] = f[i - 1] /\ f[i] = f[i - 1] \o Kept(s, S, i)
        BY <2>3, <2>4, <3>2, <4>1
      <4> QED
        BY <4>1, <4>2, Zenon
    <3>3. CASE i = k
      <4>1. k - 1 \in 0 .. k - 1 /\ k # 0
        BY <2>2
      <4>2. h[k] = f[k - 1] \o Kept(s, S, k) /\ h[k - 1] = f[k - 1]
        BY <2>4, <4>1
      <4> QED
        BY <3>3, <4>1, <4>2, Zenon
    <3> QED
      BY <2>2, <3>1, <3>2, <3>3
  <2>7. Picks(h, s, S, k)
    BY <2>5, <2>6 DEF Picks
  <2> QED
    BY <2>7
<1> HIDE DEF G
<1>3. m \in G
  <2>1. m \in 0 .. m
    OBVIOUS
  <2> QED
    BY <1>1, <1>2, <2>1, Upward
<1> QED
  BY <1>3 DEF G

LEMMA PickedIs ==
  ASSUME NEW T, NEW s \in Seq(T), NEW S
  PROVE  \E f : Picks(f, s, S, Len(s)) /\ Picked(s, S) = f[Len(s)]
<1> DEFINE f == CHOOSE f : f = [i \in 0 .. Len(s) |->
                   IF i = 0 THEN <<>>
                   ELSE f[i - 1] \o (IF s[i] \in S THEN <<s[i]>> ELSE <<>>)]
<1>1. Picked(s, S) = f[Len(s)]
  BY DEF Picked
<1>2. Len(s) \in Nat
  BY LenProperties
<1>3. Picks(f, s, S, Len(s))
  <2>1. PICK g : Picks(g, s, S, Len(s))
    BY <1>2, SomethingPicks
  <2>2. g = [i \in 0 .. Len(s) |->
               IF i = 0 THEN <<>> ELSE g[i - 1] \o (IF s[i] \in S THEN <<s[i]>> ELSE <<>>)]
    BY <2>1, Zenon DEF Picks, Kept
  <2>3. f = [i \in 0 .. Len(s) |->
               IF i = 0 THEN <<>> ELSE f[i - 1] \o (IF s[i] \in S THEN <<s[i]>> ELSE <<>>)]
    BY <2>2, Zenon
  <2> HIDE DEF f
  <2> QED
    BY <2>3, Zenon DEF Picks, Kept
<1> HIDE DEF f
<1> QED
  BY <1>1, <1>3

LEMMA PickedNothing == \A S : Picked(<<>>, S) = <<>>
<1> TAKE S
<1>1. <<>> \in Seq({}) /\ Len(<<>>) = 0
  BY EmptySeq
<1>2. PICK f : Picks(f, <<>>, S, 0) /\ Picked(<<>>, S) = f[0]
  BY <1>1, PickedIs
<1> QED
  BY <1>2, PicksStep

(* What is picked of a sequence is its kind of elements.                   *)
LEMMA PickedType ==
  ASSUME NEW T, NEW s \in Seq(T), NEW S
  PROVE  Picked(s, S) \in Seq(T \cap S)
<1>1. PICK f : Picks(f, s, S, Len(s)) /\ Picked(s, S) = f[Len(s)]
  BY PickedIs
<1> DEFINE m == Len(s)
           R == Seq(T \cap S)
           G == {i \in 0 .. m : f[i] \in R}
<1>2. m \in Nat
  BY LenProperties
<1>3. f[0] = <<>> /\ \A i \in 1 .. m : f[i] = f[i - 1] \o Kept(s, S, i)
  BY <1>1, <1>2, PicksStep
<1>4. 0 \in G
  <2>1. 0 \in 0 .. m /\ <<>> \in R
    BY <1>2, EmptySeq
  <2> QED
    BY <1>3, <2>1, Zenon
<1>5. ASSUME NEW i \in 1 .. m, i - 1 \in G PROVE i \in G
  <2>1. s[i] \in T
    BY ElementOfSeq
  <2>2. Kept(s, S, i) \in R
    <3> DEFINE X == T \cap S
    <3>1. s[i] \in S => s[i] \in X
      BY <2>1
    <3> HIDE DEF X
    <3>2. Kept(s, S, i) \in Seq(X)
      BY <3>1, EmptySeq DEF Kept
    <3> QED
      BY <3>2, Zenon DEF X
  <2>3. f[i - 1] \in R
    BY <1>5
  <2>4. f[i] \in R
    BY <1>3, <2>2, <2>3, ConcatProperties
  <2> QED
    BY <2>4
<1> HIDE DEF G, m
<1>6. m \in G
  <2>1. m \in 0 .. m
    BY <1>2
  <2> QED
    BY <1>2, <1>4, <1>5, <2>1, Upward
<1> QED
  BY <1>1, <1>6 DEF G, m

LEMMA PickedAll ==
  ASSUME NEW S, NEW s \in Seq(S)
  PROVE  Picked(s, S) = s
<1>1. PICK f : Picks(f, s, S, Len(s)) /\ Picked(s, S) = f[Len(s)]
  BY PickedIs
<1> DEFINE m == Len(s)
           G == {i \in 0 .. m : f[i] = SubSeq(s, 1, i)}
<1>2. m \in Nat
  BY LenProperties
<1>3. f[0] = <<>> /\ \A i \in 1 .. m : f[i] = f[i - 1] \o Kept(s, S, i)
  BY <1>1, <1>2, PicksStep
<1>4. 0 \in G
  <2>1. 0 \in 0 .. m /\ SubSeq(s, 1, 0) = <<>>
    BY <1>2, SubSeqEmpty
  <2> QED
    BY <1>3, <2>1, Zenon
<1>5. ASSUME NEW i \in 1 .. m, i - 1 \in G PROVE i \in G
  <2>1. s[i] \in S
    BY ElementOfSeq
  <2>2. f[i] = SubSeq(s, 1, i - 1) \o <<s[i]>>
    BY <1>3, <1>5, <2>1 DEF Kept
  <2>3. SubSeq(s, 1, i - 1) \o <<s[i]>> = SubSeq(s, 1, i)
    <3> DEFINE front == SubSeq(s, 1, i - 1)
               whole == SubSeq(s, 1, i)
    <3>1. /\ front \in Seq(S) /\ Len(front) = i - 1 /\ \A k \in 1 .. i - 1 : front[k] = s[k]
          /\ whole \in Seq(S) /\ Len(whole) = i /\ \A k \in 1 .. i : whole[k] = s[k]
      BY <1>2, SubSeqProperties
    <3> HIDE DEF front, whole
    <3>2. /\ Append(front, s[i]) \in Seq(S) /\ Len(Append(front, s[i])) = i
          /\ Append(front, s[i])[i] = s[i]
          /\ \A k \in 1 .. i - 1 : Append(front, s[i])[k] = s[k]
      BY <2>1, <3>1, AppendProperties
    <3>3. \A k \in 1 .. i : Append(front, s[i])[k] = whole[k]
      BY <3>1, <3>2
    <3>4. Append(front, s[i]) = whole
      BY <3>1, <3>2, <3>3, SeqEqual
    <3> QED
      BY <2>1, <3>1, <3>4, AppendIsConcat DEF front, whole
  <2> QED
    BY <2>2, <2>3
<1> HIDE DEF G, m
<1>6. m \in G
  <2>1. m \in 0 .. m
    BY <1>2
  <2> QED
    BY <1>2, <1>4, <1>5, <2>1, Upward
<1> QED
  BY <1>1, <1>6, SubSeqFull DEF G, m

LEMMA PickedNone ==
  ASSUME NEW T, NEW s \in Seq(T), NEW S, T \cap S = {}
  PROVE  Picked(s, S) = <<>>
<1>1. Picked(s, S) \in Seq(T \cap S)
  BY PickedType
<1>2. \A t \in Seq({}) : t = <<>>
  <2> TAKE t \in Seq({})
  <2>1. Len(t) \in Nat /\ (Len(t) # 0 => t[1] \in {})
    BY LenProperties, ElementOfSeq
  <2> QED
    BY <2>1, EmptySeq
<1> QED
  BY <1>1, <1>2, Zenon

LEMMA PickedConcat ==
  ASSUME NEW T, NEW s \in Seq(T), NEW t \in Seq(T), NEW S
  PROVE  Picked(s \o t, S) = Picked(s, S) \o Picked(t, S)
<1> DEFINE u == s \o t
           m == Len(s)
           k == Len(t)
<1>1. /\ u \in Seq(T) /\ Len(u) = m + k /\ m \in Nat /\ k \in Nat
      /\ \A i \in 1 .. m : u[i] = s[i]
      /\ \A i \in 1 .. k : u[m + i] = t[i]
  BY ConcatProperties, LenProperties
<1> HIDE DEF u
<1>2. PICK f : Picks(f, s, S, m) /\ Picked(s, S) = f[m]
  BY PickedIs
<1>3. PICK g : Picks(g, t, S, k) /\ Picked(t, S) = g[k]
  BY PickedIs
<1>4. PICK h : Picks(h, u, S, m + k) /\ Picked(u, S) = h[m + k]
  BY <1>1, PickedIs
<1> HIDE DEF m, k
<1>5. /\ f[0] = <<>> /\ \A i \in 1 .. m : f[i] = f[i - 1] \o Kept(s, S, i)
      /\ g[0] = <<>> /\ \A i \in 1 .. k : g[i] = g[i - 1] \o Kept(t, S, i)
  <2>1. f[0] = <<>> /\ \A i \in 1 .. m : f[i] = f[i - 1] \o Kept(s, S, i)
    BY <1>1, <1>2, PicksStep
  <2>2. g[0] = <<>> /\ \A i \in 1 .. k : g[i] = g[i - 1] \o Kept(t, S, i)
    BY <1>1, <1>3, PicksStep
  <2> QED
    BY <2>1, <2>2
<1>6. /\ h[0] = <<>> /\ \A i \in 1 .. m + k : h[i] = h[i - 1] \o Kept(u, S, i)
  BY <1>1, <1>4, PicksStep
<1>7. h[m] = f[m]
  <2> DEFINE G == {i \in 0 .. m : h[i] = f[i]}
  <2>1. 0 \in G
    BY <1>1, <1>5, <1>6
  <2>2. ASSUME NEW i \in 1 .. m, i - 1 \in G PROVE i \in G
    <3>1. i \in 1 .. m + k /\ u[i] = s[i] /\ h[i - 1] = f[i - 1]
      BY <1>1, <2>2
    <3>2. Kept(u, S, i) = Kept(s, S, i)
      BY <3>1 DEF Kept
    <3>3. h[i] = f[i]
      BY <1>5, <1>6, <3>1, <3>2
    <3> QED
      BY <3>3
  <2>3. m \in 0 .. m
    BY <1>1
  <2> HIDE DEF G
  <2>4. m \in G
    BY <1>1, <2>1, <2>2, <2>3, Upward
  <2> QED
    BY <2>4 DEF G
<1>8. h[m + k] = f[m] \o g[k]
  <2> DEFINE G == {i \in 0 .. k : g[i] \in Seq(T) /\ h[m + i] = f[m] \o g[i]}
  <2>0. f[m] \in Seq(T)
    <3>1. Picked(s, S) \in Seq(T \cap S)
      BY PickedType
    <3> QED
      BY <1>2, <3>1
  <2>1. 0 \in G
    <3>1. f[m] \o <<>> = f[m] /\ m + 0 = m /\ 0 \in 0 .. k /\ <<>> \in Seq(T)
      BY <1>1, <2>0, ConcatEmptySeq, EmptySeq
    <3> QED
      BY <1>5, <1>7, <3>1
  <2>2. ASSUME NEW i \in 1 .. k, i - 1 \in G PROVE i \in G
    <3> DEFINE front == f[m]
               middle == g[i - 1]
               e == Kept(t, S, i)
    <3>1. m + i \in 1 .. m + k /\ (m + i) - 1 = m + (i - 1) /\ u[m + i] = t[i] /\ i \in 0 .. k
      BY <1>1
    <3>2. middle \in Seq(T) /\ h[m + (i - 1)] = front \o middle /\ front \in Seq(T)
      BY <2>0, <2>2
    <3>3. e \in Seq(T)
      <4>1. t[i] \in T
        BY ElementOfSeq DEF k
      <4> QED
        BY <4>1, EmptySeq DEF Kept
    <3>4. Kept(u, S, m + i) = e
      BY <3>1 DEF Kept
    <3>5. h[m + i] = h[(m + i) - 1] \o Kept(u, S, m + i) /\ g[i] = middle \o e
      BY <1>5, <1>6, <3>1
    <3> HIDE DEF front, middle, e
    <3>6. middle \o e \in Seq(T)
      BY <3>2, <3>3, ConcatProperties
    <3>7. (front \o middle) \o e = front \o (middle \o e)
      <4>1. front \in Seq(T) /\ middle \in Seq(T) /\ e \in Seq(T)
        BY <3>2, <3>3
      <4> QED
        BY <4>1, ConcatAssociative, SMTT(20)
    <3>8. h[m + i] = front \o g[i] /\ g[i] \in Seq(T)
      BY <3>1, <3>2, <3>4, <3>5, <3>6, <3>7, Zenon
    <3> QED
      BY <3>1, <3>8 DEF front
  <2>3. k \in 0 .. k
    BY <1>1
  <2> HIDE DEF G
  <2>4. k \in G
    BY <1>1, <2>1, <2>2, <2>3, Upward
  <2> QED
    BY <2>4 DEF G
<1> QED
  BY <1>2, <1>3, <1>4, <1>8 DEF u
-------------------------------------------------------------------------------
(* What the sinks hold.                                                    *)

(* The logs a connection may send, and those a sink takes.                 *)
Sent(c) == {e \in Log : e.from = c}
Loud(l) == {e \in Log : ShouldLog(l, e)}

LEMMA PickedMeans ==
  /\ \A c, s : From(c, s) = Picked(s, Sent(c))
  /\ \A l, s : Admitted(l, s) = Picked(s, Loud(l))
BY DEF From, Admitted, Sent, Loud

LEMMA FromConcat ==
  ASSUME NEW c, NEW s \in Seq(Log), NEW t \in Seq(Log)
  PROVE  /\ From(c, s \o t) = From(c, s) \o From(c, t)
         /\ From(c, s) \in Seq(Log)
<1>1. Picked(s, Sent(c)) \in Seq(Log \cap Sent(c))
  BY PickedType
<1>2. Seq(Log \cap Sent(c)) \subseteq Seq(Log)
  BY SeqMonotonic
<1> DEFINE S == Sent(c)
<1>3. Picked(s, S) \in Seq(Log)
  BY <1>1, <1>2
<1> HIDE DEF S
<1>4. Picked(s \o t, S) = Picked(s, S) \o Picked(t, S)
  BY PickedConcat
<1>5. \A r : From(c, r) = Picked(r, S)
  BY PickedMeans, Zenon DEF S
<1> QED
  BY <1>3, <1>4, <1>5, Zenon

LEMMA AdmittedConcat ==
  ASSUME NEW l, NEW s \in Seq(Log), NEW t \in Seq(Log)
  PROVE  /\ Admitted(l, s \o t) = Admitted(l, s) \o Admitted(l, t)
         /\ Admitted(l, s) \in Seq(Log)
<1>1. Picked(s, Loud(l)) \in Seq(Log \cap Loud(l))
  BY PickedType
<1>2. Seq(Log \cap Loud(l)) \subseteq Seq(Log)
  BY SeqMonotonic
<1> DEFINE S == Loud(l)
<1>3. Picked(s, S) \in Seq(Log)
  BY <1>1, <1>2
<1> HIDE DEF S
<1>4. Picked(s \o t, S) = Picked(s, S) \o Picked(t, S)
  BY PickedConcat
<1>5. \A r : Admitted(l, r) = Picked(r, S)
  BY PickedMeans, Zenon DEF S
<1> QED
  BY <1>3, <1>4, <1>5, Zenon

LEMMA AdmittedOne ==
  ASSUME NEW l, NEW e \in Log
  PROVE  Admitted(l, <<e>>) = IF ShouldLog(l, e) THEN <<e>> ELSE <<>>
<1>1. CASE ShouldLog(l, e)
  <2>1. <<e>> \in Seq(Loud(l))
    BY <1>1 DEF Loud
  <2> QED
    BY <1>1, <2>1, PickedAll, PickedMeans
<1>2. CASE ~ShouldLog(l, e)
  <2> DEFINE T == {e}
  <2>1. <<e>> \in Seq(T) /\ T \cap Loud(l) = {}
    BY <1>2 DEF Loud
  <2> HIDE DEF T
  <2>2. Picked(<<e>>, Loud(l)) = <<>>
    BY <2>1, PickedNone
  <2> QED
    BY <1>2, <2>2, PickedMeans
<1> QED
  BY <1>1, <1>2

(* Of what one connection sent, From gives it all or nothing.              *)
LEMMA FromOne ==
  ASSUME NEW l, NEW d, NEW b \in Seq(Sent(d))
  PROVE  /\ From(d, Admitted(l, b)) = Admitted(l, b)
         /\ \A c : c # d => From(c, Admitted(l, b)) = <<>>
<1> DEFINE T == Sent(d) \cap Loud(l)
           a == Admitted(l, b)
<1>1. a \in Seq(T)
  BY PickedType, PickedMeans
<1>2. a \in Seq(Sent(d))
  <2>1. T \subseteq Sent(d)
    OBVIOUS
  <2> HIDE DEF T
  <2> QED
    BY <1>1, <2>1, SeqMonotonic
<1>3. From(d, a) = a
  <2> HIDE DEF a
  <2> QED
    BY <1>2, PickedAll, PickedMeans
<1>4. ASSUME NEW c, c # d PROVE From(c, a) = <<>>
  <2>1. Sent(d) \cap Sent(c) = {}
    BY <1>4 DEF Sent
  <2> HIDE DEF a
  <2>2. Picked(a, Sent(c)) = <<>>
    BY <1>2, <2>1, PickedNone
  <2> QED
    BY <2>2, PickedMeans
<1> QED
  BY <1>3, <1>4

(* Of the logs of c: those a sink has, or has still to get from its logger.*)
LineOf(l, c, taken, pending) == From(c, taken \o Admitted(l, pending))

(* A push extends the line by what the batch has for it.                   *)
LEMMA LineGrows ==
  ASSUME NEW l, NEW c, NEW taken \in Seq(Log), NEW pending \in Seq(Log), NEW b \in Seq(Log)
  PROVE  LineOf(l, c, taken, pending \o b)
           = LineOf(l, c, taken, pending) \o From(c, Admitted(l, b))
<1> DEFINE ap == Admitted(l, pending)
           ab == Admitted(l, b)
<1>1. Admitted(l, pending \o b) = ap \o ab /\ ap \in Seq(Log) /\ ab \in Seq(Log)
  BY AdmittedConcat
<1> HIDE DEF ap, ab
<1>2. taken \o (ap \o ab) = (taken \o ap) \o ab /\ taken \o ap \in Seq(Log)
  BY <1>1, Associative, ConcatProperties
<1>3. From(c, (taken \o ap) \o ab) = From(c, taken \o ap) \o From(c, ab)
  BY <1>1, <1>2, FromConcat
<1> QED
  BY <1>1, <1>2, <1>3, Zenon DEF LineOf, ap, ab

(* Forwarding the first element moves it along the line.                   *)
LEMMA LineKeeps ==
  ASSUME NEW l, NEW c, NEW taken \in Seq(Log), NEW first \in Log, NEW rest \in Seq(Log)
  PROVE  LineOf(l, c, IF ShouldLog(l, first) THEN Append(taken, first) ELSE taken, rest)
           = LineOf(l, c, taken, <<first>> \o rest)
<1> DEFINE x == <<first>>
           ax == Admitted(l, x)
           ar == Admitted(l, rest)
<1>1. x \in Seq(Log)
  OBVIOUS
<1>2. Admitted(l, x \o rest) = ax \o ar /\ ax \in Seq(Log) /\ ar \in Seq(Log)
  BY <1>1, AdmittedConcat
<1>3. (IF ShouldLog(l, first) THEN Append(taken, first) ELSE taken) = taken \o ax
  <2>1. Append(taken, first) = taken \o x /\ taken \o <<>> = taken
    BY AppendIsConcat, ConcatEmptySeq
  <2>2. ax = IF ShouldLog(l, first) THEN x ELSE <<>>
    BY AdmittedOne
  <2> HIDE DEF x, ax
  <2> QED
    BY <2>1, <2>2, Zenon
<1> HIDE DEF x, ax, ar
<1>4. (taken \o ax) \o ar = taken \o (ax \o ar)
  BY <1>2, Associative
<1> QED
  BY <1>2, <1>3, <1>4, Zenon DEF LineOf, x, ar

(* With nothing in front of the sink the line is a beginning of the one    *)
(* that was.                                                               *)
LEMMA LineEnds ==
  ASSUME NEW l, NEW c, NEW taken \in Seq(Log), NEW pending \in Seq(Log)
  PROVE  IsPrefix(LineOf(l, c, taken, <<>>), LineOf(l, c, taken, pending))
<1> DEFINE ap == Admitted(l, pending)
           s == From(c, taken)
           t == From(c, ap)
<1>1. ap \in Seq(Log)
  BY AdmittedConcat
<1>2. Admitted(l, <<>>) = <<>> /\ taken \o <<>> = taken
  BY PickedNothing, PickedMeans, ConcatEmptySeq
<1>3. LineOf(l, c, taken, <<>>) = s
  BY <1>2, Zenon DEF LineOf
<1> HIDE DEF ap
<1>4. From(c, taken \o ap) = s \o t /\ s \in Seq(Log) /\ t \in Seq(Log)
  BY <1>1, FromConcat
<1>5. LineOf(l, c, taken, pending) = s \o t
  BY <1>4, Zenon DEF LineOf, ap
<1> HIDE DEF s, t
<1>6. SubSeq(s \o t, 1, Len(s)) = s /\ SubSeq(s, 1, Len(s)) = s
  BY <1>4, FrontOfConcat, SubSeqFull
<1>7. Len(s) <= Len(s \o t)
  BY <1>4, ConcatProperties, LenProperties
<1> QED
  BY <1>3, <1>5, <1>6, <1>7, Zenon DEF IsPrefix
-------------------------------------------------------------------------------
(* What a connection has sent is what it sent before the batch in hand,    *)
(* and the batch; and all of it is its own.                                *)

Before(c) == SubSeq(logs[c], 1, Len(logs[c]) - Len(batch[c]))

HandedOf(c) ==
  /\ logs[c] \in Seq(Sent(c)) /\ batch[c] \in Seq(Sent(c)) /\ Before(c) \in Seq(Sent(c))
  /\ logs[c] = Before(c) \o batch[c]

Handed == \A c \in Connections : HandedOf(c)

LEMMA NothingInHand ==
  ASSUME NEW c, logs[c] \in Seq(Sent(c)), batch[c] = <<>>
  PROVE  Before(c) = logs[c] /\ HandedOf(c)
<1> DEFINE s == logs[c]
           S == Sent(c)
<1>1. s \in Seq(S) /\ Len(s) \in Nat /\ Len(batch[c]) = 0
  BY LenProperties
<1>2. Before(c) = SubSeq(s, 1, Len(s))
  BY <1>1 DEF Before
<1>3. batch[c] \in Seq(S) /\ s \o <<>> = s
  BY <1>1, EmptySeq, ConcatEmptySeq
<1> HIDE DEF s, S
<1>4. SubSeq(s, 1, Len(s)) = s
  BY <1>1, SubSeqFull
<1> QED
  BY <1>1, <1>2, <1>3, <1>4, Zenon DEF HandedOf, s, S

LEMMA NewSent ==
  ASSUME NEW c \in Connections, NEW m \in Nat, NEW len \in Nat, m + len <= Len(LevelsOf[c])
  PROVE  [i \in 1 .. len |-> LogOf(c, m + i)] \in Seq(Sent(c))
<1> DEFINE new == [i \in 1 .. len |-> LogOf(c, m + i)]
<1>1. new \in Seq(Log)
  BY NewType
<1>2. \A i \in 1 .. len : new[i].from = c
  BY DEF LogOf
<1>3. Len(new) = len /\ DOMAIN new = 1 .. len
  OBVIOUS
<1> HIDE DEF new
<1>4. \A i \in 1 .. len : new[i] \in Sent(c)
  BY <1>1, <1>2, <1>3, ElementOfSeq DEF Sent
<1> QED
  <2>1. new = [i \in 1 .. len |-> LogOf(c, m + i)]
    BY DEF new
  <2>2. \A i \in 1 .. len : LogOf(c, m + i) \in Sent(c)
    BY <1>4, <2>1
  <2> QED
    BY <2>2

LEMMA ReceiveHands ==
  ASSUME Typed, Handed, NEW c \in Connections, Receive(c)
  PROVE  /\ HandedOf(c)' /\ Before(c)' = Before(c) \o batch[c] /\ next'[c] = 1
         /\ \A d \in Connections \ {c} :
              logs'[d] = logs[d] /\ batch'[d] = batch[d] /\ next'[d] = next[d]
<1>0. /\ logs \in [Connections -> Seq(Log)] /\ batch \in [Connections -> Seq(Log)]
      /\ next \in [Connections -> LoggerNumbers]
  BY DEF Typed, SessionsTyped
<1>1. PICK len \in 1 .. MaxBatch :
        LET new == [i \in 1 .. len |-> LogOf(c, Len(logs[c]) + i)] IN
        /\ Len(logs[c]) + len <= Len(LevelsOf[c])
        /\ logs' = [logs EXCEPT ![c] = @ \o new]
        /\ batch' = [batch EXCEPT ![c] = new]
  BY DEF Receive
<1> DEFINE new == [i \in 1 .. len |-> LogOf(c, Len(logs[c]) + i)]
           S == Sent(c)
           s == logs[c]
<1>2. Len(logs[c]) \in Nat /\ len \in Nat
  BY <1>0, PipelineAssumption, LenProperties
<1>3. new \in Seq(S)
  BY <1>1, <1>2, NewSent
<1>4. /\ logs'[c] = s \o new /\ batch'[c] = new
      /\ \A d \in Connections \ {c} : logs'[d] = logs[d] /\ batch'[d] = batch[d]
  BY <1>0, <1>1
<1>5. next'[c] = 1 /\ \A d \in Connections \ {c} : next'[d] = next[d]
  BY <1>0 DEF Receive
<1>6. s \in Seq(S) /\ s = Before(c) \o batch[c]
  BY DEF Handed, HandedOf
<1>7. Before(c)' = SubSeq(s \o new, 1, Len(s \o new) - Len(new))
  BY <1>4, Zenon DEF Before
<1> HIDE DEF new, S, s
<1>8. s \o new \in Seq(S) /\ Len(s \o new) - Len(new) = Len(s)
  BY <1>3, <1>6, ConcatProperties, LenProperties
<1>9. SubSeq(s \o new, 1, Len(s)) = s
  BY <1>3, <1>6, FrontOfConcat
<1>10. Before(c)' = s
  BY <1>7, <1>8, <1>9, Zenon
<1>11. HandedOf(c)'
  BY <1>3, <1>4, <1>6, <1>8, <1>10, Zenon DEF HandedOf, S
<1> QED
  BY <1>4, <1>5, <1>6, <1>10, <1>11, Zenon

LEMMA PushHands ==
  ASSUME Typed, Handed, NEW c \in Connections, Push(c)
  PROVE  /\ HandedOf(c)' /\ UNCHANGED logs
         /\ \/ UNCHANGED batch /\ next[c] < Loggers /\ next'[c] = next[c] + 1
            \/ batch'[c] = <<>> /\ next[c] = Loggers /\ UNCHANGED next
         /\ \A d \in Connections \ {c} : batch'[d] = batch[d] /\ next'[d] = next[d]
<1>0. /\ batch \in [Connections -> Seq(Log)] /\ next \in [Connections -> LoggerNumbers]
      /\ next[c] \in 1 .. Loggers /\ Loggers \in Nat
  BY PipelineAssumption DEF Typed, SessionsTyped, LoggerNumbers
<1>1. /\ UNCHANGED logs
      /\ \/ UNCHANGED batch /\ next[c] < Loggers /\ next' = [next EXCEPT ![c] = @ + 1]
         \/ batch' = [batch EXCEPT ![c] = <<>>] /\ next[c] = Loggers /\ UNCHANGED next
  BY <1>0 DEF Push, LastLogger
<1>2. /\ \/ UNCHANGED batch /\ next[c] < Loggers /\ next'[c] = next[c] + 1
         \/ batch'[c] = <<>> /\ next[c] = Loggers /\ UNCHANGED next
      /\ \A d \in Connections \ {c} : batch'[d] = batch[d] /\ next'[d] = next[d]
  BY <1>0, <1>1
<1>3. HandedOf(c)'
  <2>0. HandedOf(c) /\ logs'[c] = logs[c]
    BY <1>1 DEF Handed
  <2>1. CASE UNCHANGED batch
    BY <2>0, <2>1 DEF HandedOf, Before
  <2>2. CASE batch'[c] = <<>>
    <3>1. logs'[c] \in Seq(Sent(c))
      BY <2>0 DEF HandedOf
    <3> DEFINE s == logs[c]
               S == Sent(c)
    <3>2. s \in Seq(S) /\ Len(s) \in Nat /\ Len(<<>>) = 0
      BY <2>0, <3>1, LenProperties, EmptySeq
    <3>3. Before(c)' = SubSeq(s, 1, Len(s) - Len(<<>>))
      BY <2>0, <2>2, Zenon DEF Before
    <3> HIDE DEF s, S
    <3>4. Before(c)' = s /\ s \o <<>> = s /\ <<>> \in Seq(S)
      BY <3>2, <3>3, SubSeqFull, ConcatEmptySeq, EmptySeq
    <3> QED
      BY <2>0, <2>2, <3>1, <3>4, Zenon DEF HandedOf, s, S
  <2> QED
    BY <1>2, <2>1, <2>2
<1> QED
  BY <1>1, <1>2, <1>3

LEMMA HandedStep == Typed /\ Handed /\ [Next]_vars => Handed'
<1> SUFFICES ASSUME Typed, Handed, [Next]_vars, NEW d \in Connections
             PROVE  HandedOf(d)'
  BY DEF Handed
<1>0. HandedOf(d)
  BY DEF Handed
<1>1. ASSUME NEW c \in Connections, Receive(c) PROVE HandedOf(d)'
  <2>1. CASE d = c
    BY <1>1, <2>1, ReceiveHands
  <2>2. CASE d # c
    <3>1. logs'[d] = logs[d] /\ batch'[d] = batch[d]
      BY <1>1, <2>2, ReceiveHands
    <3> QED
      BY <1>0, <3>1 DEF HandedOf, Before
  <2> QED
    BY <2>1, <2>2
<1>2. ASSUME NEW c \in Connections, Push(c) PROVE HandedOf(d)'
  <2>1. CASE d = c
    BY <1>2, <2>1, PushHands
  <2>2. CASE d # c
    <3>1. logs'[d] = logs[d] /\ batch'[d] = batch[d]
      BY <1>2, <2>2, PushHands
    <3> QED
      BY <1>0, <3>1 DEF HandedOf, Before
  <2> QED
    BY <2>1, <2>2
<1>3. CASE UNCHANGED sessionVars
  BY <1>0, <1>3 DEF HandedOf, Before, sessionVars
<1>4. ASSUME NEW l \in LoggerNumbers, LoggerNext(l) \/ Destroy(l)
      PROVE  UNCHANGED sessionVars
  BY <1>4 DEF LoggerNext, Swap, Forward, SinkThrows, Close, CloseThrows, Destroy
<1>5. CASE Stop \/ Finished \/ UNCHANGED vars
  BY <1>3, <1>5 DEF Stop, Finished, vars
<1> QED
  BY <1>1, <1>2, <1>3, <1>4, <1>5 DEF Next
(* What a logger's sink has of a connection, and will have of it once all  *)
(* that is in the logger went through.                                     *)
Line(l, c) == LineOf(l, c, sink[l], local[l] \o queue[l])

(* The property, for one logger and one connection: it is inductive as it  *)
(* stands, given what is known of batches and of the shutdown.             *)
HoldsFor(l, c) ==
  ~threw[l] =>
    IF closed[l] THEN IsPrefix(Line(l, c), Admitted(l, logs[c]))
                 ELSE Line(l, c) = Admitted(l, GivenTo(l, c))

Holds == \A l \in LoggerNumbers, c \in Connections : HoldsFor(l, c)

LEMMA HoldsIsTheProperty == Holds => SinkHoldsWhatWasSent
BY Zenon DEF Holds, HoldsFor, Line, LineOf, SinkHoldsWhatWasSent

(* A logger was given all in front of the batch in hand, and the batch once*)
(* its turn came.                                                          *)
GivenIs ==
  \A l \in LoggerNumbers, c \in Connections :
    HandedOf(c) => GivenTo(l, c) = IF next[c] <= l THEN Before(c) ELSE logs[c]

LEMMA Given == GivenIs
<1> SUFFICES ASSUME NEW l \in LoggerNumbers, NEW c \in Connections, HandedOf(c)
             PROVE  GivenTo(l, c) = IF next[c] <= l THEN Before(c) ELSE logs[c]
  BY DEF GivenIs
<1>1. batch[c] = <<>> => Before(c) = logs[c]
  BY NothingInHand DEF HandedOf
<1> QED
  BY <1>1, Zenon DEF GivenTo, Before

(* A logger and a connection that a step leaves alone.                     *)
LEMMA HoldsStill ==
  ASSUME NEW l, NEW c, HoldsFor(l, c),
         Line(l, c)' = Line(l, c), closed'[l] = closed[l], ~threw'[l] => ~threw[l],
         logs'[c] = logs[c], GivenTo(l, c)' = GivenTo(l, c)
  PROVE  HoldsFor(l, c)'
BY Zenon DEF HoldsFor

LEMMA ReceiveHolds ==
  ASSUME Typed, Phases, Handed, NEW d \in Connections, Receive(d),
         NEW l \in LoggerNumbers, NEW c \in Connections, HoldsFor(l, c)
  PROVE  HoldsFor(l, c)'
<1>0. UNCHANGED loggerVars
  BY DEF Receive
<1>1. Line(l, c)' = Line(l, c) /\ closed'[l] = closed[l] /\ threw'[l] = threw[l]
  BY <1>0, Zenon DEF loggerVars, Line
<1>2. CASE c # d
  <2>1. logs'[c] = logs[c] /\ batch'[c] = batch[c] /\ next'[c] = next[c]
    BY <1>2, ReceiveHands
  <2>2. GivenTo(l, c)' = GivenTo(l, c)
    BY <2>1 DEF GivenTo
  <2> QED
    BY <1>1, <2>1, <2>2, HoldsStill
<1>3. CASE c = d
  <2>1. HandedOf(c)' /\ Before(c)' = Before(c) \o batch[c] /\ next'[c] = 1
    BY <1>3, ReceiveHands
  <2>2. HandedOf(c) /\ logs[c] = Before(c) \o batch[c]
    BY DEF Handed, HandedOf
  <2>3. batch[c] = <<>> /\ ~stopped
    BY <1>3 DEF Receive
  <2>4. GivenTo(l, c) = logs[c]
    BY <2>3 DEF GivenTo
  <2>5. GivenTo(l, c)' = Before(c)'
    <3>1. next'[c] <= l
      BY <2>1 DEF LoggerNumbers
    <3>2. GivenIs'
      BY Given, PTL
    <3>3. GivenTo(l, c)' = IF next'[c] <= l THEN Before(c)' ELSE logs'[c]
      BY <2>1, <3>2, Zenon DEF GivenIs
    <3> QED
      BY <3>1, <3>3
  <2>6. ~closed[l]
    BY <2>3 DEF Phases
  <2>7. GivenTo(l, c)' = GivenTo(l, c)
    BY <2>1, <2>2, <2>4, <2>5, Zenon
  <2> QED
    BY <1>1, <2>6, <2>7, Zenon DEF HoldsFor
<1> QED
  BY <1>2, <1>3
LEMMA LineType ==
  ASSUME NEW l, NEW c, NEW taken \in Seq(Log), NEW pending \in Seq(Log)
  PROVE  LineOf(l, c, taken, pending) \in Seq(Log)
<1> DEFINE whole == taken \o Admitted(l, pending)
<1>1. whole \in Seq(Log)
  BY AdmittedConcat, ConcatProperties
<1> HIDE DEF whole
<1>2. From(c, whole) \in Seq(Log)
  BY <1>1, FromConcat
<1> QED
  BY <1>2 DEF LineOf, whole

LEMMA PushHolds ==
  ASSUME Typed, Phases, Handed, NEW d \in Connections, Push(d),
         NEW l \in LoggerNumbers, NEW c \in Connections, HoldsFor(l, c)
  PROVE  HoldsFor(l, c)'
<1>0. /\ UNCHANGED <<local, sink, threw, closed, logs>>
      /\ batch[d] # <<>>
      /\ queue \in [LoggerNumbers -> Seq(Log)] /\ queue[l] \in Seq(Log)
      /\ local[l] \in Seq(Log) /\ sink[l] \in Seq(Log) /\ batch[d] \in Seq(Log)
      /\ next[d] \in LoggerNumbers /\ next[c] \in Int /\ l \in Int
      /\ queue' = [queue EXCEPT ![next[d]] = @ \o batch[d]]
  <2>1. /\ UNCHANGED <<local, sink, threw, closed, logs>> /\ batch[d] # <<>>
        /\ queue' = [queue EXCEPT ![next[d]] = @ \o batch[d]]
    BY DEF Push, Insert
  <2>2. /\ queue \in [LoggerNumbers -> Seq(Log)] /\ queue[l] \in Seq(Log)
        /\ local[l] \in Seq(Log) /\ sink[l] \in Seq(Log) /\ batch[d] \in Seq(Log)
    BY DEF Typed, SessionsTyped, LoggersTyped
  <2>3. next[d] \in LoggerNumbers /\ next[c] \in LoggerNumbers
    BY DEF Typed, SessionsTyped
  <2>4. next[d] \in LoggerNumbers /\ next[c] \in Int /\ l \in Int
    BY <2>3 DEF LoggerNumbers
  <2> QED
    BY <2>1, <2>2, <2>4, Zenon
<1>1. /\ HandedOf(d)
      /\ \/ UNCHANGED batch /\ next[d] < Loggers /\ next'[d] = next[d] + 1
         \/ batch'[d] = <<>> /\ next[d] = Loggers /\ UNCHANGED next
      /\ \A e \in Connections \ {d} : batch'[e] = batch[e] /\ next'[e] = next[e]
  BY PushHands DEF Handed
<1>2. c # d => GivenTo(l, c)' = GivenTo(l, c)
  <2> SUFFICES ASSUME c # d PROVE GivenTo(l, c)' = GivenTo(l, c)
    OBVIOUS
  <2>1. batch'[c] = batch[c] /\ next'[c] = next[c] /\ logs'[c] = logs[c]
    BY <1>0, <1>1
  <2> QED
    BY <2>1, Zenon DEF GivenTo
<1>3. batch'[d] = <<>> => GivenTo(l, d)' = logs[d]
  BY <1>0 DEF GivenTo
<1>4. CASE l # next[d]
  <2>1. queue'[l] = queue[l]
    BY <1>0, <1>4
  <2>2. Line(l, c)' = Line(l, c)
    BY <1>0, <2>1, Zenon DEF Line
  <2>3. GivenTo(l, d)' = GivenTo(l, d)
    <3>1. CASE UNCHANGED batch /\ next'[d] = next[d] + 1
      <4>1. (next'[d] <= l) = (next[d] <= l)
        BY <1>0, <1>4, <3>1 DEF LoggerNumbers
      <4> QED
        BY <1>0, <3>1, <4>1, Zenon DEF GivenTo
    <3>2. CASE batch'[d] = <<>> /\ next[d] = Loggers
      <4>1. ~(next[d] <= l)
        BY <1>0, <1>4, <3>2, PipelineAssumption DEF LoggerNumbers
      <4>2. GivenTo(l, d) = logs[d]
        BY <4>1, Zenon DEF GivenTo
      <4> QED
        BY <1>3, <3>2, <4>2
    <3> QED
      BY <1>1, <3>1, <3>2
  <2>4. GivenTo(l, c)' = GivenTo(l, c)
    BY <1>2, <2>3
  <2> QED
    BY <1>0, <2>2, <2>4, HoldsStill
<1>5. CASE l = next[d]
  <2> DEFINE q == queue[l]
             m == local[l]
             b == batch[d]
  <2>1. ~closed[l] /\ ~closed'[l] /\ threw'[l] = threw[l]
    BY <1>0 DEF Phases
  <2>2. queue'[l] = q \o b /\ local'[l] = m /\ sink'[l] = sink[l]
    BY <1>0, <1>5
  <2>3. b \in Seq(Sent(d)) /\ q \in Seq(Log) /\ m \in Seq(Log) /\ b \in Seq(Log)
    BY <1>0, <1>1 DEF HandedOf
  <2>4. Line(l, c) = LineOf(l, c, sink[l], m \o q)
        /\ Line(l, c)' = LineOf(l, c, sink[l], m \o (q \o b))
    BY <2>2, Zenon DEF Line
  <2>5. HandedOf(d) /\ logs[d] = Before(d) \o b /\ Before(d) \in Seq(Sent(d))
    BY <1>1 DEF HandedOf
  <2> HIDE DEF q, m, b
  <2>6. (m \o q) \o b = m \o (q \o b) /\ m \o q \in Seq(Log)
    BY <2>3, Associative, ConcatProperties
  <2>7. Line(l, c)' = Line(l, c) \o (IF c = d THEN Admitted(l, b) ELSE <<>>)
    <3>1. LineOf(l, c, sink[l], (m \o q) \o b)
            = LineOf(l, c, sink[l], m \o q) \o (IF c = d THEN Admitted(l, b) ELSE <<>>)
      <4> DEFINE t == sink[l]
                 p == m \o q
                 ab == Admitted(l, b)
      <4>1. t \in Seq(Log) /\ p \in Seq(Log) /\ b \in Seq(Log)
        BY <1>0, <2>3, <2>6
      <4>2. From(d, ab) = ab /\ (c # d => From(c, ab) = <<>>)
        BY <2>3, FromOne
      <4>3. From(c, ab) = IF c = d THEN ab ELSE <<>>
        <5> HIDE DEF ab
        <5> QED
          BY <4>2, Zenon
      <4> HIDE DEF t, p
      <4>4. LineOf(l, c, t, p \o b) = LineOf(l, c, t, p) \o From(c, ab)
        BY <4>1, LineGrows
      <4> QED
        BY <4>3, <4>4, Zenon DEF t, p
    <3> QED
      BY <2>4, <2>6, <3>1, Zenon
  <2>8. CASE c # d
    <3>1. Line(l, c) \in Seq(Log)
      BY <1>0, <2>4, <2>6, LineType
    <3>2. Line(l, c)' = Line(l, c)
      BY <2>7, <2>8, <3>1, ConcatEmptySeq
    <3>3. logs'[c] = logs[c] /\ closed'[l] = closed[l]
      BY <1>0
    <3> QED
      BY <1>2, <2>1, <2>8, <3>2, <3>3, HoldsStill
  <2>9. CASE c = d
    <3>1. GivenTo(l, d) = Before(d)
      <4>1. next[d] <= l
        BY <1>0, <1>5
      <4>2. GivenTo(l, d) = IF next[d] <= l THEN Before(d) ELSE logs[d]
        BY <2>5, Given, Zenon DEF GivenIs
      <4> QED
        BY <4>1, <4>2
    <3>2. GivenTo(l, d)' = logs[d]
      <4>1. CASE UNCHANGED batch /\ next'[d] = next[d] + 1
        <5>1. ~(next'[d] <= l)
          BY <1>0, <1>5, <4>1
        <5> QED
          BY <1>0, <5>1, Zenon DEF GivenTo
      <4> QED
        BY <1>1, <1>3, <4>1
    <3> DEFINE s == Before(d)
    <3>3. s \in Seq(Log)
      <4>1. Sent(d) \subseteq Log
        BY DEF Sent
      <4> QED
        BY <2>5, <4>1, SeqMonotonic
    <3> HIDE DEF s
    <3>4. Admitted(l, s \o b) = Admitted(l, s) \o Admitted(l, b)
      BY <2>3, <3>3, AdmittedConcat
    <3>5. ~threw[l] => Line(l, c) = Admitted(l, s)
      BY <2>1, <2>9, <3>1, Zenon DEF HoldsFor, s
    <3>6. logs[d] = s \o b
      BY <2>5 DEF s
    <3>7. ~threw[l] => Line(l, c)' = Admitted(l, logs[d])
      BY <2>7, <2>9, <3>4, <3>5, <3>6, Zenon
    <3> QED
      BY <2>1, <2>9, <3>2, <3>7, Zenon DEF HoldsFor
  <2> QED
    BY <2>8, <2>9
<1> QED
  BY <1>4, <1>5

(* A logger that goes, whatever it still holds, leaves a beginning of what *)
(* was sent in its sink.                                                   *)
LEMMA LoggerGoes ==
  ASSUME Typed, NEW l \in LoggerNumbers, NEW c \in Connections, HoldsFor(l, c),
         \A d \in Connections : batch[d] = <<>>,
         ~closed[l], closed'[l], local'[l] = <<>>, queue'[l] = <<>>,
         sink'[l] = sink[l], threw'[l] = threw[l], logs' = logs
  PROVE  HoldsFor(l, c)'
<1>1. GivenTo(l, c) = logs[c]
  BY DEF GivenTo
<1> DEFINE t == sink[l]
           p == local[l] \o queue[l]
           e == local'[l] \o queue'[l]
<1>2. p \in Seq(Log) /\ t \in Seq(Log) /\ e = <<>>
  BY ConcatProperties DEF Typed, LoggersTyped
<1>3. Line(l, c) = LineOf(l, c, t, p) /\ Line(l, c)' = LineOf(l, c, t, e)
  BY Zenon DEF Line
<1> HIDE DEF t, p, e
<1>4. IsPrefix(LineOf(l, c, t, <<>>), LineOf(l, c, t, p))
  BY <1>2, LineEnds
<1>5. ~threw[l] => Line(l, c) = Admitted(l, logs[c])
  BY <1>1, Zenon DEF HoldsFor
<1>6. ~threw'[l] => IsPrefix(Line(l, c)', Admitted(l, logs'[c]))
  BY <1>2, <1>3, <1>4, <1>5, Zenon
<1> QED
  BY <1>6, Zenon DEF HoldsFor

LEMMA LoggerHolds ==
  ASSUME Typed, Phases, Handed, NEW k \in LoggerNumbers, LoggerNext(k),
         NEW l \in LoggerNumbers, NEW c \in Connections, HoldsFor(l, c)
  PROVE  HoldsFor(l, c)'
<1>0. /\ queue \in [LoggerNumbers -> Seq(Log)] /\ local \in [LoggerNumbers -> Seq(Log)]
      /\ sink \in [LoggerNumbers -> Seq(Log)] /\ threw \in [LoggerNumbers -> BOOLEAN]
      /\ closed \in [LoggerNumbers -> BOOLEAN]
      /\ queue[l] \in Seq(Log) /\ local[l] \in Seq(Log) /\ sink[l] \in Seq(Log)
  BY DEF Typed, LoggersTyped, OwnerTyped
<1>1. UNCHANGED sessionVars
  BY DEF LoggerNext, Swap, Forward, SinkThrows, Close, CloseThrows
<1>2. logs'[c] = logs[c] /\ GivenTo(l, c)' = GivenTo(l, c)
  BY <1>1, Zenon DEF sessionVars, GivenTo
<1>3. CASE l # k /\ ~CloseThrows(k)
  <2>1. Same(l) /\ threw'[l] = threw[l]
    BY <1>0, <1>3 DEF LoggerNext, Swap, Forward, SinkThrows, LoseBatch, Close, Same
  <2>2. Line(l, c)' = Line(l, c)
    BY <2>1, Zenon DEF Line, Same
  <2> QED
    BY <1>2, <2>1, <2>2, HoldsStill DEF Same
<1>4. CASE l = k /\ Swap(l)
  <2>1. /\ local[l] = <<>> /\ local'[l] = queue[l] /\ queue'[l] = <<>>
        /\ UNCHANGED <<sink, closed, threw>>
    BY <1>0, <1>4 DEF Swap
  <2>2. local[l] \o queue[l] = local'[l] \o queue'[l]
    BY <1>0, <2>1, ConcatEmptySeq
  <2>3. Line(l, c)' = Line(l, c)
    BY <2>1, <2>2, Zenon DEF Line
  <2> QED
    BY <1>2, <2>1, <2>3, HoldsStill
<1>5. CASE l = k /\ Forward(l)
  <2> DEFINE x == Head(local[l])
             rest == Tail(local[l])
             q == queue[l]
             t == sink[l]
  <2>1. /\ local'[l] = rest /\ queue'[l] = q /\ UNCHANGED <<closed, threw>>
        /\ sink'[l] = IF ShouldLog(l, x) THEN Append(t, x) ELSE t
    <3>1. local'[l] = rest /\ queue'[l] = q /\ UNCHANGED <<closed, threw>>
      BY <1>0, <1>5 DEF Forward
    <3>2. sink' = IF ShouldLog(l, x) THEN [sink EXCEPT ![l] = Append(@, x)] ELSE sink
      BY <1>5 DEF Forward
    <3>3. sink'[l] = IF ShouldLog(l, x) THEN Append(t, x) ELSE t
      <4> HIDE DEF x
      <4> QED
        BY <1>0, <3>2
    <3> QED
      BY <3>1, <3>3
  <2>2. /\ x \in Log /\ rest \in Seq(Log) /\ q \in Seq(Log) /\ t \in Seq(Log)
        /\ local[l] = <<x>> \o rest
    <3>1. local[l] # <<>>
      BY <1>5 DEF Forward
    <3> QED
      BY <1>0, <3>1, HeadTailProperties
  <2>3. Line(l, c) = LineOf(l, c, t, (<<x>> \o rest) \o q)
        /\ Line(l, c)' = LineOf(l, c, IF ShouldLog(l, x) THEN Append(t, x) ELSE t, rest \o q)
    <3> HIDE DEF x, rest
    <3> QED
      BY <2>1, <2>2, Zenon DEF Line
  <2> HIDE DEF x, rest, q, t
  <2>4. <<x>> \in Seq(Log)
    BY <2>2
  <2>5. (<<x>> \o rest) \o q = <<x>> \o (rest \o q) /\ rest \o q \in Seq(Log)
    <3> DEFINE y == <<x>>
    <3>1. y \in Seq(Log)
      BY <2>4
    <3> HIDE DEF y
    <3>2. (y \o rest) \o q = y \o (rest \o q) /\ rest \o q \in Seq(Log)
      BY <2>2, <3>1, Associative, ConcatProperties
    <3> QED
      BY <3>2 DEF y
  <2>6. LineOf(l, c, IF ShouldLog(l, x) THEN Append(t, x) ELSE t, rest \o q)
          = LineOf(l, c, t, <<x>> \o (rest \o q))
    <3> DEFINE r == rest \o q
    <3>1. x \in Log /\ r \in Seq(Log) /\ t \in Seq(Log)
      BY <2>2, <2>5
    <3> HIDE DEF r
    <3>2. LineOf(l, c, IF ShouldLog(l, x) THEN Append(t, x) ELSE t, r)
            = LineOf(l, c, t, <<x>> \o r)
      BY <3>1, LineKeeps
    <3> QED
      BY <3>2 DEF r
  <2>7. Line(l, c)' = Line(l, c)
    BY <2>3, <2>5, <2>6, Zenon
  <2> QED
    BY <1>2, <2>1, <2>7, HoldsStill
<1>6. CASE l = k /\ SinkThrows(l)
  <2>1. threw'[l] = TRUE
    BY <1>0, <1>6 DEF SinkThrows
  <2> QED
    BY <2>1 DEF HoldsFor
<1>7. CASE l = k /\ Close(l)
  <2>1. /\ local'[l] = <<>> /\ queue'[l] = <<>> /\ ~closed[l] /\ closed'[l]
        /\ UNCHANGED <<sink, threw>> /\ done[l]
    BY <1>0, <1>7 DEF Close
  <2>2. \A d \in Connections : batch[d] = <<>>
    BY <2>1 DEF Phases
  <2> QED
    BY <1>1, <2>1, <2>2, LoggerGoes DEF sessionVars
<1>8. CASE CloseThrows(k)
  <2>1. /\ local'[l] = <<>> /\ queue'[l] = <<>> /\ closed'[l]
        /\ UNCHANGED sink /\ done[k] /\ threw' = [threw EXCEPT ![k] = TRUE]
    BY <1>8 DEF CloseThrows
  <2>2. threw'[l] = threw[l] \/ threw'[l]
    BY <1>0, <2>1
  <2>3. \A d \in Connections : batch[d] = <<>>
    BY <2>1 DEF Phases
  <2>4. ASSUME closed[l], threw'[l] = threw[l] PROVE HoldsFor(l, c)'
    <3>1. Same(l)
      BY <1>8, <2>4, ProcessEnds
    <3>2. Line(l, c)' = Line(l, c)
      BY <3>1, Zenon DEF Line, Same
    <3> QED
      BY <1>2, <2>4, <3>1, <3>2, HoldsStill DEF Same
  <2>5. ASSUME ~closed[l], threw'[l] = threw[l] PROVE HoldsFor(l, c)'
    BY <1>1, <2>1, <2>3, <2>5, LoggerGoes DEF sessionVars
  <2>6. threw'[l] => HoldsFor(l, c)'
    BY DEF HoldsFor
  <2> QED
    BY <2>2, <2>4, <2>5, <2>6
<1> QED
  BY <1>3, <1>4, <1>5, <1>6, <1>7, <1>8 DEF LoggerNext
LEMMA HoldsInit == Init => Handed /\ Holds
<1> SUFFICES ASSUME Init
             PROVE  Handed /\ Holds
  OBVIOUS
<1>1. ASSUME NEW c \in Connections PROVE HandedOf(c) /\ logs[c] = <<>> /\ batch[c] = <<>>
  <2>1. logs[c] = <<>> /\ batch[c] = <<>>
    BY DEF Init
  <2>2. logs[c] \in Seq(Sent(c))
    BY <2>1, EmptySeq
  <2> QED
    BY <2>1, <2>2, NothingInHand
<1>2. ASSUME NEW l \in LoggerNumbers, NEW c \in Connections PROVE HoldsFor(l, c)
  <2>1. sink[l] = <<>> /\ local[l] = <<>> /\ queue[l] = <<>> /\ ~closed[l]
    BY DEF Init
  <2>2. GivenTo(l, c) = <<>>
    BY <1>1, Zenon DEF GivenTo
  <2>3. <<>> \o <<>> = <<>>
    OBVIOUS
  <2>4. From(c, <<>>) = <<>> /\ Admitted(l, <<>>) = <<>>
    BY PickedNothing, PickedMeans
  <2> QED
    BY <2>1, <2>2, <2>3, <2>4, Zenon DEF HoldsFor, Line, LineOf
<1> QED
  BY <1>1, <1>2 DEF Handed, Holds

LEMMA HoldsStep == Typed /\ Phases /\ Handed /\ Holds /\ [Next]_vars => Holds'
<1> SUFFICES ASSUME Typed, Phases, Handed, [Next]_vars,
                    NEW l \in LoggerNumbers, NEW c \in Connections, HoldsFor(l, c)
             PROVE  HoldsFor(l, c)'
  BY DEF Holds
<1>1. ASSUME NEW d \in Connections, Receive(d) PROVE HoldsFor(l, c)'
  BY <1>1, ReceiveHolds
<1>2. ASSUME NEW d \in Connections, Push(d) PROVE HoldsFor(l, c)'
  BY <1>2, PushHolds
<1>3. ASSUME NEW k \in LoggerNumbers, LoggerNext(k) PROVE HoldsFor(l, c)'
  BY <1>3, LoggerHolds
<1>4. CASE UNCHANGED <<sessionVars, loggerVars>>
  <2>1. /\ logs' = logs /\ batch' = batch /\ next' = next /\ threw' = threw
        /\ sink' = sink /\ local' = local /\ queue' = queue /\ closed' = closed
    BY <1>4, Zenon DEF sessionVars, loggerVars
  <2>2. Line(l, c)' = Line(l, c) /\ GivenTo(l, c)' = GivenTo(l, c)
    BY <2>1, Zenon DEF Line, GivenTo
  <2> QED
    BY <2>1, <2>2, HoldsStill
<1>5. ASSUME NEW k \in LoggerNumbers, Destroy(k) PROVE UNCHANGED <<sessionVars, loggerVars>>
  BY <1>5 DEF Destroy
<1>6. Stop \/ Finished \/ UNCHANGED vars => UNCHANGED <<sessionVars, loggerVars>>
  BY DEF Stop, Finished, vars
<1> QED
  BY <1>1, <1>2, <1>3, <1>4, <1>5, <1>6 DEF Next

(* src/server.cpp:124-157, src/logger.cpp:26-61: however the handlers of   *)
(* several connections interleave, a sink that never threw has, of each    *)
(* connection, exactly the logs of its level that were pushed into its     *)
(* logger, once and in order, but for those still in the logger; once the  *)
(* logger is destroyed, or the process ended by another sink's last flush  *)
(* (src/logger.cpp:56), only the end of them can be missing.               *)
THEOREM SinksHoldWhatWasSent == Spec => []SinkHoldsWhatWasSent
<1>1. Typed /\ Phases /\ Handed /\ Holds /\ [Next]_vars => Handed' /\ Holds'
  BY HandedStep, HoldsStep
<1> QED
  BY <1>1, HoldsInit, PhasesInvariant, HoldsIsTheProperty, PTL DEF Spec
===============================================================================
