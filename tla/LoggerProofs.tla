----------------------------- MODULE LoggerProofs -----------------------------
(***************************************************************************)
(* Proofs about Logger, for any set of producers, any levels, a sink that  *)
(* may fail or not, and pushes of any size.                                *)
(***************************************************************************)
EXTENDS Logger, SequenceTheorems, FiniteSetTheorems, TLAPS

-------------------------------------------------------------------------------
(* Types.                                                                  *)

LEMMA RangeType ==
  ASSUME NEW seq \in Seq(Element)
  PROVE  Range(seq) \subseteq Element
BY RangeOfSeq

LEMMA DropType ==
  ASSUME NEW seq \in Seq(Element), Drop(seq),
         lost \subseteq Element, filtered \subseteq Element
  PROVE  lost' \subseteq Element /\ filtered' \subseteq Element
BY RangeType DEF Drop, Accepted

LEMMA NewElementsType ==
  ASSUME NEW p \in Producers, NEW len \in Nat, NEW levels \in [1 .. len -> Levels],
         sent \in [Producers -> Nat]
  PROVE  /\ NewElements(p, levels) \in Seq(Element)
         /\ Len(NewElements(p, levels)) = len
         /\ \A i \in 1 .. len : /\ NewElements(p, levels)[i].from = p
                               /\ NewElements(p, levels)[i].n = sent[p] + i
<1>1. levels \in Seq(Levels) /\ Len(levels) = len
  OBVIOUS
<1>2. \A i \in 1 .. len :
        [from |-> p, n |-> sent[p] + i, level |-> levels[i]] \in Element
  BY DEF Element
<1> QED
  BY <1>1, <1>2 DEF NewElements

(* Every variable of a logger keeps its type (the members of Logger,       *)
(* logger.h, and the places its threads can be in), whatever is pushed.    *)
THEOREM TypeCorrect == Spec => []TypeOK
<1>1. ASSUME Init
      PROVE  TypeOK
  <2>1. done \in BOOLEAN
    BY <1>1, Zenon DEF Init
  <2> QED
    BY <1>1, <2>1, EmptySeq DEF Init, TypeOK
<1>2. TypeOK /\ [Next]_vars => TypeOK'
  <2> SUFFICES ASSUME TypeOK, [Next]_vars
               PROVE  TypeOK'
    OBVIOUS
  <2> USE DEF TypeOK
  <2>1. ASSUME NEW p \in Producers, PushLock(p)
        PROVE  TypeOK'
    BY <2>1 DEF PushLock, sinkVars, lossVars
  <2>2. ASSUME NEW p \in Producers, PushInsert(p)
        PROVE  TypeOK'
    <3>0. PICK len \in 1 .. MaxBatch :
            \E levels \in [1 .. len -> Levels] :
              /\ elements' = elements \o NewElements(p, levels)
              /\ sent' = [sent EXCEPT ![p] = @ + len]
      BY <2>2 DEF PushInsert, Insert
    <3>1. PICK levels \in [1 .. len -> Levels] :
            /\ elements' = elements \o NewElements(p, levels)
            /\ sent' = [sent EXCEPT ![p] = @ + len]
      BY <3>0
    <3>2. len \in Nat
      BY BoundAssumption
    <3>3. NewElements(p, levels) \in Seq(Element)
      BY <3>2, NewElementsType
    <3>4. elements' \in Seq(Element) /\ sent' \in [Producers -> Nat]
      BY <3>1, <3>2, <3>3
    <3> QED
      BY <2>2, <3>4 DEF PushInsert, sinkVars, lossVars
  <2>3. ASSUME NEW p \in Producers, PushNotify(p)
        PROVE  TypeOK'
    BY <2>3 DEF PushNotify, NotifyOne, sinkVars, lossVars
  <2>4. CASE WorkerLock \/ WorkerDecideToWait \/ WorkerWait \/ WorkerSpuriousWakeup
    BY <2>4 DEF WorkerLock, WorkerDecideToWait, WorkerWait, WorkerSpuriousWakeup,
                lockVars, sinkVars, lossVars
  <2>5. CASE WorkerSwap
    BY <2>5 DEF WorkerSwap, sinkVars, lossVars
  <2>6. CASE WorkerExit
    BY <2>6 DEF WorkerExit, FinalFlush, sinkVars, lossVars
  <2>7. CASE WorkerExitThrows
    BY <2>7, DropType DEF WorkerExitThrows, sinkVars
  <2>8. CASE WorkerSkip
    BY <2>8, HeadTailProperties DEF WorkerSkip, lockVars, sinkVars
  <2>9. CASE WorkerLog
    BY <2>9, HeadTailProperties, AppendProperties DEF WorkerLog, lockVars, lossVars
  <2>10. CASE WorkerLogThrows
    <3>1. Head(batch) \in Element /\ Tail(batch) \in Seq(Element)
      BY <2>10, HeadTailProperties DEF WorkerLogThrows
    <3>2. Drop(Tail(batch))
      BY <2>10 DEF WorkerLogThrows
    <3>3. lost' \subseteq Element /\ filtered' \subseteq Element
      BY <3>1, <3>2, DropType
    <3> QED
      BY <2>10, <3>1, <3>3, EmptySeq DEF WorkerLogThrows, lockVars, sinkVars
  <2>11. CASE WorkerFlush \/ WorkerFlushThrows
    <3>1. CASE WorkerFlush
      <4>1. flushed' \in Nat
        BY <3>1, LenProperties DEF WorkerFlush, FlushBatch
      <4> QED
        BY <3>1, <4>1 DEF WorkerFlush, lockVars, lossVars
    <3>2. CASE WorkerFlushThrows
      <4>1. threw' \in BOOLEAN
        BY <3>2, Zenon DEF WorkerFlushThrows
      <4> QED
        BY <3>2, <4>1 DEF WorkerFlushThrows, lockVars, sinkVars
    <3> QED
      BY <2>11, <3>1, <3>2
  <2>12. CASE DestroySetDone \/ DestroyNotify
    BY <2>12 DEF DestroySetDone, DestroyNotify, NotifyOne, lockVars, sinkVars, lossVars
  <2>13. CASE DestroyJoin
    <3>1. lost' \subseteq Element /\ filtered' \subseteq Element
      BY <2>13, DropType DEF DestroyJoin
    <3>2. elements' \in Seq(Element) /\ dpc' = "destroyed"
      BY <2>13, EmptySeq DEF DestroyJoin
    <3> QED
      BY <2>13, <3>1, <3>2 DEF DestroyJoin, sinkVars
  <2>14. CASE Finished \/ UNCHANGED vars
    BY <2>14 DEF Finished, vars, lockVars, sinkVars, lossVars
  <2> QED
    BY <2>1, <2>2, <2>3, <2>4, <2>5, <2>6, <2>7, <2>8, <2>9, <2>10, <2>11, <2>12,
       <2>13, <2>14
       DEF Next, PushNext, WorkerWaitNext, WorkerLogNext, DestroyNext
<1> QED
  BY <1>1, <1>2, PTL DEF Spec

-------------------------------------------------------------------------------
(* Locking and waking.                                                     *)

(* The phases the threads can be in together: push is only ever under way  *)
(* while the logger lives, the destructor outlives the worker, and the     *)
(* worker's local vector is empty except inside a batch.                   *)
Phases ==
  /\ \A p \in Producers : ppc[p] # "idle" => dpc = "live"
  /\ dpc = "destroyed" => wpc = "exited"
  /\ wpc # "log" => batch = <<>>

LockInv == TypeOK /\ MutualExclusion /\ NoLostWakeup /\ Phases

LEMMA LockInvInit == Init => LockInv
<1> SUFFICES ASSUME Init PROVE LockInv
  OBVIOUS
<1>1. TypeOK
  <2>1. done \in BOOLEAN
    BY Zenon DEF Init
  <2> QED
    BY <2>1, EmptySeq DEF Init, TypeOK
<1>2. MutualExclusion /\ Phases
  BY ThreadAssumption DEF Init, MutualExclusion, Phases
<1>3. NoLostWakeup
  BY DEF Init, NoLostWakeup
<1> QED
  BY <1>1, <1>2, <1>3 DEF LockInv

(* A producer that is in push holds the mutex and nobody else does.        *)
LEMMA PusherAlone ==
  ASSUME LockInv, NEW p \in Producers, ppc[p] # "idle"
  PROVE  /\ mutex = p
         /\ \A q \in Producers \ {p} : ppc[q] = "idle"
         /\ wpc \notin {"test", "wait", "aborted"}
         /\ dpc = "live"
BY ThreadAssumption DEF LockInv, MutualExclusion, Phases

LEMMA LockInvStep ==
  ASSUME LockInv, TypeOK', [Next]_vars
  PROVE  MutualExclusion' /\ NoLostWakeup' /\ Phases'
<1> USE ThreadAssumption
<1>1. ASSUME NEW p \in Producers, PushLock(p)
      PROVE  MutualExclusion' /\ NoLostWakeup' /\ Phases'
  BY <1>1 DEF LockInv, TypeOK, MutualExclusion, NoLostWakeup, Phases, PushLock, Unlocked
<1>2. ASSUME NEW p \in Producers, PushInsert(p)
      PROVE  MutualExclusion' /\ NoLostWakeup' /\ Phases'
  <2>1. ppc[p] = "insert" /\ ppc' = [ppc EXCEPT ![p] = "notify"]
    BY <1>2 DEF PushInsert
  <2>2. UNCHANGED <<mutex, done, wpc, batch, dpc>>
    BY <1>2 DEF PushInsert
  <2> QED
    BY <2>1, <2>2, PusherAlone DEF LockInv, TypeOK, MutualExclusion, NoLostWakeup, Phases
<1>3. ASSUME NEW p \in Producers, PushNotify(p)
      PROVE  MutualExclusion' /\ NoLostWakeup' /\ Phases'
  <2>1. wpc # "wait" /\ mutex = p /\ dpc = "live"
    BY <1>3, PusherAlone DEF PushNotify
  <2> QED
    BY <1>3, <2>1
       DEF LockInv, TypeOK, MutualExclusion, NoLostWakeup, Phases, PushNotify, NotifyOne
<1>4. CASE WorkerLock
  BY <1>4 DEF LockInv, TypeOK, MutualExclusion, NoLostWakeup, Phases, WorkerLock, Unlocked
<1>5. CASE WorkerDecideToWait \/ WorkerWait \/ WorkerSpuriousWakeup
  BY <1>5 DEF LockInv, TypeOK, MutualExclusion, NoLostWakeup, Phases, WorkerDecideToWait,
              WakePredicate, WorkerWait, WorkerSpuriousWakeup, lockVars
<1>6. CASE WorkerSwap \/ WorkerExit \/ WorkerExitThrows
  BY <1>6 DEF LockInv, TypeOK, MutualExclusion, NoLostWakeup, Phases, WorkerSwap, WorkerExit,
              WorkerExitThrows
<1>7. CASE WorkerSkip \/ WorkerLog
  BY <1>7 DEF LockInv, TypeOK, MutualExclusion, NoLostWakeup, Phases, WorkerSkip, WorkerLog,
              lockVars
<1>8. CASE WorkerLogThrows \/ WorkerFlush \/ WorkerFlushThrows
  BY <1>8 DEF LockInv, TypeOK, MutualExclusion, NoLostWakeup, Phases, WorkerLogThrows,
              WorkerFlush, WorkerFlushThrows, lockVars
<1>9. CASE DestroySetDone
  BY <1>9 DEF LockInv, TypeOK, MutualExclusion, NoLostWakeup, Phases, DestroySetDone, Unlocked
<1>10. CASE DestroyNotify \/ DestroyJoin
  BY <1>10 DEF LockInv, TypeOK, MutualExclusion, NoLostWakeup, Phases, DestroyNotify,
               DestroyJoin, NotifyOne, lockVars
<1>11. CASE Finished \/ UNCHANGED vars
  BY <1>11 DEF LockInv, TypeOK, MutualExclusion, NoLostWakeup, Phases, Finished, vars, lockVars
<1> QED
  BY <1>1, <1>2, <1>3, <1>4, <1>5, <1>6, <1>7, <1>8, <1>9, <1>10, <1>11
     DEF Next, PushNext, WorkerWaitNext, WorkerLogNext, DestroyNext

THEOREM LockInvariant == Spec => []LockInv
<1>1. TypeOK /\ TypeOK' /\ LockInv /\ [Next]_vars => LockInv'
  BY LockInvStep DEF LockInv
<1> QED
  BY <1>1, LockInvInit, TypeCorrect, PTL DEF Spec

(* m_elements and m_done are touched by one thread at a time (logger.cpp:  *)
(* the lock_guards of push and ~Logger, the unique_lock of worker).        *)
THEOREM Mutex == Spec => []MutualExclusion
<1>1. LockInv => MutualExclusion
  BY DEF LockInv
<1> QED
  BY <1>1, LockInvariant, PTL

(* The worker never sleeps through a push or through its destruction.      *)
THEOREM WakeupsArrive == Spec => []NoLostWakeup
<1>1. LockInv => NoLostWakeup
  BY DEF LockInv
<1> QED
  BY <1>1, LockInvariant, PTL

-------------------------------------------------------------------------------
(* Order.                                                                  *)

LEMMA Associative ==
  \A s, t, u \in Seq(Element) : (s \o t) \o u = s \o (t \o u)
BY ConcatAssociative

(* In producer order, and no element numbered beyond what its producer has *)
(* pushed: the form of ProducerOrder that the steps of a logger preserve.  *)
Numbered(seq, limit) == \A i \in 1 .. Len(seq) : seq[i].n <= limit[seq[i].from]

(* Taking a stretch out of a sequence keeps what is left in order.         *)
LEMMA RemoveMiddle ==
  ASSUME NEW a \in Seq(Element), NEW b \in Seq(Element), NEW c \in Seq(Element),
         NEW limit,
         InProducerOrder((a \o b) \o c), Numbered((a \o b) \o c, limit)
  PROVE  InProducerOrder(a \o c) /\ Numbered(a \o c, limit)
<1> DEFINE whole == (a \o b) \o c
           rest  == a \o c
           at(i) == IF i <= Len(a) THEN i ELSE i + Len(b)
<1>1. /\ whole \in Seq(Element) /\ Len(whole) = Len(a) + Len(b) + Len(c)
      /\ rest \in Seq(Element) /\ Len(rest) = Len(a) + Len(c)
      /\ Len(a) \in Nat /\ Len(b) \in Nat /\ Len(c) \in Nat
  BY ConcatProperties, LenProperties
<1>2. ASSUME NEW i \in 1 .. Len(rest)
      PROVE  at(i) \in 1 .. Len(whole) /\ rest[i] = whole[at(i)]
  <2>1. at(i) \in 1 .. Len(whole)
    BY <1>1
  <2>2. CASE i <= Len(a)
    BY <1>1, <2>2, ConcatProperties
  <2>3. CASE ~(i <= Len(a))
    <3>1. rest[i] = c[i - Len(a)]
      BY <1>1, <2>3, ConcatProperties
    <3>2. whole[i + Len(b)] = c[(i + Len(b)) - Len(a \o b)]
      BY <1>1, <2>1, <2>3, ConcatProperties
    <3> QED
      BY <1>1, <2>1, <2>3, <3>1, <3>2, ConcatProperties
  <2> QED
    BY <2>2, <2>3
<1>3. \A i, j \in 1 .. Len(rest) : i < j => at(i) < at(j)
  BY <1>1
<1> HIDE DEF whole, rest, at
<1>4. InProducerOrder(rest)
  BY <1>2, <1>3 DEF InProducerOrder, whole
<1>5. Numbered(rest, limit)
  BY <1>2 DEF Numbered, whole
<1> QED
  BY <1>4, <1>5 DEF rest

(* So does pushing: the new elements are numbered on from what their       *)
(* producer has pushed before.                                             *)
LEMMA PushKeepsOrder ==
  ASSUME TypeOK, NEW p \in Producers, NEW len \in Nat, NEW levels \in [1 .. len -> Levels],
         NEW seq \in Seq(Element),
         InProducerOrder(seq), Numbered(seq, sent)
  PROVE  /\ InProducerOrder(seq \o NewElements(p, levels))
         /\ Numbered(seq \o NewElements(p, levels), [sent EXCEPT ![p] = @ + len])
<1> DEFINE new   == NewElements(p, levels)
           whole == seq \o new
<1>0. sent \in [Producers -> Nat]
  BY Zenon DEF TypeOK
<1>1. /\ new \in Seq(Element) /\ Len(new) = len
      /\ \A i \in 1 .. len : new[i].from = p /\ new[i].n = sent[p] + i
  BY <1>0, NewElementsType
<1> HIDE DEF new
<1>2. /\ Len(seq) \in Nat /\ Len(whole) = Len(seq) + len
      /\ \A i \in 1 .. Len(seq) : whole[i] = seq[i]
      /\ \A i \in Len(seq) + 1 .. Len(seq) + len : whole[i] = new[i - Len(seq)]
  <2>1. /\ Len(whole) = Len(seq) + Len(new)
        /\ \A i \in 1 .. Len(seq) + Len(new) :
             whole[i] = IF i <= Len(seq) THEN seq[i] ELSE new[i - Len(seq)]
    BY <1>1, ConcatProperties, Zenon
  <2>2. Len(seq) \in Nat
    BY LenProperties
  <2> HIDE DEF whole
  <2> QED
    BY <1>1, <2>1, <2>2
<1> HIDE DEF whole
<1>3. \A i \in Len(seq) + 1 .. Len(seq) + len :
        whole[i].from = p /\ whole[i].n = sent[p] + (i - Len(seq))
  BY <1>1, <1>2
<1>4. \A i \in 1 .. Len(seq) : seq[i] \in Element
  BY ElementOfSeq
<1>5. /\ sent[p] \in Nat
      /\ \A i \in 1 .. Len(seq) : seq[i].n \in Nat /\ seq[i].from \in Producers
                                 /\ sent[seq[i].from] \in Nat
  BY <1>4 DEF Element, TypeOK
<1>6. InProducerOrder(whole)
  <2> SUFFICES ASSUME NEW i \in 1 .. Len(whole), NEW j \in 1 .. Len(whole),
                      i < j, whole[i].from = whole[j].from
               PROVE  whole[i].n < whole[j].n
    BY DEF InProducerOrder
  <2>1. CASE j <= Len(seq)
    <3>1. /\ i \in 1 .. Len(seq) /\ j \in 1 .. Len(seq)
          /\ whole[i] = seq[i] /\ whole[j] = seq[j]
      BY <1>2, <2>1
    <3> QED
      BY <3>1, Zenon DEF InProducerOrder
  <2>2. CASE i <= Len(seq) /\ Len(seq) < j
    <3>1. i \in 1 .. Len(seq) /\ j \in Len(seq) + 1 .. Len(seq) + len
      BY <1>2, <2>2
    <3>2. whole[i] = seq[i] /\ seq[i].n <= sent[seq[i].from] /\ seq[i].n \in Nat
      BY <1>2, <1>5, <3>1 DEF Numbered
    <3>3. seq[i].from = p /\ whole[j].n = sent[p] + (j - Len(seq))
      BY <1>3, <3>1, <3>2
    <3> QED
      BY <1>2, <1>5, <3>1, <3>2, <3>3
  <2>3. CASE Len(seq) < i
    <3>1. i \in Len(seq) + 1 .. Len(seq) + len /\ j \in Len(seq) + 1 .. Len(seq) + len
      BY <1>2, <2>3
    <3>2. whole[i].n = sent[p] + (i - Len(seq)) /\ whole[j].n = sent[p] + (j - Len(seq))
      BY <1>3, <3>1
    <3> QED
      BY <1>2, <1>5, <3>1, <3>2
  <2> QED
    BY <1>2, <2>1, <2>2, <2>3
<1>7. Numbered(whole, [sent EXCEPT ![p] = @ + len])
  <2> SUFFICES ASSUME NEW i \in 1 .. Len(whole)
               PROVE  whole[i].n <= [sent EXCEPT ![p] = @ + len][whole[i].from]
    BY DEF Numbered
  <2>1. CASE i <= Len(seq)
    <3>1. whole[i] = seq[i] /\ seq[i].n <= sent[seq[i].from] /\ seq[i].from \in Producers
      BY <1>2, <1>5, <2>1 DEF Numbered
    <3>2. [sent EXCEPT ![p] = @ + len][seq[i].from] >= sent[seq[i].from]
      BY <3>1, <1>5 DEF TypeOK
    <3> QED
      BY <1>5, <2>1, <3>1, <3>2 DEF TypeOK
  <2>2. CASE Len(seq) < i
    <3>1. whole[i].from = p /\ whole[i].n = sent[p] + (i - Len(seq)) /\ i - Len(seq) <= len
      BY <1>2, <1>3, <2>2
    <3>2. [sent EXCEPT ![p] = @ + len][p] = sent[p] + len
      BY DEF TypeOK
    <3> QED
      BY <1>2, <1>5, <3>1, <3>2
  <2> QED
    BY <1>2, <2>1, <2>2
<1> QED
  BY <1>6, <1>7 DEF whole, new

LEMMA HeadThenTail ==
  ASSUME NEW S, NEW seq \in Seq(S), seq # <<>>
  PROVE  /\ Head(seq) \in S /\ Tail(seq) \in Seq(S)
         /\ seq = <<Head(seq)>> \o Tail(seq)
<1>1. Head(seq) \in S /\ Tail(seq) \in Seq(S)
  BY HeadTailProperties
<1>2. 1 \in 1 .. Len(seq) /\ Len(seq) \in 1 .. Len(seq) /\ seq[1] = Head(seq)
  BY EmptySeq
<1>3. seq = SubSeq(seq, 1, Len(seq)) /\ Tail(seq) = SubSeq(seq, 2, Len(seq))
  BY SubSeqFull, TailIsSubSeq
<1>4. SubSeq(seq, 1, Len(seq)) = <<seq[1]>> \o SubSeq(seq, 1 + 1, Len(seq))
  BY <1>2, SubSeqRecursiveFirst, Zenon
<1> QED
  BY <1>1, <1>2, <1>3, <1>4

(* The first element of a batch may be left out of the line.               *)
LEMMA SkipKeepsOrder ==
  ASSUME NEW a \in Seq(Element), NEW h \in Seq(Element), NEW t \in Seq(Element),
         NEW c \in Seq(Element), NEW limit,
         InProducerOrder((a \o (h \o t)) \o c), Numbered((a \o (h \o t)) \o c, limit)
  PROVE  InProducerOrder((a \o t) \o c) /\ Numbered((a \o t) \o c, limit)
<1>1. a \o h \in Seq(Element) /\ t \o c \in Seq(Element)
  OBVIOUS
<1>2. a \o (h \o t) = (a \o h) \o t
  BY Associative
<1>3. (a \o t) \o c = a \o (t \o c)
  BY Associative
<1>4. ((a \o h) \o t) \o c = (a \o h) \o (t \o c)
  <2> DEFINE u == a \o h
  <2>1. u \in Seq(Element)
    BY <1>1
  <2> HIDE DEF u
  <2>2. (u \o t) \o c = u \o (t \o c)
    BY <2>1, Associative
  <2> QED
    BY <2>2 DEF u
<1>5. (a \o (h \o t)) \o c = (a \o h) \o (t \o c)
  BY <1>2, <1>4, Zenon
<1> DEFINE d == t \o c
<1>6. d \in Seq(Element)
  BY <1>1
<1>7. InProducerOrder((a \o h) \o d) /\ Numbered((a \o h) \o d, limit)
  BY <1>5, Zenon
<1> HIDE DEF d
<1>8. InProducerOrder(a \o d) /\ Numbered(a \o d, limit)
  BY <1>6, <1>7, RemoveMiddle, Zenon
<1> QED
  BY <1>3, <1>8, Zenon DEF d

OrderInv == InProducerOrder(Pipeline) /\ Numbered(Pipeline, sent)

LEMMA OrderInvStep ==
  ASSUME LockInv, OrderInv, [Next]_vars
  PROVE  OrderInv'
<1> USE DEF OrderInv, Pipeline
<1>0. /\ TypeOK /\ (wpc # "log" => batch = <<>>)
      /\ sink \in Seq(Element) /\ batch \in Seq(Element) /\ elements \in Seq(Element)
      /\ <<>> \in Seq(Element)
  BY EmptySeq DEF LockInv, TypeOK, Phases
<1>1. ASSUME NEW p \in Producers, PushInsert(p)
      PROVE  OrderInv'
  <2>1. PICK len \in 1 .. MaxBatch :
          \E levels \in [1 .. len -> Levels] :
            /\ elements' = elements \o NewElements(p, levels)
            /\ sent' = [sent EXCEPT ![p] = @ + len]
    BY <1>1 DEF PushInsert, Insert
  <2>2. PICK levels \in [1 .. len -> Levels] :
          /\ elements' = elements \o NewElements(p, levels)
          /\ sent' = [sent EXCEPT ![p] = @ + len]
    BY <2>1
  <2>3. len \in Nat /\ UNCHANGED <<sink, batch>>
    BY <1>1, BoundAssumption DEF PushInsert, sinkVars
  <2>4. NewElements(p, levels) \in Seq(Element)
    BY <1>0, <2>3, NewElementsType DEF TypeOK
  <2>5. /\ sink \o batch \in Seq(Element) /\ (sink \o batch) \o elements \in Seq(Element)
        /\ (sink \o batch) \o (elements \o NewElements(p, levels))
             = ((sink \o batch) \o elements) \o NewElements(p, levels)
    <3>1. sink \o batch \in Seq(Element)
      BY <1>0, ConcatProperties, Zenon
    <3>2. (sink \o batch) \o elements \in Seq(Element)
      BY <1>0, <3>1, ConcatProperties, Zenon
    <3> QED
      <4> DEFINE u == sink \o batch
                 new == NewElements(p, levels)
      <4>1. u \in Seq(Element) /\ elements \in Seq(Element) /\ new \in Seq(Element)
        BY <1>0, <2>4, <3>1, Zenon
      <4> HIDE DEF u, new
      <4>2. u \o (elements \o new) = (u \o elements) \o new
        BY <4>1, Associative
      <4> QED
        BY <3>1, <3>2, <4>2 DEF u, new
  <2> DEFINE line == (sink \o batch) \o elements
             new  == NewElements(p, levels)
  <2>6. line \in Seq(Element) /\ InProducerOrder(line) /\ Numbered(line, sent)
    BY <2>5
  <2>7. Pipeline' = line \o new
    BY <2>2, <2>3, <2>5
  <2> HIDE DEF line
  <2>8. InProducerOrder(line \o new) /\ Numbered(line \o new, [sent EXCEPT ![p] = @ + len])
    BY <1>0, <2>3, <2>6, PushKeepsOrder, Zenon
  <2> HIDE DEF new, Pipeline
  <2> QED
    BY <2>2, <2>7, <2>8, Zenon
<1>2. CASE WorkerSwap
  <2>1. batch = <<>> /\ batch' = elements /\ elements' = <<>> /\ UNCHANGED <<sink, sent>>
    BY <1>0, <1>2 DEF WorkerSwap, sinkVars
  <2>2. /\ (sink \o <<>>) \o elements = sink \o elements
        /\ (sink \o elements) \o <<>> = sink \o elements
    BY <1>0, ConcatProperties, ConcatEmptySeq
  <2> QED
    BY <2>1, <2>2
<1>3. CASE WorkerSkip
  <2>1. batch # <<>> /\ batch' = Tail(batch) /\ UNCHANGED <<sink, elements, sent>>
    BY <1>3 DEF WorkerSkip, lockVars, sinkVars
  <2> DEFINE h == <<Head(batch)>>
             t == Tail(batch)
  <2>2. h \in Seq(Element) /\ t \in Seq(Element) /\ batch = h \o t
    BY <1>0, <2>1, HeadThenTail
  <2> HIDE DEF h, t
  <2>3. /\ InProducerOrder((sink \o (h \o t)) \o elements)
        /\ Numbered((sink \o (h \o t)) \o elements, sent)
    BY <2>2, Zenon
  <2>4. InProducerOrder((sink \o t) \o elements) /\ Numbered((sink \o t) \o elements, sent)
    BY <1>0, <2>2, <2>3, SkipKeepsOrder, Zenon
  <2> QED
    BY <2>1, <2>4, Zenon DEF t
<1>4. CASE WorkerLog
  <2>1. /\ batch # <<>> /\ sink' = Append(sink, Head(batch)) /\ batch' = Tail(batch)
        /\ UNCHANGED <<elements, sent>>
    BY <1>4 DEF WorkerLog, lockVars
  <2>2. Head(batch) \in Element /\ Tail(batch) \in Seq(Element)
        /\ batch = <<Head(batch)>> \o Tail(batch)
    BY <1>0, <2>1, HeadThenTail
  <2>3. Append(sink, Head(batch)) = sink \o <<Head(batch)>>
    BY <1>0, <2>2, AppendIsConcat
  <2>4. (sink \o <<Head(batch)>>) \o Tail(batch) = sink \o (<<Head(batch)>> \o Tail(batch))
    BY <1>0, <2>2, Associative
  <2> QED
    BY <2>1, <2>2, <2>3, <2>4
<1>5. CASE WorkerLogThrows
  <2>1. batch' = <<>> /\ UNCHANGED <<sink, elements, sent>>
    BY <1>5 DEF WorkerLogThrows, lockVars, sinkVars
  <2>2. sink \o <<>> = sink
    BY <1>0, ConcatEmptySeq
  <2>3. InProducerOrder(sink \o elements) /\ Numbered(sink \o elements, sent)
    BY <1>0, RemoveMiddle
  <2> QED
    BY <2>1, <2>2, <2>3
<1>6. ASSUME batch = <<>>, elements' = <<>>, UNCHANGED <<sink, batch, sent>>
      PROVE  OrderInv'
  <2>1. /\ sink \o <<>> = sink
        /\ sink \o elements \in Seq(Element) /\ (sink \o elements) \o <<>> = sink \o elements
    BY <1>0, ConcatProperties, ConcatEmptySeq
  <2>2. InProducerOrder(sink \o <<>>) /\ Numbered(sink \o <<>>, sent)
    BY <1>0, <1>6, <2>1, RemoveMiddle
  <2> QED
    BY <1>6, <2>1, <2>2
<1>9. ASSUME UNCHANGED <<sink, batch, elements, sent>>
      PROVE  OrderInv'
  BY <1>9
<1> HIDE DEF OrderInv, Pipeline
<1>7. CASE WorkerExitThrows
  BY <1>0, <1>6, <1>7 DEF WorkerExitThrows, sinkVars
<1>8. CASE DestroyJoin
  BY <1>0, <1>6, <1>8 DEF DestroyJoin, sinkVars
<1>10. ASSUME NEW p \in Producers, PushLock(p) \/ PushNotify(p)
       PROVE  OrderInv'
  BY <1>9, <1>10 DEF PushLock, PushNotify, sinkVars
<1>11. CASE WorkerLock \/ WorkerDecideToWait \/ WorkerWait \/ WorkerSpuriousWakeup \/ WorkerExit
  BY <1>9, <1>11 DEF WorkerLock, WorkerDecideToWait, WorkerWait, WorkerSpuriousWakeup, WorkerExit,
                     lockVars, sinkVars
<1>12. CASE WorkerFlush \/ WorkerFlushThrows
  BY <1>9, <1>12 DEF WorkerFlush, WorkerFlushThrows, lockVars, sinkVars
<1>13. CASE DestroySetDone \/ DestroyNotify \/ Finished \/ UNCHANGED vars
  BY <1>9, <1>13 DEF DestroySetDone, DestroyNotify, Finished, vars, lockVars, sinkVars
<1> QED
  BY <1>1, <1>2, <1>3, <1>4, <1>5, <1>7, <1>8, <1>10, <1>11, <1>12, <1>13
     DEF Next, PushNext, WorkerWaitNext, WorkerLogNext, DestroyNext

LEMMA OrderInvariant == Spec => []OrderInv
<1>1. Init => OrderInv
  <2> SUFFICES ASSUME Init PROVE OrderInv
    OBVIOUS
  <2>1. Len((<<>> \o <<>>) \o <<>>) = 0
    OBVIOUS
  <2> QED
    BY <2>1 DEF Init, OrderInv, Pipeline, InProducerOrder, Numbered
<1>2. LockInv /\ OrderInv /\ [Next]_vars => OrderInv'
  BY OrderInvStep
<1> QED
  BY <1>1, <1>2, LockInvariant, PTL DEF Spec

(* Whatever the threads do, the sink receives each producer's elements in  *)
(* the order push was called with them, none twice (Logger::worker swaps   *)
(* whole vectors, so a batch is never interleaved with the next one).      *)
THEOREM Order == Spec => []ProducerOrder
<1>1. OrderInv => ProducerOrder
  BY DEF OrderInv, ProducerOrder
<1> QED
  BY <1>1, OrderInvariant, PTL

-------------------------------------------------------------------------------
(* Implementation of the abstract queue.                                   *)

Line == batch \o elements

LEMMA QueueStep ==
  ASSUME LockInv, LockInv', [Next]_vars
  PROVE  [Queue!Next]_(Queue!vars)
<1> USE DEF Line
<1>0. /\ sink \in Seq(Element) /\ batch \in Seq(Element) /\ elements \in Seq(Element)
      /\ <<>> \in Seq(Element)
      /\ wpc # "log" => batch = <<>>
      /\ dpc = "destroyed" => wpc = "exited"
      /\ Line \in Seq(Element) /\ Len(Line) = Len(batch) + Len(elements)
      /\ Len(batch) \in Nat /\ Len(elements) \in Nat
  BY EmptySeq, ConcatProperties, LenProperties DEF LockInv, TypeOK, Phases
<1> HIDE DEF Line
<1>1. ASSUME NEW p \in Producers, PushInsert(p)
      PROVE  Queue!Enqueue
  <2>1. ~Closed /\ Closed' = Closed /\ UNCHANGED <<sink, batch>>
    BY <1>1, PusherAlone DEF PushInsert, Closed, sinkVars
  <2>2. PICK len \in 1 .. MaxBatch :
          \E levels \in [1 .. len -> Levels] :
            elements' = elements \o NewElements(p, levels)
    BY <1>1 DEF PushInsert, Insert
  <2>3. PICK levels \in [1 .. len -> Levels] :
          elements' = elements \o NewElements(p, levels)
    BY <2>2
  <2> DEFINE new == NewElements(p, levels)
  <2>4. len \in Nat \ {0} /\ new \in Seq(Element) /\ Len(new) = len
    <3>1. len \in Nat \ {0} /\ sent \in [Producers -> Nat]
      BY BoundAssumption DEF LockInv, TypeOK
    <3> QED
      BY <3>1, NewElementsType
  <2> HIDE DEF new
  <2>5. Line' = Line \o new
    <3>1. (batch \o elements) \o new = batch \o (elements \o new)
      <4>1. batch \in Seq(Element) /\ elements \in Seq(Element) /\ new \in Seq(Element)
        BY <1>0, <2>4, Zenon
      <4> QED
        BY <4>1, Associative
    <3>2. elements' = elements \o new /\ batch' = batch
      BY <2>1, <2>3 DEF new
    <3> QED
      BY <3>1, <3>2, Zenon DEF Line
  <2>6. /\ Len(Line \o new) = Len(Line) + len /\ Len(Line) \in Nat
        /\ SubSeq(Line \o new, 1, Len(Line)) = Line
    <3>0. Line \in Seq(Element) /\ new \in Seq(Element)
      BY <1>0, <2>4, Zenon
    <3>1. /\ Line \o new \in Seq(Element) /\ Len(Line \o new) = Len(Line) + Len(new)
          /\ \A i \in 1 .. Len(Line) + Len(new) :
               (Line \o new)[i] = IF i <= Len(Line) THEN Line[i] ELSE new[i - Len(Line)]
      BY <3>0, ConcatProperties, Zenon
    <3> DEFINE long == Line \o new
    <3> HIDE DEF long
    <3>2. Len(Line) \in Nat /\ long \in Seq(Element) /\ Len(long) = Len(Line) + len
          /\ \A i \in 1 .. Len(Line) : long[i] = Line[i]
      BY <1>0, <2>4, <3>1, LenProperties DEF long
    <3>3. SubSeq(long, 1, Len(Line)) = Line
      BY <1>0, <2>4, <3>2
    <3> QED
      BY <3>2, <3>3 DEF long
  <2> QED
    BY <2>1, <2>4, <2>5, <2>6 DEF Queue!Enqueue, Line
<1>2. ASSUME WorkerLog
      PROVE  Queue!Forward
  <2>1. /\ batch # <<>> /\ wpc = "log" /\ wpc' = "log" /\ UNCHANGED <<elements, dpc>>
        /\ sink' = Append(sink, Head(batch)) /\ batch' = Tail(batch)
    BY <1>2 DEF WorkerLog, lockVars
  <2>2. ~Closed /\ Closed' = Closed
    BY <1>0, <2>1 DEF Closed
  <2>3. Line # <<>> /\ Head(Line) = Head(batch) /\ Tail(Line) = Tail(batch) \o elements
    BY <1>0, <2>1 DEF Line
  <2> QED
    BY <2>1, <2>2, <2>3 DEF Queue!Forward, Line
<1>3. ASSUME WorkerSkip
      PROVE  Queue!Discard
  <2>1. /\ batch # <<>> /\ wpc = "log" /\ wpc' = "log" /\ UNCHANGED <<elements, dpc, sink>>
        /\ batch' = Tail(batch)
    BY <1>3 DEF WorkerSkip, lockVars, sinkVars
  <2>2. ~Closed /\ Closed' = Closed
    BY <1>0, <2>1 DEF Closed
  <2>3. 1 \in 1 .. Len(Line) /\ Tail(batch) \o elements = SubSeq(Line, 1 + 1, Len(Line))
    <3>1. Len(batch) > 0
      BY <1>0, <2>1, EmptySeq
    <3>2. Line # <<>> /\ Tail(Line) = Tail(batch) \o elements
      BY <1>0, <2>1, <3>1 DEF Line
    <3>3. Tail(Line) = SubSeq(Line, 2, Len(Line))
      BY <1>0, <3>2, TailIsSubSeq
    <3>4. 1 \in 1 .. Len(Line)
      BY <1>0, <3>1
    <3>5. 1 + 1 = 2
      OBVIOUS
    <3>6. Tail(batch) \o elements = SubSeq(Line, 1 + 1, Len(Line))
      BY <3>2, <3>3, <3>5, Zenon
    <3> QED
      BY <3>4, <3>6
  <2> QED
    BY <2>1, <2>2, <2>3 DEF Queue!Discard, Line
<1>4. ASSUME WorkerLogThrows
      PROVE  Queue!Discard
  <2>1. /\ batch # <<>> /\ wpc = "log" /\ wpc' = "lock" /\ UNCHANGED <<elements, dpc, sink>>
        /\ batch' = <<>>
    BY <1>4 DEF WorkerLogThrows, lockVars, sinkVars
  <2>2. ~Closed /\ Closed' = Closed
    BY <1>0, <2>1 DEF Closed
  <2>3. Len(batch) \in 1 .. Len(Line)
    BY <1>0, <2>1, EmptySeq
  <2>4. <<>> \o elements = SubSeq(Line, Len(batch) + 1, Len(Line))
    <3>1. <<>> \o elements = elements
      BY <1>0, ConcatEmptySeq
    <3>2. \A i \in 1 .. Len(elements) : Line[Len(batch) + i] = elements[i]
      BY <1>0 DEF Line
    <3>3. SubSeq(Line, Len(batch) + 1, Len(Line)) = elements
      BY <1>0, <3>2
    <3> QED
      BY <3>1, <3>3
  <2> QED
    BY <2>1, <2>2, <2>3, <2>4 DEF Queue!Discard, Line
<1>5. ASSUME WorkerExitThrows \/ DestroyJoin
      PROVE  Queue!Close
  <2>1. ~Closed /\ Closed' = TRUE
    BY <1>0, <1>5 DEF WorkerExitThrows, DestroyJoin, Closed
  <2>2. batch = <<>> /\ batch' = <<>> /\ elements' = <<>> /\ UNCHANGED sink
    BY <1>0, <1>5 DEF WorkerExitThrows, DestroyJoin, sinkVars
  <2>3. <<>> \o <<>> = <<>>
    BY <1>0, ConcatEmptySeq
  <2> QED
    BY <2>1, <2>2, <2>3 DEF Queue!Close
<1>6. ASSUME UNCHANGED <<sink, Line, Closed>>
      PROVE  UNCHANGED Queue!vars
  BY <1>6 DEF Queue!vars, Line
<1>7. CASE WorkerSwap
  <2>1. batch = <<>> /\ batch' = elements /\ elements' = <<>> /\ UNCHANGED <<sink, dpc>>
        /\ wpc = "test" /\ wpc' = "log"
    BY <1>0, <1>7 DEF WorkerSwap, sinkVars
  <2>2. <<>> \o elements = elements /\ elements \o <<>> = elements
    BY <1>0, ConcatEmptySeq
  <2> QED
    BY <1>6, <2>1, <2>2 DEF Line, Closed
<1>8. ASSUME NEW p \in Producers, PushLock(p) \/ PushNotify(p)
      PROVE  UNCHANGED <<sink, Line, Closed>>
  BY <1>8 DEF PushLock, PushNotify, NotifyOne, sinkVars, Line, Closed
<1>9. CASE WorkerLock \/ WorkerDecideToWait \/ WorkerWait \/ WorkerSpuriousWakeup \/ WorkerExit
  BY <1>6, <1>9 DEF WorkerLock, WorkerDecideToWait, WorkerWait, WorkerSpuriousWakeup, WorkerExit,
                    lockVars, sinkVars, Line, Closed
<1>10. CASE WorkerFlush \/ WorkerFlushThrows
  BY <1>6, <1>10 DEF WorkerFlush, WorkerFlushThrows, lockVars, sinkVars, Line, Closed
<1>11. CASE DestroySetDone \/ DestroyNotify \/ Finished \/ UNCHANGED vars
  BY <1>6, <1>11 DEF DestroySetDone, DestroyNotify, NotifyOne, Finished, vars, lockVars, sinkVars,
                     Line, Closed
<1> QED
  BY <1>1, <1>2, <1>3, <1>4, <1>5, <1>6, <1>7, <1>8, <1>9, <1>10, <1>11
     DEF Next, PushNext, WorkerWaitNext, WorkerLogNext, DestroyNext, Queue!Next

(* Every behaviour of a logger, with its swaps, wakeups and errors, is one *)
(* of the queue that loses but neither reorders nor repeats.               *)
THEOREM Implementation == Spec => Queue!Spec
<1>1. Init => Queue!Init
  <2> SUFFICES ASSUME Init PROVE Queue!Init
    OBVIOUS
  <2>1. <<>> \o <<>> = <<>>
    OBVIOUS
  <2>2. Closed = FALSE
    BY Zenon DEF Init, Closed
  <2> QED
    BY <2>1, <2>2 DEF Init, Queue!Init
<1>2. LockInv /\ LockInv' /\ [Next]_vars => [Queue!Next]_(Queue!vars)
  BY QueueStep
<1> QED
  BY <1>1, <1>2, LockInvariant, PTL DEF Spec, Queue!Spec
-------------------------------------------------------------------------------
(* What is flushed.                                                        *)

(* The worker's count is what it owes the sink: as long as the sink has    *)
(* not thrown, all that is not flushed was logged since the last swap.     *)
Flushed ==
  /\ wpc = "exited" => flushed = Len(sink)
  /\ ~threw /\ wpc = "log" => flushed + count = Len(sink)
  /\ ~threw /\ wpc # "log" => flushed = Len(sink)

LEMMA FlushedStep ==
  ASSUME TypeOK, Flushed, [Next]_vars
  PROVE  Flushed'
<1>0. flushed \in Nat /\ count \in Nat /\ Len(sink) \in Nat
  BY LenProperties DEF TypeOK
<1>1. ASSUME NEW p \in Producers, PushLock(p) \/ PushInsert(p)
      PROVE  Flushed'
  BY <1>1, Zenon DEF PushLock, PushInsert, Flushed, sinkVars, lossVars
<1>2. ASSUME UNCHANGED <<threw, count, sinkVars>>,
             wpc' = wpc \/ (wpc \notin {"log", "exited"} /\ wpc' \notin {"log", "exited"})
      PROVE  Flushed'
  BY <1>2, Zenon DEF Flushed, sinkVars
<1>3. ASSUME NEW p \in Producers, PushNotify(p)
      PROVE  Flushed'
  <2>1. UNCHANGED <<threw, count, sinkVars>>
    BY <1>3, Zenon DEF PushNotify, lossVars
  <2>2. wpc' = wpc \/ (wpc = "asleep" /\ wpc' = "lock")
    BY <1>3, Zenon DEF PushNotify, NotifyOne
  <2> QED
    BY <1>2, <2>1, <2>2
<1>4. CASE WorkerLock \/ WorkerDecideToWait \/ WorkerWait \/ WorkerSpuriousWakeup
  <2>1. UNCHANGED <<threw, count, sinkVars>>
    BY <1>4, Zenon
       DEF WorkerLock, WorkerDecideToWait, WorkerWait, WorkerSpuriousWakeup, lossVars
  <2>2. wpc \notin {"log", "exited"} /\ wpc' \notin {"log", "exited"}
    BY <1>4 DEF WorkerLock, WorkerDecideToWait, WorkerWait, WorkerSpuriousWakeup
  <2> QED
    BY <1>2, <2>1, <2>2, Zenon
<1>5. CASE WorkerSwap
  <2>1. wpc # "log" /\ wpc' = "log" /\ count' = 0 /\ UNCHANGED sinkVars
    BY <1>5 DEF WorkerSwap
  <2>2. threw' = threw
    BY <1>5, Zenon DEF WorkerSwap, lossVars
  <2>3. ~threw => flushed' + count' = Len(sink')
    <3> SUFFICES ASSUME ~threw PROVE flushed' + count' = Len(sink')
      OBVIOUS
    <3>1. flushed = Len(sink)
      BY <2>1, Zenon DEF Flushed
    <3> QED
      BY <1>0, <2>1, <3>1 DEF sinkVars
  <2> QED
    BY <2>1, <2>2, <2>3 DEF Flushed
<1>6. CASE WorkerExit
  <2>1. wpc' = "exited" /\ flushed' = Len(sink')
    BY <1>6 DEF WorkerExit, FinalFlush
  <2> QED
    BY <2>1 DEF Flushed
<1>7. CASE WorkerExitThrows \/ WorkerLogThrows \/ WorkerFlushThrows
  <2>1. threw' /\ wpc' # "exited"
    BY <1>7 DEF WorkerExitThrows, WorkerLogThrows, WorkerFlushThrows
  <2> QED
    BY <2>1, Zenon DEF Flushed
<1>8. CASE WorkerSkip
  <2>1. UNCHANGED <<threw, count, sinkVars, wpc>>
    BY <1>8, Zenon DEF WorkerSkip
  <2> QED
    BY <1>2, <2>1, Zenon
<1>9. CASE WorkerLog
  <2>1. /\ wpc = "log" /\ wpc' = "log" /\ count' = count + 1 /\ flushed' = flushed
        /\ sink' = Append(sink, Head(batch)) /\ batch # <<>>
    BY <1>9 DEF WorkerLog
  <2>2. threw' = threw
    BY <1>9, Zenon DEF WorkerLog, lossVars
  <2>3. Len(sink') = Len(sink) + 1
    BY <2>1, HeadTailProperties, AppendProperties DEF TypeOK
  <2>4. ~threw => flushed' + count' = Len(sink')
    <3> SUFFICES ASSUME ~threw PROVE flushed' + count' = Len(sink')
      OBVIOUS
    <3>1. flushed + count = Len(sink)
      BY <2>1, Zenon DEF Flushed
    <3> QED
      BY <1>0, <2>1, <2>3, <3>1
  <2> QED
    BY <2>1, <2>2, <2>4 DEF Flushed
<1>10. CASE WorkerFlush
  <2>1. /\ wpc = "log" /\ wpc' = "lock" /\ sink' = sink
        /\ flushed' = IF count > 0 THEN Len(sink) ELSE flushed
    BY <1>10 DEF WorkerFlush, FlushBatch
  <2>2. threw' = threw
    BY <1>10, Zenon DEF WorkerFlush, lossVars
  <2>3. ~threw => flushed' = Len(sink')
    <3> SUFFICES ASSUME ~threw PROVE flushed' = Len(sink')
      OBVIOUS
    <3>1. flushed + count = Len(sink)
      BY <2>1, Zenon DEF Flushed
    <3> QED
      BY <1>0, <2>1, <3>1
  <2> QED
    BY <2>1, <2>2, <2>3 DEF Flushed
<1>11. CASE DestroySetDone \/ DestroyJoin \/ Finished \/ UNCHANGED vars
  <2>1. UNCHANGED <<threw, count, sinkVars, wpc>>
    BY <1>11, Zenon DEF DestroySetDone, DestroyJoin, Finished, vars, lossVars
  <2> QED
    BY <1>2, <2>1, Zenon
<1>12. CASE DestroyNotify
  <2>1. UNCHANGED <<threw, count, sinkVars>>
    BY <1>12, Zenon DEF DestroyNotify, lossVars
  <2>2. wpc' = wpc \/ (wpc = "asleep" /\ wpc' = "lock")
    BY <1>12, Zenon DEF DestroyNotify, NotifyOne
  <2> QED
    BY <1>2, <2>1, <2>2
<1> QED
  BY <1>1, <1>3, <1>4, <1>5, <1>6, <1>7, <1>8, <1>9, <1>10, <1>11, <1>12
     DEF Next, PushNext, WorkerWaitNext, WorkerLogNext, DestroyNext

(* Everything the sink has accepted is flushed when the worker has exited, *)
(* whatever was thrown, and between batches as long as nothing was (the    *)
(* two calls of m_sink->flush, src/logger.cpp:56 and 80).                  *)
THEOREM FlushedInTime == Spec => []Durability
<1>1. Init => Flushed
  BY EmptySeq DEF Init, Flushed
<1>2. TypeOK /\ Flushed /\ [Next]_vars => Flushed'
  BY FlushedStep
<1>3. Flushed => Durability
  BY Zenon DEF Flushed, Durability
<1> QED
  BY <1>1, <1>2, <1>3, TypeCorrect, PTL DEF Spec

-------------------------------------------------------------------------------
(* What is lost.                                                           *)

(* In a line that keeps the order, the elements of its end come later than *)
(* those of its beginning.                                                 *)
LEMMA EndIsLater ==
  ASSUME NEW a \in Seq(Element), NEW b \in Seq(Element), NEW c \in Seq(Element),
         InProducerOrder((a \o b) \o c),
         NEW e \in Range(c), NEW f \in Range(a), e.from = f.from
  PROVE  f.n < e.n
<1> DEFINE line == (a \o b) \o c
           ab == a \o b
<1>1. PICK j \in 1 .. Len(c) : c[j] = e
  BY RangeOfSeq, RangeEquality
<1>2. PICK i \in 1 .. Len(a) : a[i] = f
  BY RangeOfSeq, RangeEquality
<1>3. /\ Len(a) \in Nat /\ Len(b) \in Nat /\ Len(c) \in Nat
      /\ ab \in Seq(Element) /\ Len(ab) = Len(a) + Len(b)
      /\ ab[i] = a[i]
  BY LenProperties, ConcatProperties
<1> HIDE DEF ab
<1>4. /\ Len(ab \o c) = Len(ab) + Len(c)
      /\ (ab \o c)[i] = ab[i]
      /\ (ab \o c)[Len(ab) + j] = c[j]
  <2>1. i \in 1 .. Len(ab) /\ Len(ab) + j \in Len(ab) + 1 .. Len(ab) + Len(c)
    BY <1>3
  <2>3. \A k \in 1 .. Len(ab) + Len(c) :
          (ab \o c)[k] = IF k <= Len(ab) THEN ab[k] ELSE c[k - Len(ab)]
    BY <1>3, ConcatProperties
  <2>4. Len(ab \o c) = Len(ab) + Len(c)
    BY <1>3, ConcatProperties
  <2>5. (ab \o c)[i] = ab[i]
    BY <1>3, <2>1, <2>3
  <2>6. (ab \o c)[Len(ab) + j] = c[j]
    <3> DEFINE k == Len(ab) + j
    <3>1. k \in 1 .. Len(ab) + Len(c) /\ ~(k <= Len(ab)) /\ k - Len(ab) = j
      BY <1>3
    <3> HIDE DEF k
    <3>2. (ab \o c)[k] = c[k - Len(ab)]
      BY <2>3, <3>1
    <3>3. (ab \o c)[k] = c[j]
      BY <3>1, <3>2, Zenon
    <3> QED
      BY <3>3 DEF k
  <2> QED
    BY <2>4, <2>5, <2>6
<1>5. /\ Len(line) = Len(ab) + Len(c)
      /\ line[i] = f
      /\ line[Len(ab) + j] = e
  BY <1>1, <1>2, <1>3, <1>4 DEF ab
<1> HIDE DEF line
<1>6. /\ i \in 1 .. Len(line) /\ Len(ab) + j \in 1 .. Len(line)
      /\ i < Len(ab) + j
  BY <1>3, <1>5
<1>7. InProducerOrder(line)
  BY DEF line
<1> QED
  BY <1>5, <1>6, <1>7 DEF InProducerOrder

LEMMA LossStep ==
  ASSUME LockInv, OrderInv, LossOnlyAtTheEnd, [Next]_vars
  PROVE  LossOnlyAtTheEnd'
<1>0. /\ sink \in Seq(Element) /\ batch \in Seq(Element) /\ elements \in Seq(Element)
      /\ dpc = "destroyed" => wpc = "exited"
  BY DEF LockInv, TypeOK, Phases
<1>1. ASSUME UNCHANGED <<threw, failed, lost, sink, dpc>>
      PROVE  LossOnlyAtTheEnd'
  BY <1>1, Zenon DEF LossOnlyAtTheEnd
<1>2. ASSUME threw'
      PROVE  LossOnlyAtTheEnd'
  BY <1>2, Zenon DEF LossOnlyAtTheEnd
<1>3. ASSUME UNCHANGED <<threw, failed, lost>>, dpc # "destroyed"
      PROVE  LossOnlyAtTheEnd'
  BY <1>3, Zenon DEF LossOnlyAtTheEnd
<1>4. ASSUME NEW p \in Producers, PushNext(p)
      PROVE  LossOnlyAtTheEnd'
  <2>1. UNCHANGED <<threw, failed, lost, sink, dpc>>
    BY <1>4, Zenon DEF PushNext, PushLock, PushInsert, PushNotify, sinkVars, lossVars
  <2> QED
    BY <1>1, <2>1
<1>5. CASE WorkerLock \/ WorkerDecideToWait \/ WorkerWait \/ WorkerSpuriousWakeup \/ WorkerSwap
  <2>1. UNCHANGED <<threw, failed, lost, sink, dpc>>
    BY <1>5, Zenon DEF WorkerLock, WorkerDecideToWait, WorkerWait, WorkerSpuriousWakeup,
                       WorkerSwap, sinkVars, lossVars
  <2> QED
    BY <1>1, <2>1
<1>6. CASE WorkerExit \/ WorkerSkip \/ WorkerFlush
  <2>1. UNCHANGED <<threw, failed, lost, sink, dpc>>
    BY <1>6, Zenon DEF WorkerExit, WorkerSkip, WorkerFlush, sinkVars, lossVars
  <2> QED
    BY <1>1, <2>1
<1>7. CASE WorkerExitThrows \/ WorkerLogThrows \/ WorkerFlushThrows
  BY <1>2, <1>7, Zenon DEF WorkerExitThrows, WorkerLogThrows, WorkerFlushThrows
<1>8. CASE WorkerLog
  <2>1. UNCHANGED <<threw, failed, lost>>
    BY <1>8, Zenon DEF WorkerLog, lossVars
  <2>2. wpc = "log"
    BY <1>8 DEF WorkerLog
  <2> QED
    BY <1>0, <1>3, <2>1, <2>2
<1>9. CASE DestroySetDone \/ DestroyNotify
  <2>1. UNCHANGED <<threw, failed, lost>>
    BY <1>9, Zenon DEF DestroySetDone, DestroyNotify, lossVars
  <2>2. dpc # "destroyed"
    BY <1>9 DEF DestroySetDone, DestroyNotify
  <2> QED
    BY <1>3, <2>1, <2>2
<1>10. CASE DestroyJoin
  <2>1. UNCHANGED <<threw, failed>>
    BY <1>10, Zenon DEF DestroyJoin
  <2>2. /\ dpc = "join" /\ dpc' = "destroyed" /\ sink' = sink
        /\ lost' = lost \cup Accepted(Range(elements))
    BY <1>10 DEF DestroyJoin, Drop, sinkVars
  <2>3. SUFFICES ASSUME ~threw
                 PROVE  \A e \in lost', f \in Range(sink) : e.from = f.from => f.n < e.n
    <3>1. ~threw => failed' = {}
      BY <2>1, Zenon DEF LossOnlyAtTheEnd
    <3> QED
      BY <2>1, <2>2, <2>3, <3>1, Zenon DEF LossOnlyAtTheEnd
  <2>4. lost = {}
    BY <2>2, <2>3 DEF LossOnlyAtTheEnd
  <2>5. lost' \subseteq Range(elements)
    BY <2>2, <2>4 DEF Accepted
  <2>6. InProducerOrder((sink \o batch) \o elements)
    BY Zenon DEF OrderInv, Pipeline
  <2> QED
    BY <1>0, <2>5, <2>6, EndIsLater
<1>11. CASE Finished \/ UNCHANGED vars
  <2>1. UNCHANGED <<threw, failed, lost, sink, dpc>>
    BY <1>11, Zenon DEF Finished, vars, sinkVars, lossVars
  <2> QED
    BY <1>1, <2>1
<1> QED
  BY <1>4, <1>5, <1>6, <1>7, <1>8, <1>9, <1>10, <1>11
     DEF Next, WorkerWaitNext, WorkerLogNext, DestroyNext

(* As long as the sink has not thrown, an element is dropped only by the   *)
(* destructor, and then nothing its producer pushed later was logged       *)
(* (worker leaves its loop before it looks at m_elements,                  *)
(* src/logger.cpp:54-58).                                                  *)
THEOREM LossIsAtTheEnd == Spec => []LossOnlyAtTheEnd
<1>1. Init => LossOnlyAtTheEnd
  BY DEF Init, LossOnlyAtTheEnd
<1>2. LockInv /\ OrderInv /\ LossOnlyAtTheEnd /\ [Next]_vars => LossOnlyAtTheEnd'
  BY LossStep
<1> QED
  BY <1>1, <1>2, LockInvariant, OrderInvariant, PTL DEF Spec
-------------------------------------------------------------------------------
(* Conservation.                                                           *)

(* The elements wherever they are, and the producers and numbers of all    *)
(* that were pushed.                                                       *)
Everything == Range(Pipeline) \cup filtered \cup failed \cup lost
Pushed == UNION {{p} \X (1 .. sent[p]) : p \in Producers}

Disjoint(S, T) == S \cap T = {}

(* Every element pushed is somewhere, by its producer and number, and      *)
(* nothing else is; no two have the same; and none is in two places.       *)
Named == Ids(Everything) = Pushed
Unique == \A e, f \in Everything : Id(e) = Id(f) => e = f
Apart ==
  /\ Disjoint(Range(Pipeline), filtered) /\ Disjoint(Range(Pipeline), failed)
  /\ Disjoint(Range(Pipeline), lost)
  /\ Disjoint(filtered, failed) /\ Disjoint(filtered, lost) /\ Disjoint(failed, lost)
Finite == IsFiniteSet(filtered) /\ IsFiniteSet(failed) /\ IsFiniteSet(lost)

Conserved == Named /\ Unique /\ Apart /\ Finite

LEMMA RangeIs ==
  ASSUME NEW seq \in Seq(Element)
  PROVE  /\ \A x : x \in Range(seq) <=> \E i \in 1 .. Len(seq) : x = seq[i]
         /\ Range(seq) \subseteq Element
BY LenProperties, RangeType DEF Range

LEMMA RangeConcat ==
  ASSUME NEW s \in Seq(Element), NEW t \in Seq(Element)
  PROVE  Range(s \o t) = Range(s) \cup Range(t)
<1>0. s \o t \in Seq(Element) /\ Len(s \o t) = Len(s) + Len(t) /\ Len(s) \in Nat /\ Len(t) \in Nat
  BY ConcatProperties, LenProperties
<1>1. \A i \in 1 .. Len(s) : (s \o t)[i] = s[i]
  BY ConcatProperties
<1>2. \A i \in 1 .. Len(t) : (s \o t)[Len(s) + i] = t[i]
  BY <1>0, ConcatProperties
<1>3. ASSUME NEW x \in Range(s \o t)
      PROVE  x \in Range(s) \cup Range(t)
  <2>1. PICK i \in 1 .. Len(s) + Len(t) : x = (s \o t)[i]
    BY <1>0, <1>3, RangeIs
  <2>2. CASE i <= Len(s)
    BY <1>0, <1>1, <2>1, <2>2, RangeIs
  <2>3. CASE i > Len(s)
    <3>1. i - Len(s) \in 1 .. Len(t) /\ i = Len(s) + (i - Len(s))
      BY <1>0, <2>3
    <3>2. x = t[i - Len(s)]
      BY <1>2, <2>1, <3>1
    <3> QED
      BY <3>1, <3>2, RangeIs
  <2> QED
    BY <1>0, <2>2, <2>3
<1>4. ASSUME NEW x \in Range(s)
      PROVE  x \in Range(s \o t)
  <2>1. PICK i \in 1 .. Len(s) : x = s[i]
    BY <1>4, RangeIs
  <2>2. i \in 1 .. Len(s \o t) /\ x = (s \o t)[i]
    BY <1>0, <1>1, <2>1
  <2> QED
    BY <1>0, <2>2, RangeIs
<1>5. ASSUME NEW x \in Range(t)
      PROVE  x \in Range(s \o t)
  <2>1. PICK i \in 1 .. Len(t) : x = t[i]
    BY <1>5, RangeIs
  <2>2. Len(s) + i \in 1 .. Len(s \o t) /\ x = (s \o t)[Len(s) + i]
    BY <1>0, <1>2, <2>1
  <2> QED
    BY <1>0, <2>2, RangeIs
<1> QED
  BY <1>3, <1>4, <1>5

(* What is taken out of a line in producer order is no longer in it.       *)
LEMMA Parted ==
  ASSUME NEW s \in Seq(Element), NEW t \in Seq(Element), InProducerOrder(s \o t)
  PROVE  Disjoint(Range(s), Range(t))
<1> SUFFICES ASSUME NEW x \in Range(s), x \in Range(t)
             PROVE  FALSE
  BY DEF Disjoint
<1>0. Len(s \o t) = Len(s) + Len(t) /\ Len(s) \in Nat /\ Len(t) \in Nat
  BY ConcatProperties, LenProperties
<1>1. PICK i \in 1 .. Len(s) : x = s[i]
  BY RangeIs
<1>2. PICK j \in 1 .. Len(t) : x = t[j]
  BY RangeIs
<1>3. (s \o t)[i] = x /\ (s \o t)[Len(s) + j] = x
  <2>1. (s \o t)[i] = s[i]
    BY <1>0, <1>1, ConcatProperties
  <2>2. (s \o t)[Len(s) + j] = t[j]
    BY <1>0, <1>2, ConcatProperties
  <2> QED
    BY <1>1, <1>2, <2>1, <2>2
<1>4. i \in 1 .. Len(s \o t) /\ Len(s) + j \in 1 .. Len(s \o t) /\ i < Len(s) + j
  BY <1>0
<1>5. x.n < x.n
  BY <1>3, <1>4, Zenon DEF InProducerOrder
<1>6. x.n \in Int
  <2>1. x \in Element
    BY RangeIs
  <2> QED
    BY <2>1 DEF Element
<1> QED
  BY <1>5, <1>6

LEMMA TakeOut ==
  ASSUME NEW a \in Seq(Element), NEW b \in Seq(Element), NEW c \in Seq(Element),
         InProducerOrder((a \o b) \o c)
  PROVE  /\ Range(a \o c) = Range((a \o b) \o c) \ Range(b)
         /\ Range(b) \subseteq Range((a \o b) \o c)
<1> DEFINE ab == a \o b
           bc == b \o c
<1>1. ab \in Seq(Element) /\ bc \in Seq(Element)
  OBVIOUS
<1>2. (a \o b) \o c = a \o bc
  BY Associative
<1> HIDE DEF bc
<1>3. Disjoint(Range(a), Range(bc))
  BY <1>1, <1>2, Parted
<1>4. Range(bc) = Range(b) \cup Range(c)
  BY RangeConcat DEF bc
<1> HIDE DEF ab
<1>5. Disjoint(Range(ab), Range(c))
  BY <1>1, Parted DEF ab
<1>6. Range(ab) = Range(a) \cup Range(b) /\ Range(a \o c) = Range(a) \cup Range(c)
  BY RangeConcat DEF ab
<1>7. Range(ab \o c) = Range(ab) \cup Range(c)
  BY <1>1, RangeConcat
<1> QED
  BY <1>3, <1>4, <1>5, <1>6, <1>7 DEF Disjoint, ab

LEMMA RangeFinite ==
  ASSUME NEW seq \in Seq(Element)
  PROVE  /\ IsFiniteSet(Range(seq))
         /\ InProducerOrder(seq) => Cardinality(Range(seq)) = Len(seq)
<1>0. Len(seq) \in Nat /\ DOMAIN seq = 1 .. Len(seq)
  BY LenProperties
<1>1. IsFiniteSet(1 .. Len(seq)) /\ Cardinality(1 .. Len(seq)) = Len(seq)
  BY <1>0, FS_Interval
<1>2. seq \in Surjection(1 .. Len(seq), Range(seq))
  BY <1>0 DEF Surjection, Range
<1>3. /\ IsFiniteSet(Range(seq))
      /\ Cardinality(Range(seq)) = Cardinality(1 .. Len(seq))
           <=> seq \in Injection(1 .. Len(seq), Range(seq))
  BY <1>1, <1>2, FS_Surjection
<1>4. ASSUME InProducerOrder(seq)
      PROVE  seq \in Injection(1 .. Len(seq), Range(seq))
  <2>1. seq \in [1 .. Len(seq) -> Range(seq)]
    BY <1>2 DEF Surjection
  <2>2. ASSUME NEW i \in 1 .. Len(seq), NEW j \in 1 .. Len(seq), i < j, seq[i] = seq[j]
        PROVE  FALSE
    <3>1. seq[i].n < seq[j].n
      BY <1>4, <2>2, Zenon DEF InProducerOrder
    <3>2. seq[i] \in Element
      BY ElementOfSeq
    <3> QED
      BY <2>2, <3>1, <3>2 DEF Element
  <2>3. \A i, j \in 1 .. Len(seq) : seq[i] = seq[j] => i = j
    BY <1>0, <2>2
  <2> QED
    BY <1>0, <2>1, <2>3 DEF Injection, IsInjective
<1> QED
  BY <1>1, <1>3, <1>4
(* A step that takes some elements out of the line and books them, each    *)
(* once, keeps the balance.                                                *)
LEMMA Booked ==
  ASSUME Conserved, NEW a, NEW b, NEW c,
         Range(Pipeline') = Range(Pipeline) \ (a \cup b \cup c),
         a \cup b \cup c \subseteq Range(Pipeline),
         IsFiniteSet(a), IsFiniteSet(b), IsFiniteSet(c),
         Disjoint(a, b), Disjoint(a, c), Disjoint(b, c),
         filtered' = filtered \cup a, failed' = failed \cup b, lost' = lost \cup c,
         UNCHANGED sent
  PROVE  Conserved'
<1>1. Everything' = Everything
  BY DEF Everything
<1>2. Named' /\ Unique'
  BY <1>1 DEF Conserved, Named, Unique, Pushed
<1>3. Finite'
  BY FS_Union DEF Conserved, Finite
<1>4. Apart'
  BY DEF Conserved, Apart, Disjoint
<1> QED
  BY <1>2, <1>3, <1>4 DEF Conserved

LEMMA PushBooked ==
  ASSUME TypeOK, Conserved, NEW p \in Producers, NEW len \in Nat, NEW new \in Seq(Element),
         Len(new) = len,
         \A i \in 1 .. len : new[i].from = p /\ new[i].n = sent[p] + i,
         Range(Pipeline') = Range(Pipeline) \cup Range(new),
         sent' = [sent EXCEPT ![p] = @ + len],
         UNCHANGED <<filtered, failed, lost>>
  PROVE  Conserved'
<1>0. sent \in [Producers -> Nat] /\ sent[p] \in Nat
  BY DEF TypeOK
<1>1. Everything' = Everything \cup Range(new)
  BY DEF Everything
<1>2. \A x \in Range(new) : \E i \in 1 .. len : Id(x) = <<p, sent[p] + i>>
  BY RangeIs DEF Id
<1>3. \A i \in 1 .. len : \E x \in Range(new) : Id(x) = <<p, sent[p] + i>>
  BY RangeIs DEF Id
<1>4. Pushed' = Pushed \cup {<<p, sent[p] + i>> : i \in 1 .. len}
  <2>1. sent'[p] = sent[p] + len /\ \A q \in Producers \ {p} : sent'[q] = sent[q]
    BY <1>0
  <2>2. 1 .. sent'[p] = (1 .. sent[p]) \cup {sent[p] + i : i \in 1 .. len}
    <3>1. ASSUME NEW k \in 1 .. sent'[p], k \notin 1 .. sent[p]
          PROVE  \E i \in 1 .. len : k = sent[p] + i
      <4>1. k - sent[p] \in 1 .. len /\ k = sent[p] + (k - sent[p])
        BY <1>0, <2>1, <3>1
      <4> QED
        BY <4>1
    <3>2. ASSUME NEW i \in 1 .. len
          PROVE  sent[p] + i \in 1 .. sent'[p]
      BY <1>0, <2>1
    <3>3. 1 .. sent[p] \subseteq 1 .. sent'[p]
      BY <1>0, <2>1
    <3> QED
      BY <3>1, <3>2, <3>3
  <2>3. ASSUME NEW x \in Pushed'
        PROVE  x \in Pushed \cup {<<p, sent[p] + i>> : i \in 1 .. len}
    <3>1. PICK q \in Producers : x \in {q} \X (1 .. sent'[q])
      BY <2>3 DEF Pushed
    <3>2. PICK k \in 1 .. sent'[q] : x = <<q, k>>
      BY <3>1
    <3> QED
      BY <2>1, <2>2, <3>2 DEF Pushed
  <2>4. ASSUME NEW x \in Pushed
        PROVE  x \in Pushed'
    <3>1. PICK q \in Producers : x \in {q} \X (1 .. sent[q])
      BY <2>4 DEF Pushed
    <3>2. 1 .. sent[q] \subseteq 1 .. sent'[q]
      BY <2>1, <2>2
    <3>3. x \in {q} \X (1 .. sent'[q])
      BY <3>1, <3>2
    <3> QED
      BY <3>3 DEF Pushed
  <2>5. ASSUME NEW i \in 1 .. len
        PROVE  <<p, sent[p] + i>> \in Pushed'
    <3>1. <<p, sent[p] + i>> \in {p} \X (1 .. sent'[p])
      BY <2>2
    <3> QED
      BY <3>1 DEF Pushed
  <2> QED
    BY <2>3, <2>4, <2>5
<1>5. \A e \in Everything : \A i \in 1 .. len : Id(e) # <<p, sent[p] + i>>
  <2> SUFFICES ASSUME NEW e \in Everything, NEW i \in 1 .. len, Id(e) = <<p, sent[p] + i>>
               PROVE  FALSE
    OBVIOUS
  <2>1. <<p, sent[p] + i>> \in Pushed
    BY DEF Conserved, Named, Ids
  <2>2. PICK q \in Producers : <<p, sent[p] + i>> \in {q} \X (1 .. sent[q])
    BY <2>1 DEF Pushed
  <2>3. sent[p] + i \in 1 .. sent[p]
    BY <2>2
  <2> QED
    BY <1>0, <2>3
<1>6. Disjoint(Range(new), Everything)
  BY <1>2, <1>5 DEF Disjoint
<1>7. Named'
  <2>1. Ids(Everything)' = Ids(Everything) \cup {Id(x) : x \in Range(new)}
    BY <1>1 DEF Ids
  <2>2. {Id(x) : x \in Range(new)} = {<<p, sent[p] + i>> : i \in 1 .. len}
    BY <1>2, <1>3
  <2> QED
    BY <1>4, <2>1, <2>2 DEF Conserved, Named
<1>8. Unique'
  <2>1. ASSUME NEW e \in Range(new), NEW f \in Range(new), Id(e) = Id(f)
        PROVE  e = f
    <3>1. PICK i \in 1 .. len : e = new[i]
      BY RangeIs
    <3>2. PICK j \in 1 .. len : f = new[j]
      BY RangeIs
    <3>3. sent[p] + i = sent[p] + j
      BY <2>1, <3>1, <3>2 DEF Id
    <3> QED
      BY <1>0, <3>1, <3>2, <3>3
  <2>2. ASSUME NEW e \in Everything, NEW f \in Range(new)
        PROVE  Id(e) # Id(f)
    BY <1>2, <1>5
  <2> QED
    BY <1>1, <2>1, <2>2 DEF Conserved, Unique
<1>9. Apart' /\ Finite'
  BY <1>6 DEF Conserved, Apart, Finite, Disjoint, Everything
<1> QED
  BY <1>7, <1>8, <1>9 DEF Conserved
LEMMA DropBooked ==
  ASSUME NEW seq \in Seq(Element), Drop(seq)
  PROVE  LET a == Range(seq) \ Accepted(Range(seq))
             c == Accepted(Range(seq)) IN
         /\ filtered' = filtered \cup a /\ lost' = lost \cup c
         /\ a \cup c = Range(seq) /\ Disjoint(a, c)
         /\ IsFiniteSet(a) /\ IsFiniteSet(c)
<1> DEFINE a == Range(seq) \ Accepted(Range(seq))
           c == Accepted(Range(seq))
<1>1. a \subseteq Range(seq) /\ c \subseteq Range(seq)
  BY DEF Accepted
<1>2. IsFiniteSet(a) /\ IsFiniteSet(c)
  BY <1>1, RangeFinite, FS_Subset
<1> QED
  BY <1>1, <1>2 DEF Drop, Disjoint

(* The first element of a batch in the line.                               *)
LEMMA Front ==
  ASSUME sink \in Seq(Element), batch \in Seq(Element), elements \in Seq(Element),
         batch # <<>>, ProducerOrder
  PROVE  LET h == Head(batch)
             t == Tail(batch)
             d == t \o elements IN
         /\ t \in Seq(Element) /\ d \in Seq(Element)
         /\ Pipeline = (sink \o <<h>>) \o d
         /\ Append(sink, h) = sink \o <<h>> /\ sink \o <<h>> \in Seq(Element)
         /\ Range(sink \o d) = Range(Pipeline) \ {h}
         /\ h \in Range(Pipeline)
         /\ h \notin Range(t) /\ Range(batch) = {h} \cup Range(t)
<1> DEFINE h == <<Head(batch)>>
           t == Tail(batch)
           d == t \o elements
           u == sink \o h
<1>1. /\ h \in Seq(Element) /\ t \in Seq(Element) /\ batch = h \o t
      /\ Append(sink, Head(batch)) = u
  BY HeadThenTail, AppendIsConcat
<1>2. Range(h) = {Head(batch)}
  BY DEF Range
<1> HIDE DEF h, t
<1>3. d \in Seq(Element)
  BY <1>1, ConcatProperties
<1>4. u \in Seq(Element) /\ sink \o batch = u \o t
  BY <1>1, Associative, ConcatProperties
<1> HIDE DEF u
<1>5. Pipeline = u \o d
  <2>1. (u \o t) \o elements = u \o (t \o elements)
    <3>1. u \in Seq(Element) /\ t \in Seq(Element)
      BY <1>1, <1>4
    <3> QED
      BY <3>1, Associative, Zenon
  <2> QED
    BY <1>4, <2>1 DEF Pipeline
<1>6. Range(d) = Range(t) \cup Range(elements) /\ Range(batch) = Range(h) \cup Range(t)
  BY <1>1, RangeConcat
<1> HIDE DEF d
<1>7. Range(sink \o d) = Range(u \o d) \ Range(h) /\ Range(h) \subseteq Range(u \o d)
  BY <1>1, <1>3, <1>5, TakeOut DEF ProducerOrder, u
<1>8. Range(sink \o d) = Range(sink) \cup Range(d)
  BY <1>3, RangeConcat
<1> QED
  BY <1>1, <1>2, <1>3, <1>4, <1>5, <1>6, <1>7, <1>8 DEF h, t, d, u

LEMMA ConservedStep ==
  ASSUME LockInv, ProducerOrder, Conserved, [Next]_vars
  PROVE  Conserved'
<1>0. /\ TypeOK /\ (wpc # "log" => batch = <<>>)
      /\ sink \in Seq(Element) /\ batch \in Seq(Element) /\ elements \in Seq(Element)
      /\ <<>> \in Seq(Element) /\ sink \o batch \in Seq(Element) /\ Pipeline \in Seq(Element)
  BY EmptySeq, ConcatProperties DEF LockInv, TypeOK, Phases, Pipeline
<1>1. InProducerOrder((sink \o batch) \o elements)
  BY DEF ProducerOrder, Pipeline
<1>2. \A s \in Seq(Element) : s \o <<>> = s /\ <<>> \o s = s
  BY ConcatEmptySeq
<1>3. ASSUME UNCHANGED <<Pipeline, filtered, failed, lost, sent>>
      PROVE  Conserved'
  BY <1>3 DEF Conserved, Named, Unique, Apart, Finite, Everything, Pushed
<1>4. ASSUME UNCHANGED <<sink, batch, elements, filtered, failed, lost, sent>>
      PROVE  Conserved'
  BY <1>3, <1>4 DEF Pipeline
<1>5. ASSUME NEW p \in Producers, PushInsert(p)
      PROVE  Conserved'
  <2>1. PICK len \in 1 .. MaxBatch :
          \E levels \in [1 .. len -> Levels] :
            /\ elements' = elements \o NewElements(p, levels)
            /\ sent' = [sent EXCEPT ![p] = @ + len]
    BY <1>5 DEF PushInsert, Insert
  <2>2. PICK levels \in [1 .. len -> Levels] :
          /\ elements' = elements \o NewElements(p, levels)
          /\ sent' = [sent EXCEPT ![p] = @ + len]
    BY <2>1
  <2>3. len \in Nat /\ UNCHANGED <<sink, batch, filtered, failed, lost>>
    BY <1>5, BoundAssumption DEF PushInsert, sinkVars, lossVars
  <2> DEFINE new == NewElements(p, levels)
  <2>4. /\ new \in Seq(Element) /\ Len(new) = len
        /\ \A i \in 1 .. len : new[i].from = p /\ new[i].n = sent[p] + i
    <3>1. sent \in [Producers -> Nat]
      BY <1>0 DEF TypeOK
    <3> QED
      BY <2>3, <3>1, NewElementsType
  <2>5. elements' = elements \o new
    BY <2>2
  <2> HIDE DEF new
  <2>6. Range(Pipeline') = Range(Pipeline) \cup Range(new)
    <3>1. elements \o new \in Seq(Element)
      BY <1>0, <2>4, ConcatProperties
    <3>2. Range(Pipeline') = Range(sink \o batch) \cup Range(elements \o new)
      BY <1>0, <2>3, <2>5, <3>1, RangeConcat DEF Pipeline
    <3>3. Range(elements \o new) = Range(elements) \cup Range(new)
      BY <1>0, <2>4, RangeConcat
    <3>4. Range(Pipeline) = Range(sink \o batch) \cup Range(elements)
      BY <1>0, RangeConcat DEF Pipeline
    <3> QED
      BY <3>2, <3>3, <3>4
  <2> QED
    BY <1>0, <2>2, <2>3, <2>4, <2>6, PushBooked
<1>6. CASE WorkerSwap
  <2>1. /\ batch = <<>> /\ batch' = elements /\ elements' = <<>>
        /\ UNCHANGED <<sink, filtered, failed, lost, sent>>
    BY <1>0, <1>6 DEF WorkerSwap, sinkVars, lossVars
  <2>2. sink \o elements \in Seq(Element)
    BY <1>0, ConcatProperties
  <2>3. UNCHANGED Pipeline
    BY <1>0, <1>2, <2>1, <2>2 DEF Pipeline
  <2> QED
    BY <1>3, <2>1, <2>3
<1>7. ASSUME batch # <<>>
      PROVE  /\ Tail(batch) \in Seq(Element)
             /\ Pipeline = (sink \o <<Head(batch)>>) \o (Tail(batch) \o elements)
             /\ (Append(sink, Head(batch)) \o Tail(batch)) \o elements = Pipeline
             /\ Range((sink \o Tail(batch)) \o elements) = Range(Pipeline) \ {Head(batch)}
             /\ Head(batch) \in Range(Pipeline) /\ Head(batch) \notin Range(Tail(batch))
             /\ Range(batch) = {Head(batch)} \cup Range(Tail(batch))
  <2> DEFINE t == Tail(batch)
             u == Append(sink, Head(batch))
  <2>1. /\ t \in Seq(Element) /\ u \in Seq(Element)
        /\ Pipeline = u \o (t \o elements)
        /\ Range(sink \o (t \o elements)) = Range(Pipeline) \ {Head(batch)}
    BY <1>0, <1>7, Front
  <2>2. u = sink \o <<Head(batch)>>
    BY <1>0, <1>7, Front
  <2> HIDE DEF t, u
  <2>3. /\ (u \o t) \o elements = u \o (t \o elements)
        /\ (sink \o t) \o elements = sink \o (t \o elements)
    <3>1. u \in Seq(Element) /\ t \in Seq(Element)
      BY <2>1
    <3>2. sink \in Seq(Element) /\ elements \in Seq(Element)
      BY <1>0
    <3> QED
      BY <3>1, <3>2, Associative, Zenon
  <2> QED
    BY <1>0, <1>7, <2>1, <2>2, <2>3, Front DEF t, u
<1>8. IsFiniteSet({}) /\ \A x : IsFiniteSet({x})
  BY FS_Singleton, FS_EmptySet
<1>9. CASE WorkerLog
  <2>1. /\ batch # <<>> /\ sink' = Append(sink, Head(batch)) /\ batch' = Tail(batch)
        /\ UNCHANGED <<elements, filtered, failed, lost, sent>>
    BY <1>9 DEF WorkerLog, lockVars, lossVars
  <2>2. UNCHANGED Pipeline
    BY <1>7, <2>1 DEF Pipeline
  <2> QED
    BY <1>3, <2>1, <2>2
<1>10. CASE WorkerSkip
  <2>1. /\ batch # <<>> /\ batch' = Tail(batch) /\ filtered' = filtered \cup {Head(batch)}
        /\ UNCHANGED <<sink, elements, failed, lost, sent>>
    BY <1>10 DEF WorkerSkip, lockVars, sinkVars
  <2>2. Range(Pipeline') = Range(Pipeline) \ {Head(batch)} /\ Head(batch) \in Range(Pipeline)
    BY <1>7, <2>1 DEF Pipeline
  <2> QED
    BY <1>8, <2>1, <2>2, Booked DEF Disjoint
<1>11. CASE WorkerLogThrows
  <2>1. /\ batch # <<>> /\ batch' = <<>> /\ UNCHANGED <<sink, elements, sent>>
        /\ failed' = failed \cup {Head(batch)} /\ Drop(Tail(batch))
    BY <1>11 DEF WorkerLogThrows, lockVars, sinkVars
  <2>2. Pipeline' = sink \o elements
    BY <1>0, <1>2, <2>1 DEF Pipeline
  <2>3. Range(Pipeline') = Range(Pipeline) \ Range(batch) /\ Range(batch) \subseteq Range(Pipeline)
    BY <1>0, <1>1, <2>2, TakeOut DEF Pipeline
  <2> DEFINE R == Range(Tail(batch))
             a == R \ Accepted(R)
             c == Accepted(R)
  <2>4. /\ filtered' = filtered \cup a /\ lost' = lost \cup c
        /\ a \cup c = R /\ Disjoint(a, c) /\ IsFiniteSet(a) /\ IsFiniteSet(c)
    BY <1>7, <2>1, DropBooked
  <2>5. Head(batch) \notin R /\ Range(batch) = {Head(batch)} \cup R
    BY <1>7, <2>1
  <2> HIDE DEF R, a, c
  <2>6. /\ Range(Pipeline') = Range(Pipeline) \ (a \cup {Head(batch)} \cup c)
        /\ a \cup {Head(batch)} \cup c \subseteq Range(Pipeline)
        /\ Disjoint(a, {Head(batch)}) /\ Disjoint({Head(batch)}, c)
    BY <2>3, <2>4, <2>5 DEF Disjoint
  <2> QED
    BY <1>8, <2>1, <2>4, <2>6, Booked
<1>12. CASE WorkerExitThrows \/ DestroyJoin
  <2>1. /\ elements' = <<>> /\ Drop(elements) /\ UNCHANGED <<sink, batch, failed, sent>>
    BY <1>12 DEF WorkerExitThrows, DestroyJoin, sinkVars
  <2> DEFINE s == sink \o batch
  <2>2. Pipeline = s \o elements /\ Pipeline' = s \o <<>>
    BY <2>1 DEF Pipeline
  <2>3. s \in Seq(Element) /\ (s \o elements) \o <<>> = s \o elements
    BY <1>0, <1>2, <2>2
  <2>4. InProducerOrder((s \o elements) \o <<>>)
    BY <1>1, <2>3
  <2> HIDE DEF s
  <2>5. /\ Range(Pipeline') = Range(Pipeline) \ Range(elements)
        /\ Range(elements) \subseteq Range(Pipeline)
    <3>1. /\ Range(s \o <<>>) = Range((s \o elements) \o <<>>) \ Range(elements)
          /\ Range(elements) \subseteq Range((s \o elements) \o <<>>)
      BY <1>0, <2>3, <2>4, TakeOut
    <3> QED
      BY <2>2, <2>3, <3>1
  <2> DEFINE R == Range(elements)
             a == R \ Accepted(R)
             c == Accepted(R)
  <2>6. /\ filtered' = filtered \cup a /\ lost' = lost \cup c
        /\ a \cup c = R /\ Disjoint(a, c) /\ IsFiniteSet(a) /\ IsFiniteSet(c)
    BY <1>0, <2>1, DropBooked
  <2> HIDE DEF a, c
  <2>7. /\ Range(Pipeline') = Range(Pipeline) \ (a \cup {} \cup c)
        /\ a \cup {} \cup c \subseteq Range(Pipeline)
        /\ Disjoint(a, {}) /\ Disjoint({}, c)
    BY <2>5, <2>6 DEF Disjoint
  <2>8. failed' = failed \cup {}
    BY <2>1
  <2> QED
    BY <1>8, <2>1, <2>6, <2>7, <2>8, Booked
<1>13. ASSUME NEW p \in Producers, PushLock(p) \/ PushNotify(p)
       PROVE  Conserved'
  BY <1>4, <1>13 DEF PushLock, PushNotify, sinkVars, lossVars
<1>14. CASE WorkerLock \/ WorkerDecideToWait \/ WorkerWait \/ WorkerSpuriousWakeup \/ WorkerExit
  BY <1>4, <1>14 DEF WorkerLock, WorkerDecideToWait, WorkerWait, WorkerSpuriousWakeup, WorkerExit,
                     lockVars, sinkVars, lossVars
<1>15. CASE WorkerFlush \/ WorkerFlushThrows
  BY <1>4, <1>15 DEF WorkerFlush, WorkerFlushThrows, lockVars, sinkVars, lossVars
<1>16. CASE DestroySetDone \/ DestroyNotify \/ Finished \/ UNCHANGED vars
  BY <1>4, <1>16 DEF DestroySetDone, DestroyNotify, Finished, vars, lockVars, sinkVars, lossVars
<1> QED
  BY <1>5, <1>6, <1>9, <1>10, <1>11, <1>12, <1>13, <1>14, <1>15, <1>16
     DEF Next, PushNext, WorkerWaitNext, WorkerLogNext, DestroyNext

(* Who conserves the elements by name conserves their number.              *)
LEMMA Counted ==
  ASSUME LockInv, ProducerOrder, Conserved
  PROVE  Conservation
<1>0. Pipeline \in Seq(Element) /\ Pushed = UNION {{p} \X (1 .. sent[p]) : p \in Producers}
  BY ConcatProperties DEF LockInv, TypeOK, Pipeline, Pushed
<1> DEFINE R == Range(Pipeline)
<1>1. IsFiniteSet(R) /\ Cardinality(R) = Len(Pipeline)
  BY <1>0, RangeFinite DEF ProducerOrder
<1> HIDE DEF R
<1>2. /\ IsFiniteSet(filtered) /\ IsFiniteSet(failed) /\ IsFiniteSet(lost)
      /\ Disjoint(R, filtered) /\ Disjoint(R \cup filtered, failed)
      /\ Disjoint(R \cup filtered \cup failed, lost)
      /\ Everything = R \cup filtered \cup failed \cup lost
  BY DEF Conserved, Finite, Apart, Disjoint, R, Everything
<1>3. ASSUME NEW S, NEW T, IsFiniteSet(S), IsFiniteSet(T), Disjoint(S, T)
      PROVE  /\ IsFiniteSet(S \cup T) /\ Cardinality(S) \in Nat /\ Cardinality(T) \in Nat
             /\ Cardinality(S \cup T) = Cardinality(S) + Cardinality(T)
  <2>1. Cardinality(S \cap T) = 0
    BY <1>3, FS_EmptySet DEF Disjoint
  <2> QED
    BY <1>3, <2>1, FS_Union, FS_CardinalityType
<1>4. /\ IsFiniteSet(Everything)
      /\ Cardinality(Everything)
           = Cardinality(R) + Cardinality(filtered) + Cardinality(failed) + Cardinality(lost)
  <2> DEFINE A == R \cup filtered
             B == A \cup failed
  <2>1. /\ IsFiniteSet(A) /\ Cardinality(R) \in Nat /\ Cardinality(filtered) \in Nat
        /\ Cardinality(A) = Cardinality(R) + Cardinality(filtered)
    BY <1>1, <1>2, <1>3
  <2>2. Disjoint(A, failed) /\ Disjoint(B, lost) /\ Everything = B \cup lost
    BY <1>2
  <2> HIDE DEF A
  <2>3. /\ IsFiniteSet(B) /\ Cardinality(failed) \in Nat
        /\ Cardinality(B) = Cardinality(A) + Cardinality(failed)
    BY <1>2, <1>3, <2>1, <2>2
  <2> HIDE DEF B
  <2>4. /\ IsFiniteSet(B \cup lost) /\ Cardinality(lost) \in Nat
        /\ Cardinality(B \cup lost) = Cardinality(B) + Cardinality(lost)
    BY <1>2, <1>3, <2>2, <2>3
  <2> QED
    BY <2>1, <2>2, <2>3, <2>4
<1>5. Ids(Everything) = Pushed
  BY DEF Conserved, Named
<1>6. Cardinality(Pushed) = Cardinality(Everything)
  <2> DEFINE f == [e \in Everything |-> Id(e)]
  <2>1. f \in [Everything -> Pushed] /\ \A x \in Pushed : \E e \in Everything : f[e] = x
    BY <1>5 DEF Ids
  <2>2. \A e, g \in Everything : f[e] = f[g] => e = g
    BY DEF Conserved, Unique
  <2>3. f \in Bijection(Everything, Pushed)
    BY <2>1, <2>2 DEF Bijection, Injection, Surjection, IsInjective
  <2> QED
    BY <1>4, <2>3, FS_Bijection DEF ExistsBijection
<1> QED
  BY <1>0, <1>1, <1>4, <1>5, <1>6 DEF Conservation, R, Everything

(* No element vanishes: whatever the threads and the sink do, each element *)
(* that was pushed is in the line, or was filtered, refused or dropped,    *)
(* and in one of these places only (src/logger.cpp).                       *)
THEOREM NothingVanishes == Spec => []Conservation
<1>1. Init => Conserved
  <2> SUFFICES ASSUME Init PROVE Conserved
    OBVIOUS
  <2>1. Range(Pipeline) = {}
    <3>1. (<<>> \o <<>>) \o <<>> = <<>>
      OBVIOUS
    <3> QED
      BY <3>1 DEF Init, Pipeline, Range
  <2>2. Pushed = {}
    BY DEF Init, Pushed
  <2> QED
    BY <2>1, <2>2, FS_EmptySet
       DEF Init, Conserved, Named, Unique, Apart, Finite, Everything, Ids, Disjoint
<1>2. LockInv /\ ProducerOrder /\ Conserved /\ [Next]_vars => Conserved'
  BY ConservedStep
<1>3. LockInv /\ ProducerOrder /\ Conserved => Conservation
  BY Counted
<1> QED
  BY <1>1, <1>2, <1>3, LockInvariant, Order, PTL DEF Spec
===============================================================================
