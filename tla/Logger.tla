-------------------------------- MODULE Logger --------------------------------
(***************************************************************************)
(* One scriptor::Logger (src/logger.cpp): producers append elements to     *)
(* m_elements under m_mutex and notify m_cv; the logger's own thread       *)
(* (worker) swaps the whole vector out, drops the lock and hands the       *)
(* elements to the sink one by one; the destructor sets m_done, notifies   *)
(* and joins the worker.                                                   *)
(*                                                                         *)
(* The condition variable is modelled the way the standard defines it:     *)
(* wait releases the mutex and blocks in one step, a blocked thread is     *)
(* woken by a notification or spuriously, and then needs the mutex again.  *)
(***************************************************************************)
EXTENDS Integers, Sequences, FiniteSets, Functions

CONSTANTS
  Producers,     \* the threads that call push: Server's io threads
  Worker,        \* m_thread
  Destroyer,     \* the thread that runs ~Logger
  Nobody,        \* the owner of a free mutex
  Levels,        \* the levels an element may have
  SinkLevel,     \* m_sink's level
  SinkMayFail,   \* whether m_sink->log and m_sink->flush may throw
  MaxBatch,      \* bound: elements per push
  MaxSent        \* bound: elements a producer pushes altogether

ASSUME ThreadAssumption ==
  /\ Worker \notin Producers /\ Destroyer \notin Producers
  /\ Nobody \notin Producers \cup {Worker, Destroyer}
  /\ Worker # Destroyer

ASSUME LevelAssumption == Levels \subseteq Int /\ SinkLevel \in Int

ASSUME BoundAssumption ==
  /\ SinkMayFail \in BOOLEAN
  /\ MaxBatch \in Nat \ {0}
  /\ MaxSent \in Nat

VARIABLES
  mutex,      \* who holds m_mutex
  done,       \* m_done
  elements,   \* m_elements
  wpc,        \* where the worker is
  batch,      \* the worker's local vector: what it has not come to yet
  count,      \* the worker's local count of elements logged from this batch
  sink,       \* what m_sink->log has accepted, in order
  flushed,    \* how much of sink the last successful m_sink->flush covered
  ppc,        \* where each producer is in push
  dpc,        \* where the destructor is
  sent,       \* history: how many elements each producer has pushed
  filtered,   \* history: elements the sink's level refused
  failed,     \* history: elements for which m_sink->log threw
  lost,       \* history: elements dropped, never offered to the sink
  threw       \* history: a call of m_sink->log or m_sink->flush has thrown

lockVars == <<mutex, done, elements>>
sinkVars == <<sink, flushed>>
lossVars == <<filtered, failed, lost, threw>>
vars == <<lockVars, wpc, batch, count, sinkVars, ppc, dpc, sent, lossVars>>

-------------------------------------------------------------------------------
(* The operations the threads are made of.  Where one is preceded by a     *)
(* variant of itself, the variant is a defect for mutation testing: the    *)
(* properties below must notice when it takes the operation's place.       *)

(* An element carries its level and, in place of time and message, the     *)
(* producer that pushed it and its number among that producer's elements.  *)
Element == [from : Producers, n : Nat \ {0}, level : Levels]

\* spdlog's sink::should_log.
ShouldLog(e) == e.level >= SinkLevel

(* The mutex can be locked.                                                *)
UnlockedOrNot == TRUE
Unlocked == mutex = Nobody

(* m_cv.notify_one(): the worker is the only thread that ever waits.       *)
NotifyNone == UNCHANGED wpc
NotifyOne == wpc' = IF wpc = "asleep" THEN "lock" ELSE wpc

(* The predicate of m_cv.wait.                                             *)
WakeForElementsOnly == elements # <<>>
WakeForDoneOnly == done
WakePredicate == done \/ elements # <<>>

(* m_elements.reserve(...), which adds no element, and                     *)
(* m_elements.insert(m_elements.end(), ...).                               *)
InsertAtBegin(new) == elements' = new \o elements
Overwrite(new) == elements' = new
Blank == [from |-> Nobody, n |-> 0, level |-> SinkLevel]
ResizeAndInsert(new) == elements' = elements \o [i \in 1 .. Len(new) |-> Blank] \o new
Insert(new) == elements' = elements \o new

(* The flush that ends a batch, and the one that ends the worker.          *)
FlushBatch == flushed' = IF count > 0 THEN Len(sink) ELSE flushed
NoFinalFlush == UNCHANGED flushed
FinalFlush == flushed' = Len(sink)

Accepted(S) == {e \in S : ShouldLog(e)}

(* A vector destroyed with elements in it: the sink never hears of them.   *)
Drop(seq) ==
  /\ lost' = lost \cup Accepted(Range(seq))
  /\ filtered' = filtered \cup (Range(seq) \ Accepted(Range(seq)))

Init ==
  /\ mutex = Nobody
  /\ done = FALSE
  /\ elements = <<>>
  /\ wpc = "lock"
  /\ batch = <<>>
  /\ count = 0
  /\ sink = <<>>
  /\ flushed = 0
  /\ ppc = [p \in Producers |-> "idle"]
  /\ dpc = "live"
  /\ sent = [p \in Producers |-> 0]
  /\ filtered = {}
  /\ failed = {}
  /\ lost = {}
  /\ threw = FALSE

-------------------------------------------------------------------------------
(* push: lock, append, notify, unlock.  Server never pushes into a logger  *)
(* whose destruction has begun (it joins the io threads first).            *)

PushLock(p) ==
  /\ ppc[p] = "idle" /\ dpc = "live" /\ wpc # "aborted"
  /\ sent[p] < MaxSent
  /\ Unlocked
  /\ mutex' = p
  /\ ppc' = [ppc EXCEPT ![p] = "insert"]
  /\ UNCHANGED <<done, elements, wpc, batch, count, sinkVars, dpc, sent, lossVars>>

NewElements(p, levels) ==
  [i \in 1 .. Len(levels) |-> [from |-> p, n |-> sent[p] + i, level |-> levels[i]]]

PushInsert(p) ==
  /\ ppc[p] = "insert"
  /\ \E len \in 1 .. MaxBatch : \E levels \in [1 .. len -> Levels] :
       /\ sent[p] + len <= MaxSent
       /\ Insert(NewElements(p, levels))
       /\ sent' = [sent EXCEPT ![p] = @ + len]
  /\ ppc' = [ppc EXCEPT ![p] = "notify"]
  /\ UNCHANGED <<mutex, done, wpc, batch, count, sinkVars, dpc, lossVars>>

\* notify_one is the last statement under the lock_guard.
PushNotify(p) ==
  /\ ppc[p] = "notify"
  /\ NotifyOne
  /\ mutex' = Nobody
  /\ ppc' = [ppc EXCEPT ![p] = "idle"]
  /\ UNCHANGED <<done, elements, batch, count, sinkVars, dpc, sent, lossVars>>

-------------------------------------------------------------------------------
(* worker: the wait loop.  "lock" stands before every acquisition of the   *)
(* mutex, at the top of the loop and on the way out of m_cv.wait.          *)

WorkerLock ==
  /\ wpc = "lock"
  /\ Unlocked
  /\ mutex' = Worker
  /\ wpc' = "test"
  /\ UNCHANGED <<done, elements, batch, count, sinkVars, ppc, dpc, sent, lossVars>>

\* The predicate is false: the worker is bound to block.
WorkerDecideToWait ==
  /\ wpc = "test"
  /\ ~WakePredicate
  /\ wpc' = "wait"
  /\ UNCHANGED <<lockVars, batch, count, sinkVars, ppc, dpc, sent, lossVars>>

WorkerWait ==
  /\ wpc = "wait"
  /\ mutex' = Nobody
  /\ wpc' = "asleep"
  /\ UNCHANGED <<done, elements, batch, count, sinkVars, ppc, dpc, sent, lossVars>>

WorkerSpuriousWakeup ==
  /\ wpc = "asleep"
  /\ wpc' = "lock"
  /\ UNCHANGED <<lockVars, batch, count, sinkVars, ppc, dpc, sent, lossVars>>

WorkerSwap ==
  /\ wpc = "test"
  /\ WakePredicate /\ ~done
  /\ batch' = elements
  /\ elements' = <<>>
  /\ count' = 0
  /\ mutex' = Nobody
  /\ wpc' = "log"
  /\ UNCHANGED <<done, sinkVars, ppc, dpc, sent, lossVars>>

\* m_done: a last flush under the lock, whatever m_elements still holds.
WorkerExit ==
  /\ wpc = "test"
  /\ WakePredicate /\ done
  /\ FinalFlush
  /\ mutex' = Nobody
  /\ wpc' = "exited"
  /\ UNCHANGED <<done, elements, batch, count, sink, ppc, dpc, sent, lossVars>>

\* That flush is outside the try block: if it throws, std::terminate.
WorkerExitThrows ==
  /\ SinkMayFail
  /\ wpc = "test"
  /\ WakePredicate /\ done
  /\ wpc' = "aborted"
  /\ elements' = <<>>
  /\ Drop(elements)
  /\ threw' = TRUE
  /\ UNCHANGED failed
  /\ UNCHANGED <<mutex, done, batch, count, sinkVars, ppc, dpc, sent>>

-------------------------------------------------------------------------------
(* worker: the elements of one batch, without the lock.                    *)

SkipAndBreak ==
  /\ wpc = "log" /\ batch # <<>>
  /\ ~ShouldLog(Head(batch))
  /\ batch' = <<>>
  /\ Drop(batch)
  /\ UNCHANGED <<lockVars, wpc, count, sinkVars, ppc, dpc, sent, failed, threw>>

\* continue, not break: the elements behind it are still looked at.
WorkerSkip ==
  /\ wpc = "log" /\ batch # <<>>
  /\ ~ShouldLog(Head(batch))
  /\ batch' = Tail(batch)
  /\ filtered' = filtered \cup {Head(batch)}
  /\ UNCHANGED <<lockVars, wpc, count, sinkVars, ppc, dpc, sent, failed, lost, threw>>

WorkerLog ==
  /\ wpc = "log" /\ batch # <<>>
  /\ ShouldLog(Head(batch))
  /\ sink' = Append(sink, Head(batch))
  /\ batch' = Tail(batch)
  /\ count' = count + 1
  /\ UNCHANGED <<lockVars, wpc, flushed, ppc, dpc, sent, lossVars>>

\* The catch is outside the loop: the rest of the batch goes with it.
WorkerLogThrows ==
  /\ SinkMayFail
  /\ wpc = "log" /\ batch # <<>>
  /\ ShouldLog(Head(batch))
  /\ batch' = <<>>
  /\ failed' = failed \cup {Head(batch)}
  /\ Drop(Tail(batch))
  /\ threw' = TRUE
  /\ wpc' = "lock"
  /\ UNCHANGED <<lockVars, count, sinkVars, ppc, dpc, sent>>

WorkerFlush ==
  /\ wpc = "log" /\ batch = <<>>
  /\ FlushBatch
  /\ wpc' = "lock"
  /\ UNCHANGED <<lockVars, batch, count, sink, ppc, dpc, sent, lossVars>>

WorkerFlushThrows ==
  /\ SinkMayFail
  /\ wpc = "log" /\ batch = <<>> /\ count > 0
  /\ threw' = TRUE
  /\ wpc' = "lock"
  /\ UNCHANGED <<lockVars, batch, count, sinkVars, ppc, dpc, sent, filtered, failed, lost>>

-------------------------------------------------------------------------------
(* ~Logger: set m_done under the lock, notify without it, join, and then   *)
(* the members, m_elements among them, are destroyed.                      *)

DestroySetDone ==
  /\ dpc = "live" /\ wpc # "aborted"
  /\ \A p \in Producers : ppc[p] = "idle"
  /\ Unlocked
  /\ done' = TRUE
  /\ dpc' = "notify"
  /\ UNCHANGED <<mutex, elements, wpc, batch, count, sinkVars, ppc, sent, lossVars>>

DestroyNotify ==
  /\ dpc = "notify" /\ wpc # "aborted"
  /\ NotifyOne
  /\ dpc' = "join"
  /\ UNCHANGED <<lockVars, batch, count, sinkVars, ppc, sent, lossVars>>

DestroyJoin ==
  /\ dpc = "join" /\ wpc = "exited"
  /\ dpc' = "destroyed"
  /\ elements' = <<>>
  /\ Drop(elements)
  /\ UNCHANGED <<failed, threw>>
  /\ UNCHANGED <<mutex, done, wpc, batch, count, sinkVars, ppc, sent>>

-------------------------------------------------------------------------------
(* The logger is gone, with or without the process.                        *)
Closed == dpc = "destroyed" \/ wpc = "aborted"
Finished == Closed /\ UNCHANGED vars

PushNext(p) == PushLock(p) \/ PushInsert(p) \/ PushNotify(p)

WorkerWaitNext ==
  WorkerLock \/ WorkerDecideToWait \/ WorkerWait \/ WorkerSwap \/ WorkerExit \/ WorkerExitThrows

WorkerLogNext ==
  WorkerSkip \/ WorkerLog \/ WorkerLogThrows \/ WorkerFlush \/ WorkerFlushThrows

DestroyNext == DestroySetDone \/ DestroyNotify \/ DestroyJoin

Next ==
  \/ \E p \in Producers : PushNext(p)
  \/ WorkerWaitNext \/ WorkerSpuriousWakeup \/ WorkerLogNext
  \/ DestroyNext
  \/ Finished

Spec == Init /\ [][Next]_vars

(* Every thread that can step eventually does; the sink answers each call. *)
(* Nothing obliges a producer to start a push or the owner to destroy.     *)
Fairness ==
  /\ WF_vars(WorkerWaitNext \/ WorkerLogNext)
  /\ \A p \in Producers : WF_vars(PushInsert(p) \/ PushNotify(p))
  /\ WF_vars(DestroyNotify \/ DestroyJoin)

FairSpec == Spec /\ Fairness

-------------------------------------------------------------------------------
(* Properties.                                                             *)

(* Every variable keeps its type: the members of Logger (src/logger.h:35)  *)
(* and the program counters of push, worker and ~Logger.  Whatever is on   *)
(* its way through the logger is an element that somebody pushed.          *)
TypeOK ==
  /\ mutex \in Producers \cup {Worker, Nobody}
  /\ done \in BOOLEAN
  /\ elements \in Seq(Element)
  /\ wpc \in {"lock", "test", "wait", "asleep", "log", "exited", "aborted"}
  /\ batch \in Seq(Element)
  /\ count \in Nat
  /\ sink \in Seq(Element)
  /\ flushed \in Nat
  /\ ppc \in [Producers -> {"idle", "insert", "notify"}]
  /\ dpc \in {"live", "notify", "join", "destroyed"}
  /\ sent \in [Producers -> Nat]
  /\ filtered \subseteq Element /\ failed \subseteq Element /\ lost \subseteq Element
  /\ threw \in BOOLEAN

(* m_mutex is held exactly by the thread whose code is inside one of its   *)
(* scopes, so m_elements and m_done are never touched by two threads.      *)
MutualExclusion ==
  /\ \A p \in Producers : ppc[p] # "idle" <=> mutex = p
  /\ wpc \in {"test", "wait", "aborted"} <=> mutex = Worker

(* No wakeup is lost: the worker blocks in m_cv.wait with something to do  *)
(* (elements queued or m_done set) only while the thread that gave it that *)
(* work has its notify_one still ahead of it.                              *)
NoLostWakeup ==
  /\ wpc = "wait" => ~done /\ elements = <<>>
  /\ wpc = "asleep" /\ elements # <<>> => \E p \in Producers : ppc[p] = "notify"
  /\ wpc = "asleep" /\ done => dpc = "notify"

(* What is on its way through the logger, oldest first.                    *)
Pipeline == sink \o batch \o elements

InProducerOrder(seq) ==
  \A i, j \in 1 .. Len(seq) :
    i < j /\ seq[i].from = seq[j].from => seq[i].n < seq[j].n

(* The sink gets each producer's elements in the order they were pushed    *)
(* and none of them twice, across any number of batches, swaps and sink    *)
(* errors; and so does everything that is still on its way there.          *)
ProducerOrder == InProducerOrder(Pipeline)

Id(e) == <<e.from, e.n>>
Ids(S) == {Id(e) : e \in S}

(* No element vanishes and none is in two places: each one pushed is on    *)
(* its way (once: see ProducerOrder), or was filtered, refused by a sink   *)
(* error, or dropped.                                                      *)
Conservation ==
  /\ Ids(Range(Pipeline) \cup filtered \cup failed \cup lost)
       = UNION {{p} \X (1 .. sent[p]) : p \in Producers}
  /\ Len(Pipeline) + Cardinality(filtered) + Cardinality(failed) + Cardinality(lost)
       = Cardinality(UNION {{p} \X (1 .. sent[p]) : p \in Producers})

(* What the sink has accepted is flushed: always by the time the worker    *)
(* has exited, even after a batch that ended in a sink error; and, as long *)
(* as the sink has not failed, whenever the worker is not inside a batch.  *)
Durability ==
  wpc = "exited" \/ (~threw /\ wpc # "log") => flushed = Len(sink)

(* As long as the sink has not failed, only destruction drops elements,    *)
(* and what it drops is the end of each producer's stream: nothing a       *)
(* producer pushed later than a dropped element was logged.                *)
LossOnlyAtTheEnd ==
  ~threw =>
    /\ failed = {}
    /\ lost # {} => dpc = "destroyed"
    /\ \A e \in lost, f \in Range(sink) : e.from = f.from => f.n < e.n

(* ~Logger returns (or the process has aborted): the worker is always      *)
(* woken up to see m_done, whatever it was doing.                          *)
DestructionReturns == done ~> Closed

(* The logger implements a queue that loses but neither reorders nor       *)
(* repeats: the line is the worker's batch followed by m_elements.         *)
Queue == INSTANCE LossyQueue WITH
  pending <- batch \o elements, closed <- Closed

ImplementsLossyQueue == Queue!FairSpec

(* Said of the program by its documentation, and not what it does:         *)
(* "Each log is forwarded to both file and systemd" (README.md:75-76),     *)
(* those included that are still queued when the server is stopped.        *)
NothingLostAtShutdown == lost = {}
===============================================================================
