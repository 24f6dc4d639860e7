-------------------------------- MODULE Server --------------------------------
(***************************************************************************)
(* The server (src/server.cpp): acceptors and sessions whose asynchronous  *)
(* operations complete on one asio::io_context, the io threads that run    *)
(* the completion handlers, the loggers the handlers push into, and the    *)
(* thread that constructs the server, owns it and destroys it.             *)
(*                                                                         *)
(* asio is modelled by what the code relies on: an operation that was      *)
(* started completes at most once and puts its handler in the queue of the *)
(* io_context; each thread in run() takes handlers out one at a time; run  *)
(* returns once stop was called, or once there is nothing outstanding; a   *)
(* handler that is running when stop is called runs to its end.            *)
(***************************************************************************)
EXTENDS Integers, Sequences, FiniteSets, Functions

CONSTANTS
  Threads,        \* the io threads the constructor would start
  Connections,    \* the connections clients may make
  NoConnection,   \* in an accept handler: the accept failed
  Acceptors,      \* how many acceptors there are (unix, tcp)
  Address,        \* the acceptor each connection is made to
  Loggers,        \* how many loggers there are
  ThreadsMayFail, \* whether starting or storing a thread may throw
  MaxChunks,      \* bound: reads that succeed, per connection
  MaxErrors       \* bound: accepts that fail

AcceptorNumbers == 1 .. Acceptors
LoggerNumbers == 1 .. Loggers

ASSUME SetAssumption ==
  /\ IsFiniteSet(Threads)
  /\ NoConnection \notin Connections
ASSUME CountAssumption ==
  /\ Acceptors \in Nat \ {0} /\ Loggers \in Nat \ {0}
  /\ Address \in [Connections -> AcceptorNumbers]
ASSUME BoundAssumption == ThreadsMayFail \in BOOLEAN /\ MaxChunks \in Nat /\ MaxErrors \in Nat

VARIABLES
  owner,      \* where the owning thread is, from the constructor to the end
  threads,    \* m_ioc_threads
  loose,      \* a started thread that could not be stored there
  stopped,    \* m_ioc.stop() was called
  destroyed,  \* how many loggers m_loggers.clear() has destroyed
  ready,      \* the handlers queued in m_ioc
  accepting,  \* how many accepts each acceptor has started and not completed
  reading,    \* how many reads each session has started and not completed
  thread,     \* what each io thread is doing
  client,     \* each connection as its client sees it
  chunks,     \* how many reads of each connection have succeeded
  buffer,     \* each session's m_buffer: the number of the chunk in it
  errors,     \* how many accepts have failed
  brought,    \* history: the chunks that completed some logs: their batches
  pushed,     \* history: the batches each logger was given, in order
  rearmed     \* history: how many accept handlers have run to their end

ownerVars == <<owner, threads, loose, stopped, destroyed>>
iocVars == <<ready, accepting, reading>>
netVars == <<client, chunks, buffer, errors, brought>>
logVars == <<pushed, rearmed>>
vars == <<ownerVars, iocVars, thread, netVars, logVars>>

(* Handlers in the queue.                                                  *)
AcceptHandler(c) == [kind |-> "accept", connection |-> c]
ReadHandler(c, failed) == [kind |-> "read", connection |-> c, failed |-> failed]

(* What a thread does: wait for a handler in run(); start the accepts of   *)
(* the acceptors from "next" on; push a batch into the loggers from "next" *)
(* on; start the next read.                                                *)
Unborn == [doing |-> "unborn"]
Waiting == [doing |-> "run"]
Accepting(next) == [doing |-> "accept", next |-> next]
Pushing(c, chunk, next) ==
  [doing |-> "push", connection |-> c, chunk |-> chunk, next |-> next]
Rereading(c) == [doing |-> "read", connection |-> c]
Returned == [doing |-> "returned"]

(* Where an operation is preceded by a variant of itself, the variant is a *)
(* defect for mutation testing.                                            *)

(* How many accepts the constructor starts on an acceptor.                 *)
OnePerThread == Cardinality(Threads)
FirstAccepts == 1

Init ==  \* the state in which the constructor has called accept()
  /\ owner = "starting"
  /\ threads = {}
  /\ loose = {}
  /\ stopped = FALSE
  /\ destroyed = 0
  /\ ready = <<>>
  /\ accepting = [a \in AcceptorNumbers |-> FirstAccepts]
  /\ reading = [c \in Connections |-> 0]
  /\ thread = [t \in Threads |-> Unborn]
  /\ client = [c \in Connections |-> "new"]
  /\ chunks = [c \in Connections |-> 0]
  /\ buffer = [c \in Connections |-> 0]
  /\ errors = 0
  /\ brought = {}
  /\ pushed = [l \in LoggerNumbers |-> <<>>]
  /\ rearmed = 0

-------------------------------------------------------------------------------
(* The owner.                                                              *)

StopForgotten == UNCHANGED stopped
Stop == stopped' = TRUE

StartThread(t) ==
  /\ owner = "starting" /\ thread[t] = Unborn
  /\ thread' = [thread EXCEPT ![t] = Waiting]
  /\ threads' = threads \cup {t}
  /\ UNCHANGED <<owner, loose, stopped, destroyed, iocVars, netVars, logVars>>

\* std::thread's constructor throws: shutdown, and the exception goes on.
StartFails ==
  /\ ThreadsMayFail
  /\ owner = "starting" /\ threads # Threads
  /\ Stop
  /\ owner' = "joining"
  /\ UNCHANGED <<threads, loose, destroyed, iocVars, thread, netVars, logVars>>

\* m_ioc_threads.push_back throws: likewise, and the thread is joined too.
StoreFails(t) ==
  /\ ThreadsMayFail
  /\ owner = "starting" /\ thread[t] = Unborn
  /\ thread' = [thread EXCEPT ![t] = Waiting]
  /\ loose' = {t}
  /\ Stop
  /\ owner' = "joining"
  /\ UNCHANGED <<threads, destroyed, iocVars, netVars, logVars>>

Serve ==
  /\ owner = "starting" /\ threads = Threads
  /\ owner' = "serving"
  /\ UNCHANGED <<threads, loose, stopped, destroyed, iocVars, thread, netVars, logVars>>

\* ~Server begins.
Shutdown ==
  /\ owner = "serving"
  /\ Stop
  /\ owner' = "joining"
  /\ UNCHANGED <<threads, loose, destroyed, iocVars, thread, netVars, logVars>>

JoinStored == \A t \in threads : thread[t] = Returned
JoinAll == \A t \in threads \cup loose : thread[t] = Returned

Join ==
  /\ owner = "joining"
  /\ JoinAll
  /\ owner' = "clearing"
  /\ UNCHANGED <<threads, loose, stopped, destroyed, iocVars, thread, netVars, logVars>>

DestroyLogger ==
  /\ owner = "clearing" /\ destroyed < Loggers
  /\ destroyed' = destroyed + 1
  /\ UNCHANGED <<owner, threads, loose, stopped, iocVars, thread, netVars, logVars>>

\* The remaining members: the acceptors and sockets close, m_ioc drops the
\* handlers it still holds without running them.
DestroyRest ==
  /\ owner = "clearing" /\ destroyed = Loggers
  /\ owner' = "gone"
  /\ ready' = <<>>
  /\ accepting' = [a \in AcceptorNumbers |-> 0]
  /\ reading' = [c \in Connections |-> 0]
  /\ client' = [c \in Connections |-> "closed"]
  /\ UNCHANGED <<threads, loose, stopped, destroyed, thread, chunks, buffer, errors, brought, logVars>>

-------------------------------------------------------------------------------
(* Clients and the kernel: operations complete.                            *)

Connect(c) ==
  /\ owner # "gone"
  /\ client[c] = "new"
  /\ client' = [client EXCEPT ![c] = "waiting"]
  /\ UNCHANGED <<ownerVars, iocVars, thread, chunks, buffer, errors, brought, logVars>>

AcceptCompletes(c) ==
  /\ client[c] = "waiting" /\ accepting[Address[c]] > 0
  /\ accepting' = [accepting EXCEPT ![Address[c]] = @ - 1]
  /\ client' = [client EXCEPT ![c] = "accepted"]
  /\ ready' = Append(ready, AcceptHandler(c))
  /\ UNCHANGED <<ownerVars, reading, thread, chunks, buffer, errors, brought, logVars>>

AcceptFails(a) ==
  /\ accepting[a] > 0 /\ errors < MaxErrors
  /\ accepting' = [accepting EXCEPT ![a] = @ - 1]
  /\ errors' = errors + 1
  /\ ready' = Append(ready, AcceptHandler(NoConnection))
  /\ UNCHANGED <<ownerVars, reading, thread, client, chunks, buffer, brought, logVars>>

\* Bytes arrive; the session's processor may or may not find logs in them.
ReadCompletes(c) ==
  /\ reading[c] > 0 /\ chunks[c] < MaxChunks
  /\ reading' = [reading EXCEPT ![c] = @ - 1]
  /\ chunks' = [chunks EXCEPT ![c] = @ + 1]
  /\ buffer' = [buffer EXCEPT ![c] = chunks[c] + 1]
  /\ brought' \in {brought, brought \cup {<<c, chunks[c] + 1>>}}
  /\ ready' = Append(ready, ReadHandler(c, FALSE))
  /\ UNCHANGED <<ownerVars, accepting, thread, client, errors, logVars>>

ReadFails(c) ==
  /\ reading[c] > 0
  /\ reading' = [reading EXCEPT ![c] = @ - 1]
  /\ ready' = Append(ready, ReadHandler(c, TRUE))
  /\ UNCHANGED <<ownerVars, accepting, thread, netVars, logVars>>

-------------------------------------------------------------------------------
(* The io threads: handlers run.                                           *)

MayRun(t) == thread[t] = Waiting /\ ~stopped /\ ready # <<>>

\* accept() follows whether the accept succeeded or not.
AcceptUnlessFailed(c) == IF c = NoConnection THEN Waiting ELSE Accepting(1)
AcceptAgain(c) == Accepting(1)

RunAccept(t) ==
  /\ MayRun(t) /\ Head(ready).kind = "accept"
  /\ LET c == Head(ready).connection IN
       /\ thread' = [thread EXCEPT ![t] = AcceptAgain(c)]
       /\ IF c = NoConnection
            THEN UNCHANGED <<reading, client>>
            ELSE /\ reading' = [reading EXCEPT ![c] = @ + 1]
                 /\ client' = [client EXCEPT ![c] = "served"]
  /\ ready' = Tail(ready)
  /\ UNCHANGED <<ownerVars, accepting, chunks, buffer, errors, brought, logVars>>

\* One turn of the loop of accept(): every acceptor, not just the one that
\* completed.
StartAccept(t) ==
  /\ thread[t].doing = "accept"
  /\ LET a == thread[t].next IN
       /\ accepting' = [accepting EXCEPT ![a] = @ + 1]
       /\ thread' = [thread EXCEPT ![t] = IF a < Acceptors THEN Accepting(a + 1) ELSE Waiting]
       /\ rearmed' = IF a < Acceptors THEN rearmed ELSE rearmed + 1
  /\ UNCHANGED <<ownerVars, ready, reading, netVars, pushed>>

AfterRead(c) ==
  IF <<c, buffer[c]>> \in brought THEN Pushing(c, buffer[c], 1) ELSE Rereading(c)

\* The next read is started before the batch is pushed.
RunReadEagerly(t) ==
  /\ MayRun(t) /\ Head(ready).kind = "read" /\ ~Head(ready).failed
  /\ LET c == Head(ready).connection IN
       /\ thread' = [thread EXCEPT ![t] = AfterRead(c)]
       /\ reading' = [reading EXCEPT ![c] = @ + 1]
  /\ ready' = Tail(ready)
  /\ UNCHANGED <<ownerVars, accepting, netVars, logVars>>

RunRead(t) ==
  /\ MayRun(t) /\ Head(ready).kind = "read" /\ ~Head(ready).failed
  /\ thread' = [thread EXCEPT ![t] = AfterRead(Head(ready).connection)]
  /\ ready' = Tail(ready)
  /\ UNCHANGED <<ownerVars, accepting, reading, netVars, logVars>>

\* On an error nothing refers to the session any more.
RunReadFailed(t) ==
  /\ MayRun(t) /\ Head(ready).kind = "read" /\ Head(ready).failed
  /\ client' = [client EXCEPT ![Head(ready).connection] = "closed"]
  /\ ready' = Tail(ready)
  /\ UNCHANGED <<ownerVars, accepting, reading, thread, chunks, buffer, errors, brought, logVars>>

OneTooMany == Loggers + 1
AllButLast == Loggers - 1
LastLogger == Loggers

\* One turn of the loop over m_loggers (or the only push there is).
Push(t) ==
  /\ thread[t].doing = "push"
  /\ LET c == thread[t].connection  l == thread[t].next IN
       /\ pushed' = [pushed EXCEPT ![l] = Append(@, <<c, thread[t].chunk>>)]
       /\ thread' = [thread EXCEPT ![t] =
            IF l < LastLogger THEN Pushing(c, thread[t].chunk, l + 1) ELSE Rereading(c)]
  /\ UNCHANGED <<ownerVars, iocVars, netVars, rearmed>>

Reread(t) ==
  /\ thread[t].doing = "read"
  /\ reading' = [reading EXCEPT ![thread[t].connection] = @ + 1]
  /\ thread' = [thread EXCEPT ![t] = Waiting]
  /\ UNCHANGED <<ownerVars, ready, accepting, netVars, logVars>>

InHandler(t) == thread[t].doing \in {"accept", "push", "read"}

OutOfWork ==
  /\ ready = <<>>
  /\ \A a \in AcceptorNumbers : accepting[a] = 0
  /\ \A c \in Connections : reading[c] = 0
  /\ \A t \in Threads : ~InHandler(t)

Return(t) ==
  /\ thread[t] = Waiting
  /\ stopped \/ OutOfWork
  /\ thread' = [thread EXCEPT ![t] = Returned]
  /\ UNCHANGED <<ownerVars, iocVars, netVars, logVars>>

-------------------------------------------------------------------------------
OwnerNext ==
  \/ \E t \in Threads : StartThread(t) \/ StoreFails(t)
  \/ StartFails \/ Serve \/ Join \/ DestroyLogger \/ DestroyRest

ThreadNext(t) ==
  \/ RunAccept(t) \/ StartAccept(t)
  \/ RunRead(t) \/ RunReadFailed(t) \/ Push(t) \/ Reread(t)
  \/ Return(t)

NetworkNext ==
  \/ \E c \in Connections : Connect(c) \/ AcceptCompletes(c) \/ ReadCompletes(c) \/ ReadFails(c)
  \/ \E a \in AcceptorNumbers : AcceptFails(a)

Finished == owner = "gone" /\ UNCHANGED vars

Next ==
  \/ OwnerNext \/ Shutdown
  \/ \E t \in Threads : ThreadNext(t)
  \/ NetworkNext
  \/ Finished

Spec == Init /\ [][Next]_vars

(* The threads are scheduled, the kernel completes an accept when there is  *)
(* a connection for it.  Nothing obliges a client to connect or to send, or *)
(* the owner to shut the server down.                                       *)
Fairness ==
  /\ WF_vars(OwnerNext)
  /\ \A t \in Threads : WF_vars(ThreadNext(t))
  /\ \A c \in Connections : WF_vars(AcceptCompletes(c))

FairSpec == Spec /\ Fairness

-------------------------------------------------------------------------------
(* Properties.                                                             *)

Handler ==
  {AcceptHandler(c) : c \in Connections \cup {NoConnection}}
    \cup {ReadHandler(c, failed) : c \in Connections, failed \in BOOLEAN}

Doing ==
  {Unborn, Waiting, Returned}
    \cup {Accepting(a) : a \in AcceptorNumbers}
    \cup {Pushing(c, k, l) : c \in Connections, k \in 1 .. MaxChunks, l \in LoggerNumbers}
    \cup {Rereading(c) : c \in Connections}

Batch == Connections \X (1 .. MaxChunks)

(* Every variable keeps its type: the members of Server (src/server.h:53)  *)
(* and what the io threads do.                                             *)
TypeOK ==
  /\ owner \in {"starting", "serving", "joining", "clearing", "gone"}
  /\ threads \subseteq Threads /\ loose \subseteq Threads
  /\ stopped \in BOOLEAN
  /\ destroyed \in 0 .. Loggers
  /\ ready \in Seq(Handler)
  /\ accepting \in [AcceptorNumbers -> Nat] /\ reading \in [Connections -> Nat]
  /\ thread \in [Threads -> Doing]
  /\ client \in [Connections -> {"new", "waiting", "accepted", "served", "closed"}]
  /\ chunks \in [Connections -> 0 .. MaxChunks] /\ buffer \in [Connections -> 0 .. MaxChunks]
  /\ errors \in 0 .. MaxErrors
  /\ brought \subseteq Batch
  /\ pushed \in [LoggerNumbers -> Seq(Batch)]
  /\ rearmed \in Nat

(* As long as the server exists, every acceptor listens, or a handler that  *)
(* will make it listen is queued or running: failed accepts and any         *)
(* interleaving of handlers included.  So m_ioc never runs out of work, and *)
(* no io thread leaves run() before the shutdown.                           *)
NeverStopsListening ==
  owner # "gone" =>
    /\ \A a \in AcceptorNumbers :
         \/ accepting[a] > 0
         \/ \E h \in Range(ready) : h.kind = "accept"
         \/ \E t \in Threads : thread[t].doing = "accept" /\ thread[t].next <= a
    /\ ~stopped => \A t \in Threads : thread[t] # Returned

QueuedAccepts == {i \in DOMAIN ready : ready[i].kind = "accept"}
InAccept == {t \in Threads : thread[t].doing = "accept"}

(* The accepts outstanding, numbered on each acceptor, and those that the   *)
(* running calls of accept() have started so far.                           *)
Outstanding == UNION {{a} \X (1 .. accepting[a]) : a \in AcceptorNumbers}
Started == {ta \in InAccept \X AcceptorNumbers : ta[2] < thread[ta[1]].next}

(* accept() starts an accept on every acceptor each time one of them        *)
(* completes, so every completion leaves as many accepts outstanding as     *)
(* there were, plus one for each other acceptor; none is ever forgotten.    *)
AcceptsAccumulate ==
  owner # "gone" =>
    Cardinality(Outstanding) + Cardinality(QueuedAccepts) + Cardinality(InAccept)
      = Acceptors + (Acceptors - 1) * rearmed + Cardinality(Started)

(* With one acceptor no two threads are in accept() at the same time, which *)
(* the acceptor object, not being thread-safe, depends on.                  *)
OneAcceptorIsNotShared ==
  Acceptors = 1 => \A t, u \in InAccept : t = u

QueuedReads(c) == {i \in DOMAIN ready : ready[i] \in {ReadHandler(c, TRUE), ReadHandler(c, FALSE)}}
InRead(c) == {t \in Threads : thread[t].doing \in {"push", "read"} /\ thread[t].connection = c}

(* A session has one read outstanding, queued or being handled at a time,   *)
(* on whichever threads its handlers run: m_buffer and m_processor, which   *)
(* have no lock, are never used by two threads, nor m_buffer overwritten    *)
(* before it was processed.                                                 *)
OneReadPerSession ==
  \A c \in Connections :
    reading[c] + Cardinality(QueuedReads(c)) + Cardinality(InRead(c)) <= 1

(* What one logger was given and a later one was not is being pushed right  *)
(* now; so, since threads are joined and not killed, once they have been,   *)
(* every batch has gone to all the loggers or to none.                      *)
AllOrNothing ==
  /\ \A k, l \in LoggerNumbers : k < l =>
       /\ Range(pushed[l]) \subseteq Range(pushed[k])
       /\ Range(pushed[k]) \ Range(pushed[l]) =
            {<<thread[t].connection, thread[t].chunk>> :
               t \in {u \in Threads : thread[u].doing = "push" /\ k < thread[u].next
                                        /\ thread[u].next <= l}}
  /\ owner \in {"clearing", "gone"} =>
       \A k, l \in LoggerNumbers : Range(pushed[k]) = Range(pushed[l])

(* The loggers, and then the rest of the server, are destroyed only when no *)
(* thread can touch them any more; also when the constructor throws, in     *)
(* which case no started thread is left unjoined.                           *)
NoUseAfterDestruction ==
  owner \in {"clearing", "gone"} => \A t \in Threads : thread[t] \in {Unborn, Returned}

(* The server implements a broadcast that is first in, first out for each   *)
(* connection: every logger is given each connection's batches in the order *)
(* they came, each once and without a gap.                                  *)
Broadcast == INSTANCE FifoBroadcast WITH
  Sources <- Connections, Outlets <- LoggerNumbers,
  delivered <- pushed, closed <- owner \in {"clearing", "gone"}

ImplementsFifoBroadcast == Broadcast!Spec

(* Every connection is served, whatever accepts failed before, unless the   *)
(* server is shut down first.  Needs at least one io thread.                *)
EveryConnectionIsServed ==
  \A c \in Connections : client[c] = "waiting" ~> client[c] \in {"served", "closed"} \/ stopped

(* Every batch that was read reaches every logger, or the shutdown comes    *)
(* first.                                                                   *)
EveryBatchIsPushed ==
  \A c \in Connections : \A k \in 1 .. MaxChunks :
    <<c, k>> \in brought
      ~> stopped \/ \A l \in LoggerNumbers : <<c, k>> \in Range(pushed[l])

(* The destructor, and a constructor that fails, come to an end, whatever   *)
(* the io threads were doing.                                               *)
ShutdownReturns == owner = "joining" ~> owner = "gone"
===============================================================================
