---------------------------- MODULE ServerProofs ----------------------------
(***************************************************************************)
(* Proofs about Server, for any finite set of io threads, any connections, *)
(* acceptors and loggers, any number of reads and of failed accepts.       *)
(***************************************************************************)
EXTENDS Server, SequenceTheorems, TLAPS

-------------------------------------------------------------------------------
(* The data: what is in a handler, and in what a thread does.              *)

LEMMA HandlerFields ==
  ASSUME NEW h \in Handler
  PROVE  \/ /\ h.kind = "accept"
            /\ h.connection \in Connections \cup {NoConnection}
         \/ /\ h.kind = "read"
            /\ h.connection \in Connections
BY DEF Handler, AcceptHandler, ReadHandler

LEMMA HandlersMade ==
  /\ \A c \in Connections \cup {NoConnection} :
       AcceptHandler(c) \in Handler /\ AcceptHandler(c).kind = "accept"
  /\ \A c \in Connections, failed \in BOOLEAN :
       ReadHandler(c, failed) \in Handler /\ ReadHandler(c, failed).kind = "read"
<1>1. ASSUME NEW c \in Connections \cup {NoConnection}
      PROVE  AcceptHandler(c) \in Handler /\ AcceptHandler(c).kind = "accept"
  BY DEF Handler, AcceptHandler
<1>2. ASSUME NEW c \in Connections, NEW failed \in BOOLEAN
      PROVE  ReadHandler(c, failed) \in Handler /\ ReadHandler(c, failed).kind = "read"
  <2> DEFINE Accepts == {AcceptHandler(d) : d \in Connections \cup {NoConnection}}
             Reads == {ReadHandler(d, f) : d \in Connections, f \in BOOLEAN}
  <2>1. ReadHandler(c, failed) \in Reads
    BY DEF ReadHandler
  <2>2. Handler = Accepts \cup Reads
    BY DEF Handler
  <2> HIDE DEF Accepts, Reads
  <2>3. ReadHandler(c, failed) \in Handler
    BY <2>1, <2>2
  <2> QED
    BY <2>3 DEF ReadHandler
<1> QED
  BY <1>1, <1>2

LEMMA DoingFields ==
  ASSUME NEW d \in Doing
  PROVE  /\ d.doing = "accept" => d.next \in AcceptorNumbers
         /\ d.doing = "push" => /\ d.connection \in Connections
                                /\ d.chunk \in 1 .. MaxChunks
                                /\ d.next \in LoggerNumbers
         /\ d.doing = "read" => d.connection \in Connections
BY DEF Doing, Unborn, Waiting, Returned, Accepting, Pushing, Rereading

LEMMA DoingMade ==
  /\ Unborn \in Doing /\ Waiting \in Doing /\ Returned \in Doing
  /\ \A a \in AcceptorNumbers : Accepting(a) \in Doing
  /\ \A c \in Connections, k \in 1 .. MaxChunks, l \in LoggerNumbers :
       Pushing(c, k, l) \in Doing
  /\ \A c \in Connections : Rereading(c) \in Doing
BY DEF Doing

LEMMA DoingDiffers ==
  /\ Unborn.doing = "unborn" /\ Waiting.doing = "run" /\ Returned.doing = "returned"
  /\ \A n : Accepting(n).doing = "accept" /\ Accepting(n).next = n
  /\ \A c, k, n : Pushing(c, k, n).doing = "push"
  /\ \A c : Rereading(c).doing = "read"
BY DEF Unborn, Waiting, Returned, Accepting, Pushing, Rereading

-------------------------------------------------------------------------------
(* Types.                                                                  *)

LEMMA TypeInit == Init => TypeOK
<1> SUFFICES ASSUME Init
             PROVE  TypeOK
  OBVIOUS
<1> USE SetAssumption, CountAssumption, BoundAssumption
<1>1. thread \in [Threads -> Doing]
  BY DoingMade DEF Init
<1>2. ready \in Seq(Handler) /\ pushed \in [LoggerNumbers -> Seq(Batch)]
  BY EmptySeq DEF Init
<1>3. accepting \in [AcceptorNumbers -> Nat] /\ reading \in [Connections -> Nat]
  BY DEF Init, FirstAccepts
<1>4. stopped \in BOOLEAN
  BY Zenon DEF Init
<1>5. destroyed \in 0 .. Loggers /\ errors \in 0 .. MaxErrors
  BY DEF Init
<1> QED
  BY <1>1, <1>2, <1>3, <1>4, <1>5 DEF Init, TypeOK

LEMMA TypeStep == TypeOK /\ [Next]_vars => TypeOK'
<1> SUFFICES ASSUME TypeOK, [Next]_vars
             PROVE  TypeOK'
  OBVIOUS
<1> USE CountAssumption, BoundAssumption
<1>1. CASE OwnerNext \/ Shutdown
  <2>1. ASSUME NEW t \in Threads, StartThread(t) \/ StoreFails(t)
        PROVE  TypeOK'
    BY <2>1, DoingMade DEF StartThread, StoreFails, Stop, TypeOK, iocVars, netVars, logVars
  <2>2. CASE StartFails \/ Serve \/ Join \/ DestroyLogger \/ Shutdown
    <3>1. stopped' \in BOOLEAN
      BY <2>2, Zenon DEF StartFails, Serve, Join, DestroyLogger, Shutdown, Stop, TypeOK
    <3>2. destroyed' \in 0 .. Loggers
      BY <2>2 DEF StartFails, Serve, Join, DestroyLogger, Shutdown, TypeOK
    <3> QED
      BY <2>2, <3>1, <3>2 DEF StartFails, Serve, Join, DestroyLogger, Shutdown, TypeOK,
                              iocVars, netVars, logVars
  <2>3. CASE DestroyRest
    BY <2>3, EmptySeq DEF DestroyRest, TypeOK, logVars
  <2> QED
    BY <1>1, <2>1, <2>2, <2>3 DEF OwnerNext
<1>2. CASE NetworkNext
  <2>1. ASSUME NEW c \in Connections, Connect(c)
        PROVE  TypeOK'
    BY <2>1 DEF Connect, TypeOK, ownerVars, iocVars, logVars
  <2>2. ASSUME NEW c \in Connections, AcceptCompletes(c)
        PROVE  TypeOK'
    <3>1. ready' \in Seq(Handler)
      BY <2>2, HandlersMade, AppendProperties DEF AcceptCompletes, TypeOK
    <3>2. accepting' \in [AcceptorNumbers -> Nat]
      BY <2>2 DEF AcceptCompletes, TypeOK
    <3> QED
      BY <2>2, <3>1, <3>2 DEF AcceptCompletes, TypeOK, ownerVars, logVars
  <2>3. ASSUME NEW a \in AcceptorNumbers, AcceptFails(a)
        PROVE  TypeOK'
    <3>1. ready' \in Seq(Handler)
      BY <2>3, HandlersMade, AppendProperties DEF AcceptFails, TypeOK
    <3>2. accepting' \in [AcceptorNumbers -> Nat] /\ errors' \in 0 .. MaxErrors
      BY <2>3 DEF AcceptFails, TypeOK
    <3> QED
      BY <2>3, <3>1, <3>2 DEF AcceptFails, TypeOK, ownerVars, logVars
  <2>4. ASSUME NEW c \in Connections, ReadCompletes(c)
        PROVE  TypeOK'
    <3>1. ready' \in Seq(Handler)
      BY <2>4, HandlersMade, AppendProperties DEF ReadCompletes, TypeOK
    <3>2. chunks[c] + 1 \in 1 .. MaxChunks
      BY <2>4 DEF ReadCompletes, TypeOK
    <3>3. brought' \subseteq Batch
      BY <2>4, <3>2 DEF ReadCompletes, TypeOK, Batch
    <3>4. /\ reading' \in [Connections -> Nat]
          /\ chunks' \in [Connections -> 0 .. MaxChunks]
          /\ buffer' \in [Connections -> 0 .. MaxChunks]
      BY <2>4, <3>2 DEF ReadCompletes, TypeOK
    <3> QED
      BY <2>4, <3>1, <3>3, <3>4 DEF ReadCompletes, TypeOK, ownerVars, logVars
  <2>5. ASSUME NEW c \in Connections, ReadFails(c)
        PROVE  TypeOK'
    <3>1. ready' \in Seq(Handler)
      BY <2>5, HandlersMade, AppendProperties DEF ReadFails, TypeOK
    <3>2. reading' \in [Connections -> Nat]
      BY <2>5 DEF ReadFails, TypeOK
    <3> QED
      BY <2>5, <3>1, <3>2 DEF ReadFails, TypeOK, ownerVars, netVars, logVars
  <2> QED
    BY <1>2, <2>1, <2>2, <2>3, <2>4, <2>5 DEF NetworkNext
<1>3. ASSUME NEW t \in Threads, ThreadNext(t)
      PROVE  TypeOK'
  <2>0. ASSUME MayRun(t)
        PROVE  Head(ready) \in Handler /\ Tail(ready) \in Seq(Handler)
    BY <2>0, HeadTailProperties DEF MayRun, TypeOK
  <2>1. CASE RunAccept(t)
    <3>1. Accepting(1) \in Doing
      BY DoingMade DEF AcceptorNumbers
    <3>2. Head(ready) \in Handler /\ ready' \in Seq(Handler)
      BY <2>0, <2>1 DEF RunAccept
    <3>3. Head(ready).connection \in Connections \cup {NoConnection}
      BY <2>1, <3>2, HandlerFields DEF RunAccept
    <3>4. thread' \in [Threads -> Doing]
      BY <2>1, <3>1 DEF RunAccept, AcceptAgain, TypeOK
    <3>5. /\ reading' \in [Connections -> Nat]
          /\ client' \in [Connections -> {"new", "waiting", "accepted", "served", "closed"}]
      <4> DEFINE c == Head(ready).connection
      <4>1. /\ reading \in [Connections -> Nat]
            /\ client \in [Connections -> {"new", "waiting", "accepted", "served", "closed"}]
        BY DEF TypeOK
      <4>2. CASE c = NoConnection
        BY <2>1, <4>1, <4>2 DEF RunAccept
      <4>3. CASE c # NoConnection
        <5>1. /\ c \in Connections
              /\ reading' = [reading EXCEPT ![c] = @ + 1]
              /\ client' = [client EXCEPT ![c] = "served"]
          BY <2>1, <3>3, <4>3 DEF RunAccept
        <5> HIDE DEF c
        <5> QED
          BY <4>1, <5>1
      <4> QED
        BY <4>2, <4>3
    <3>6. UNCHANGED <<ownerVars, accepting, chunks, buffer, errors, brought, logVars>>
      BY <2>1 DEF RunAccept
    <3> QED
      BY <3>2, <3>4, <3>5, <3>6 DEF TypeOK, ownerVars, logVars
  <2>2. CASE StartAccept(t)
    <3>1. thread[t].next \in AcceptorNumbers
      BY <2>2, DoingFields DEF StartAccept, TypeOK
    <3>2. thread[t].next < Acceptors => Accepting(thread[t].next + 1) \in Doing
      BY <3>1, DoingMade DEF AcceptorNumbers
    <3>3. thread' \in [Threads -> Doing]
      BY <2>2, <3>2, DoingMade DEF StartAccept, TypeOK
    <3>4. accepting' \in [AcceptorNumbers -> Nat] /\ rearmed' \in Nat
      BY <2>2, <3>1 DEF StartAccept, TypeOK
    <3> QED
      BY <2>2, <3>3, <3>4 DEF StartAccept, TypeOK, ownerVars, netVars
  <2>3. CASE RunRead(t)
    <3> DEFINE c == Head(ready).connection
    <3>1. Head(ready) \in Handler /\ ready' \in Seq(Handler)
      BY <2>0, <2>3 DEF RunRead
    <3>2. c \in Connections
      BY <2>3, <3>1, HandlerFields DEF RunRead
    <3>3. AfterRead(c) \in Doing
      <4>1. CASE <<c, buffer[c]>> \in brought
        <5>1. buffer[c] \in 1 .. MaxChunks
          BY <4>1 DEF TypeOK, Batch
        <5>2. Pushing(c, buffer[c], 1) \in Doing
          BY <3>2, <5>1, DoingMade DEF LoggerNumbers
        <5> QED
          BY <4>1, <5>2 DEF AfterRead
      <4>2. CASE <<c, buffer[c]>> \notin brought
        BY <3>2, <4>2, DoingMade DEF AfterRead
      <4> QED
        BY <4>1, <4>2
    <3>4. thread' \in [Threads -> Doing]
      BY <2>3, <3>3 DEF RunRead, TypeOK
    <3> QED
      BY <2>3, <3>1, <3>4 DEF RunRead, TypeOK, ownerVars, netVars, logVars
  <2>4. CASE RunReadFailed(t)
    <3>1. ready' \in Seq(Handler)
      BY <2>0, <2>4 DEF RunReadFailed
    <3>2. client' \in [Connections -> {"new", "waiting", "accepted", "served", "closed"}]
      BY <2>4 DEF RunReadFailed, TypeOK
    <3> QED
      BY <2>4, <3>1, <3>2 DEF RunReadFailed, TypeOK, ownerVars, logVars
  <2>5. CASE Push(t)
    <3> DEFINE c == thread[t].connection
               k == thread[t].chunk
               l == thread[t].next
    <3>1. c \in Connections /\ k \in 1 .. MaxChunks /\ l \in LoggerNumbers
      BY <2>5, DoingFields DEF Push, TypeOK
    <3>2. /\ l < Loggers => Pushing(c, k, l + 1) \in Doing
          /\ Rereading(c) \in Doing
      BY <3>1, DoingMade DEF LoggerNumbers
    <3>3. thread' \in [Threads -> Doing]
      BY <2>5, <3>2 DEF Push, LastLogger, TypeOK
    <3>4. <<c, k>> \in Batch
      BY <3>1 DEF Batch
    <3>5. Append(pushed[l], <<c, k>>) \in Seq(Batch)
      BY <3>1, <3>4, AppendProperties DEF TypeOK
    <3>6. pushed' \in [LoggerNumbers -> Seq(Batch)]
      BY <2>5, <3>5 DEF Push, TypeOK
    <3> QED
      BY <2>5, <3>3, <3>6 DEF Push, TypeOK, ownerVars, iocVars, netVars
  <2>6. CASE Reread(t)
    <3>1. thread[t].connection \in Connections
      BY <2>6, DoingFields DEF Reread, TypeOK
    <3> QED
      BY <2>6, <3>1, DoingMade DEF Reread, TypeOK, ownerVars, netVars, logVars
  <2>7. CASE Return(t)
    BY <2>7, DoingMade DEF Return, TypeOK, ownerVars, iocVars, netVars, logVars
  <2> QED
    BY <1>3, <2>1, <2>2, <2>3, <2>4, <2>5, <2>6, <2>7 DEF ThreadNext
<1>4. CASE Finished \/ UNCHANGED vars
  BY <1>4 DEF Finished, vars, ownerVars, iocVars, netVars, logVars, TypeOK
<1> QED
  BY <1>1, <1>2, <1>3, <1>4 DEF Next

(* Every variable of the server keeps its type (src/server.h:53), for any  *)
(* threads, connections, acceptors and loggers.                            *)
THEOREM TypeCorrect == Spec => []TypeOK
BY TypeInit, TypeStep, PTL DEF Spec

-------------------------------------------------------------------------------
(* Destruction.                                                            *)

(* The phases of the server: a thread that was started is known to the     *)
(* owner, stop has been called whenever it joins, and no thread is left    *)
(* that could run a handler once it destroys.                              *)
Phases ==
  /\ \A t \in Threads : thread[t] # Unborn => t \in threads \cup loose
  /\ owner \in {"joining", "clearing", "gone"} => stopped
  /\ owner \in {"starting", "serving"} => ~stopped /\ loose = {}
  /\ NoUseAfterDestruction

LEMMA PhasesInit == Init => Phases
BY Zenon DEF Init, Phases, NoUseAfterDestruction

LEMMA ThreadIsAlive ==
  ASSUME NEW t \in Threads, TypeOK, ThreadNext(t)
  PROVE  /\ thread[t] # Unborn /\ thread[t] # Returned
         /\ \A u \in Threads \ {t} : thread'[u] = thread[u]
         /\ UNCHANGED ownerVars
<1>1. thread \in [Threads -> Doing]
  BY DEF TypeOK
<1>2. CASE RunAccept(t) \/ RunRead(t) \/ Return(t)
  BY <1>1, <1>2, DoingDiffers DEF RunAccept, RunRead, Return, MayRun
<1>3. CASE StartAccept(t)
  BY <1>1, <1>3, DoingDiffers DEF StartAccept
<1>4. CASE Push(t) \/ Reread(t)
  BY <1>1, <1>4, DoingDiffers DEF Push, Reread
<1>5. CASE RunReadFailed(t)
  BY <1>1, <1>5, DoingDiffers DEF RunReadFailed, MayRun
<1> QED
  BY <1>2, <1>3, <1>4, <1>5 DEF ThreadNext

LEMMA PhasesStep == TypeOK /\ Phases /\ [Next]_vars => Phases'
<1> SUFFICES ASSUME TypeOK, Phases, [Next]_vars
             PROVE  Phases'
  OBVIOUS
<1>0. /\ thread \in [Threads -> Doing]
      /\ owner \in {"starting", "serving", "joining", "clearing", "gone"}
  BY DEF TypeOK
<1>1. ASSUME NEW t \in Threads, StartThread(t) \/ StoreFails(t)
      PROVE  Phases'
  <2>1. \A u \in Threads : thread'[u] # Unborn => u \in threads' \cup loose'
    BY <1>0, <1>1 DEF StartThread, StoreFails, Phases
  <2>2. CASE StartThread(t)
    BY <2>1, <2>2 DEF StartThread, Phases, NoUseAfterDestruction
  <2>3. CASE StoreFails(t)
    BY <2>1, <2>3 DEF StoreFails, Stop, Phases, NoUseAfterDestruction
  <2> QED
    BY <1>1, <2>2, <2>3
<1>2. CASE StartFails \/ Serve \/ Shutdown
  BY <1>2 DEF StartFails, Serve, Shutdown, Stop, Phases, NoUseAfterDestruction
<1>3. CASE Join
  BY <1>3 DEF Join, JoinAll, Phases, NoUseAfterDestruction
<1>4. CASE DestroyLogger \/ DestroyRest
  BY <1>4 DEF DestroyLogger, DestroyRest, Phases, NoUseAfterDestruction
<1>5. ASSUME NEW t \in Threads, ThreadNext(t)
      PROVE  Phases'
  <2>1. /\ thread[t] # Unborn /\ thread[t] # Returned
        /\ \A u \in Threads \ {t} : thread'[u] = thread[u]
        /\ UNCHANGED ownerVars
    BY <1>5, ThreadIsAlive
  <2>2. owner \notin {"clearing", "gone"}
    BY <2>1 DEF Phases, NoUseAfterDestruction
  <2> QED
    BY <2>1, <2>2 DEF ownerVars, Phases, NoUseAfterDestruction
<1>6. CASE NetworkNext \/ Finished \/ UNCHANGED vars
  <2>1. UNCHANGED <<ownerVars, thread>>
    BY <1>6 DEF NetworkNext, Connect, AcceptCompletes, AcceptFails, ReadCompletes,
                ReadFails, Finished, vars
  <2> QED
    BY <2>1 DEF ownerVars, Phases, NoUseAfterDestruction
<1> QED
  BY <1>1, <1>2, <1>3, <1>4, <1>5, <1>6 DEF Next, OwnerNext

(* The loggers and the rest of the server are destroyed only when no io    *)
(* thread can run a handler any more (src/server.cpp:106-131), however     *)
(* many threads there are and wherever the constructor failed.             *)
THEOREM SafeDestruction == Spec => []NoUseAfterDestruction
<1>1. Phases => NoUseAfterDestruction
  BY DEF Phases
<1> QED
  BY <1>1, TypeInit, TypeStep, PhasesInit, PhasesStep, PTL DEF Spec

-------------------------------------------------------------------------------
(* Listening.                                                              *)

LEMMA RangeOfAppend ==
  ASSUME NEW S, NEW seq \in Seq(S), NEW x \in S
  PROVE  /\ Range(seq) \subseteq Range(Append(seq, x))
         /\ x \in Range(Append(seq, x))
<1>1. Append(seq, x) \in Seq(S) /\ Len(Append(seq, x)) = Len(seq) + 1
  BY AppendProperties
<1>2. /\ Range(seq) = {seq[i] : i \in 1 .. Len(seq)}
      /\ Range(Append(seq, x)) = {Append(seq, x)[i] : i \in 1 .. Len(Append(seq, x))}
  BY <1>1, RangeEquality
<1>3. /\ \A i \in 1 .. Len(seq) : Append(seq, x)[i] = seq[i]
      /\ Append(seq, x)[Len(seq) + 1] = x
  BY AppendProperties
<1>4. Len(seq) \in Nat
  BY LenProperties
<1> QED
  BY <1>1, <1>2, <1>3, <1>4

LEMMA RangeOfTail ==
  ASSUME NEW S, NEW seq \in Seq(S), seq # <<>>
  PROVE  \A x \in Range(seq) : x = Head(seq) \/ x \in Range(Tail(seq))
<1>1. /\ Tail(seq) \in Seq(S) /\ Len(Tail(seq)) = Len(seq) - 1
      /\ \A i \in 1 .. Len(Tail(seq)) : Tail(seq)[i] = seq[i + 1]
      /\ Head(seq) = seq[1]
  BY HeadTailProperties
<1>2. /\ Range(seq) = {seq[i] : i \in 1 .. Len(seq)}
      /\ Range(Tail(seq)) = {Tail(seq)[i] : i \in 1 .. Len(Tail(seq))}
  BY <1>1, RangeEquality
<1> SUFFICES ASSUME NEW i \in 1 .. Len(seq), i # 1
             PROVE  seq[i] \in Range(Tail(seq))
  BY <1>1, <1>2
<1>3. i - 1 \in 1 .. Len(Tail(seq)) /\ Tail(seq)[i - 1] = seq[i]
  BY <1>1, LenProperties
<1> QED
  BY <1>2, <1>3

(* That acceptor a listens, or a handler will make it listen.              *)
Listens(a) ==
  \/ accepting[a] > 0
  \/ \E h \in Range(ready) : h.kind = "accept"
  \/ \E t \in Threads : thread[t].doing = "accept" /\ thread[t].next <= a

LEMMA ListensStep ==
  ASSUME TypeOK, [Next]_vars, owner' # "gone",
         NEW a \in AcceptorNumbers, Listens(a)
  PROVE  Listens(a)'
<1>0. /\ ready \in Seq(Handler)
      /\ accepting \in [AcceptorNumbers -> Nat]
      /\ thread \in [Threads -> Doing]
      /\ a \in Nat
  BY CountAssumption DEF TypeOK, AcceptorNumbers
<1>1. CASE OwnerNext \/ Shutdown
  <2>1. ASSUME NEW t \in Threads, StartThread(t) \/ StoreFails(t)
        PROVE  Listens(a)'
    <3>1. /\ \A u \in Threads \ {t} : thread'[u] = thread[u]
          /\ thread[t].doing # "accept"
          /\ UNCHANGED <<ready, accepting>>
      BY <1>0, <2>1, DoingDiffers DEF StartThread, StoreFails, iocVars
    <3> QED
      BY <3>1 DEF Listens
  <2>2. CASE StartFails \/ Serve \/ Join \/ DestroyLogger \/ Shutdown
    <3>1. UNCHANGED <<ready, accepting, thread>>
      BY <2>2 DEF StartFails, Serve, Join, DestroyLogger, Shutdown, iocVars
    <3> QED
      BY <3>1 DEF Listens
  <2>3. CASE DestroyRest
    BY <2>3 DEF DestroyRest
  <2> QED
    BY <1>1, <2>1, <2>2, <2>3 DEF OwnerNext
<1>2. CASE NetworkNext
  <2>1. ASSUME NEW h \in Handler, ready' = Append(ready, h), h.kind = "accept"
        PROVE  Listens(a)'
    BY <1>0, <2>1, RangeOfAppend DEF Listens
  <2>2. ASSUME NEW h \in Handler, ready' = Append(ready, h), UNCHANGED <<accepting, thread>>
        PROVE  Listens(a)'
    <3>1. Range(ready) \subseteq Range(ready')
      BY <1>0, <2>2, RangeOfAppend
    <3> QED
      BY <2>2, <3>1 DEF Listens
  <2>3. ASSUME NEW c \in Connections, Connect(c)
        PROVE  Listens(a)'
    BY <2>3 DEF Connect, iocVars, Listens
  <2>4. ASSUME NEW c \in Connections, AcceptCompletes(c)
        PROVE  Listens(a)'
    BY <2>1, <2>4, HandlersMade DEF AcceptCompletes
  <2>5. ASSUME NEW b \in AcceptorNumbers, AcceptFails(b)
        PROVE  Listens(a)'
    BY <2>1, <2>5, HandlersMade DEF AcceptFails
  <2>6. ASSUME NEW c \in Connections, ReadCompletes(c) \/ ReadFails(c)
        PROVE  Listens(a)'
    BY <2>2, <2>6, HandlersMade DEF ReadCompletes, ReadFails
  <2> QED
    BY <1>2, <2>3, <2>4, <2>5, <2>6 DEF NetworkNext
<1>3. ASSUME NEW t \in Threads, ThreadNext(t)
      PROVE  Listens(a)'
  <2>0. \A u \in Threads \ {t} : thread'[u] = thread[u]
    BY <1>3, ThreadIsAlive
  <2>1. CASE RunAccept(t)
    <3>1. thread'[t] = Accepting(1)
      BY <1>0, <2>1 DEF RunAccept, AcceptAgain
    <3>2. thread'[t].doing = "accept" /\ thread'[t].next <= a
      BY <3>1, DoingDiffers DEF AcceptorNumbers
    <3> QED
      BY <3>2 DEF Listens
  <2>2. CASE StartAccept(t)
    <3> DEFINE b == thread[t].next
    <3>1. b \in AcceptorNumbers
      BY <1>0, <2>2, DoingFields DEF StartAccept
    <3>2. /\ accepting' = [accepting EXCEPT ![b] = @ + 1]
          /\ b < Acceptors => thread'[t] = Accepting(b + 1)
          /\ UNCHANGED ready
      BY <1>0, <2>2 DEF StartAccept
    <3>3. \A n : Accepting(n).doing = "accept" /\ Accepting(n).next = n
      BY DoingDiffers
    <3> HIDE DEF b
    <3>4. CASE a = b
      BY <1>0, <3>1, <3>2, <3>4 DEF Listens
    <3>5. CASE b < a
      <4>1. thread'[t].doing = "accept" /\ thread'[t].next <= a
        BY <1>0, <3>1, <3>2, <3>3, <3>5, CountAssumption DEF AcceptorNumbers
      <4> QED
        BY <4>1 DEF Listens
    <3>6. CASE a < b
      <4>1. accepting'[a] = accepting[a]
        BY <1>0, <3>1, <3>2, <3>6 DEF AcceptorNumbers
      <4>2. ~(b <= a)
        BY <1>0, <3>1, <3>6 DEF AcceptorNumbers
      <4>3. thread[t].doing = "accept" => ~(thread[t].next <= a)
        BY <4>2 DEF b
      <4> QED
        BY <2>0, <3>2, <4>1, <4>3 DEF Listens
    <3> QED
      BY <1>0, <3>1, <3>4, <3>5, <3>6 DEF AcceptorNumbers
  <2>3. CASE RunRead(t) \/ RunReadFailed(t)
    <3>1. /\ ready # <<>> /\ Head(ready).kind = "read" /\ ready' = Tail(ready)
          /\ thread[t].doing = "run"
          /\ UNCHANGED accepting
      BY <2>3, DoingDiffers DEF RunRead, RunReadFailed, MayRun
    <3>2. \A h \in Range(ready) : h.kind = "accept" => h \in Range(ready')
      BY <1>0, <3>1, RangeOfTail
    <3> QED
      BY <2>0, <3>1, <3>2 DEF Listens
  <2>4. CASE Push(t) \/ Reread(t) \/ Return(t)
    <3>1. /\ UNCHANGED <<ready, accepting>>
          /\ thread[t].doing # "accept"
      BY <2>4, DoingDiffers DEF Push, Reread, Return, iocVars
    <3> QED
      BY <2>0, <3>1 DEF Listens
  <2> QED
    BY <1>3, <2>1, <2>2, <2>3, <2>4 DEF ThreadNext
<1>4. CASE Finished \/ UNCHANGED vars
  BY <1>4 DEF Finished, vars, iocVars, Listens
<1> QED
  BY <1>1, <1>2, <1>3, <1>4 DEF Next

LEMMA ListeningStep ==
  TypeOK /\ Phases /\ NeverStopsListening /\ [Next]_vars => NeverStopsListening'
<1> SUFFICES ASSUME TypeOK, Phases, NeverStopsListening, [Next]_vars, owner' # "gone"
             PROVE  /\ \A a \in AcceptorNumbers : Listens(a)'
                    /\ ~stopped' => \A t \in Threads : thread'[t] # Returned
  BY DEF NeverStopsListening, Listens
<1>0. thread \in [Threads -> Doing]
  BY DEF TypeOK
<1>1. owner # "gone"
  <2>1. CASE owner = "gone"
    <3>1. \A t \in Threads : ~ThreadNext(t)
      BY <2>1, ThreadIsAlive DEF Phases, NoUseAfterDestruction
    <3>2. UNCHANGED owner
      BY <2>1, <3>1 DEF Next, OwnerNext, StartThread, StoreFails, StartFails, Serve, Join,
           DestroyLogger, DestroyRest, Shutdown, NetworkNext, Connect, AcceptCompletes,
           AcceptFails, ReadCompletes, ReadFails, Finished, vars, ownerVars
    <3> QED
      BY <2>1, <3>2
  <2> QED
    BY <2>1
<1>2. \A a \in AcceptorNumbers : Listens(a)
  BY <1>1 DEF NeverStopsListening, Listens
<1>3. \A a \in AcceptorNumbers : Listens(a)'
  BY <1>2, ListensStep
<1>4. ASSUME ~stopped', NEW t \in Threads
      PROVE  thread'[t] # Returned
  <2>1. ~stopped
    BY <1>4 DEF Next, OwnerNext, StartThread, StoreFails, StartFails, Serve, Join,
         DestroyLogger, DestroyRest, Shutdown, Stop, NetworkNext, Connect, AcceptCompletes,
         AcceptFails, ReadCompletes, ReadFails, Finished, vars, ownerVars, ThreadNext,
         RunAccept, StartAccept, RunRead, RunReadFailed, Push, Reread, Return
  <2>2. thread[t] # Returned
    BY <1>1, <2>1 DEF NeverStopsListening
  <2>3. \A u \in Threads : ~Return(u)
    <3> SUFFICES ASSUME ready = <<>>,
                        \A a \in AcceptorNumbers : accepting[a] = 0,
                        \A u \in Threads : ~InHandler(u)
                 PROVE  FALSE
      BY <2>1, Zenon DEF Return, OutOfWork
    <3>1. 1 \in AcceptorNumbers
      BY CountAssumption DEF AcceptorNumbers
    <3>2. Range(ready) = {}
      BY DEF Range
    <3> QED
      BY <1>2, <3>1, <3>2 DEF Listens, InHandler
  <2>4. ASSUME NEW u \in Threads, StartThread(u) \/ StoreFails(u)
        PROVE  thread'[t] # Returned
    BY <1>0, <2>2, <2>4, DoingDiffers DEF StartThread, StoreFails
  <2>5. ASSUME NEW u \in Threads, ThreadNext(u)
        PROVE  thread'[t] # Returned
    <3>1. thread'[u] # Returned
      <4>1. thread[u] # Returned
        BY <2>5, ThreadIsAlive
      <4>2. CASE RunAccept(u) \/ StartAccept(u)
        BY <1>0, <4>2, DoingDiffers DEF RunAccept, AcceptAgain, StartAccept
      <4>3. CASE RunRead(u)
        BY <1>0, <4>3, DoingDiffers DEF RunRead, AfterRead
      <4>4. CASE RunReadFailed(u)
        BY <4>1, <4>4 DEF RunReadFailed
      <4>5. CASE Push(u) \/ Reread(u)
        BY <1>0, <4>5, DoingDiffers DEF Push, Reread
      <4> QED
        BY <2>3, <2>5, <4>2, <4>3, <4>4, <4>5 DEF ThreadNext
    <3> QED
      BY <2>2, <2>5, <3>1, ThreadIsAlive
  <2>6. CASE UNCHANGED thread
    BY <2>2, <2>6
  <2>7. \/ \E u \in Threads : StartThread(u) \/ StoreFails(u) \/ ThreadNext(u)
        \/ UNCHANGED thread
    BY DEF Next, OwnerNext, StartFails, Serve, Join, DestroyLogger, DestroyRest, Shutdown,
           NetworkNext, Connect, AcceptCompletes, AcceptFails, ReadCompletes, ReadFails,
           Finished, vars
  <2> QED
    BY <2>4, <2>5, <2>6, <2>7
<1> QED
  BY <1>3, <1>4

(* As long as the server exists, every acceptor listens or is about to     *)
(* (src/server.cpp:134-161), and no io thread returns from run before the  *)
(* shutdown, for any number of threads and acceptors and any failures.     *)
THEOREM AlwaysListening == Spec => []NeverStopsListening
<1>1. Init => NeverStopsListening
  <2> SUFFICES ASSUME Init
               PROVE  NeverStopsListening
    OBVIOUS
  <2>1. \A a \in AcceptorNumbers : accepting[a] > 0
    BY DEF Init, FirstAccepts
  <2>2. \A t \in Threads : thread[t] # Returned
    BY DEF Init, Unborn, Returned
  <2> QED
    BY <2>1, <2>2 DEF NeverStopsListening
<1> QED
  BY <1>1, TypeInit, TypeStep, PhasesInit, PhasesStep, ListeningStep, PTL DEF Spec
===============================================================================
