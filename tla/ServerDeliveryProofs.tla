------------------------- MODULE ServerDeliveryProofs -------------------------
(***************************************************************************)
(* More proofs about Server: what belongs to a session is in one place at  *)
(* a time; from that, that every logger is given every batch, once and in  *)
(* order; and how many accepts there are.                                  *)
(***************************************************************************)
EXTENDS ServerProofs, FiniteSetTheorems

-------------------------------------------------------------------------------
(* The queue and the threads.                                              *)

(* Where in the queue there are handlers of a set.                         *)
Places(H) == {i \in DOMAIN ready : ready[i] \in H}
AtMostOne(S) == \A x, y \in S : x = y

Reads(c) == {ReadHandler(c, TRUE), ReadHandler(c, FALSE)}

LEMMA HandlersDiffer ==
  /\ \A c, d : AcceptHandler(c) = AcceptHandler(d) => c = d
  /\ \A c, d, f, g : ReadHandler(c, f) = ReadHandler(d, g) => c = d /\ f = g
  /\ \A c, d, f : AcceptHandler(c) # ReadHandler(d, f)
  /\ \A c, d, f : f \in BOOLEAN => (ReadHandler(c, f) \in Reads(d) <=> c = d)
  /\ \A c, d : AcceptHandler(c) \notin Reads(d)
<1>1. \A c, d : AcceptHandler(c) = AcceptHandler(d) => c = d
  BY DEF AcceptHandler
<1>2. \A c, d, f, g : ReadHandler(c, f) = ReadHandler(d, g) => c = d /\ f = g
  BY DEF ReadHandler
<1>3. \A c, d, f : AcceptHandler(c) # ReadHandler(d, f)
  BY DEF AcceptHandler, ReadHandler
<1>4. \A c, f : f \in BOOLEAN => ReadHandler(c, f) \in Reads(c)
  BY Zenon DEF Reads
<1>5. \A c, d, f : ReadHandler(c, f) \in Reads(d) => c = d
  BY <1>2 DEF Reads
<1>6. \A c, d : AcceptHandler(c) \notin Reads(d)
  BY <1>3 DEF Reads
<1> QED
  BY <1>1, <1>2, <1>3, <1>4, <1>5, <1>6, Zenon

(* A handler is what its fields say.                                       *)
LEMMA HandlerIs ==
  ASSUME NEW h \in Handler
  PROVE  /\ h.kind = "accept" => h = AcceptHandler(h.connection)
         /\ h.kind = "read" => /\ h.failed => h = ReadHandler(h.connection, TRUE)
                               /\ ~h.failed => h = ReadHandler(h.connection, FALSE)
<1>1. CASE \E c \in Connections \cup {NoConnection} : h = AcceptHandler(c)
  BY <1>1 DEF AcceptHandler
<1>2. ASSUME NEW c \in Connections, NEW f \in BOOLEAN, h = ReadHandler(c, f)
      PROVE  /\ h.kind = "read" /\ h.connection = c
             /\ h.failed => h = ReadHandler(c, TRUE)
             /\ ~h.failed => h = ReadHandler(c, FALSE)
  BY <1>2 DEF ReadHandler
<1>3. CASE \E c \in Connections, f \in BOOLEAN : h = ReadHandler(c, f)
  BY <1>2, <1>3
<1>4. \/ \E c \in Connections \cup {NoConnection} : h = AcceptHandler(c)
      \/ \E c \in Connections, f \in BOOLEAN : h = ReadHandler(c, f)
  <2> DEFINE Accepts == {AcceptHandler(d) : d \in Connections \cup {NoConnection}}
             TheReads == {ReadHandler(d, f) : d \in Connections, f \in BOOLEAN}
  <2>1. h \in Accepts \/ h \in TheReads
    <3>1. Handler = Accepts \cup TheReads
      BY DEF Handler
    <3> HIDE DEF Accepts, TheReads
    <3> QED
      BY <3>1
  <2>2. h \in Accepts => \E c \in Connections \cup {NoConnection} : h = AcceptHandler(c)
    OBVIOUS
  <2>3. h \in TheReads => \E c \in Connections, f \in BOOLEAN : h = ReadHandler(c, f)
    OBVIOUS
  <2> HIDE DEF Accepts, TheReads
  <2> QED
    BY <2>1, <2>2, <2>3
<1> QED
  BY <1>1, <1>3, <1>4, Zenon

LEMMA AppendPlaces ==
  ASSUME ready \in Seq(Handler), NEW h \in Handler, ready' = Append(ready, h), NEW H
  PROVE  /\ h \notin H => Places(H)' = Places(H)
         /\ h \in H => Places(H)' = Places(H) \cup {Len(ready) + 1}
<1>1. /\ Len(ready) \in Nat /\ Len(ready') = Len(ready) + 1 /\ ready' \in Seq(Handler)
      /\ \A i \in 1 .. Len(ready) : ready'[i] = ready[i]
      /\ ready'[Len(ready) + 1] = h
  BY AppendProperties, LenProperties
<1>2. DOMAIN ready = 1 .. Len(ready) /\ DOMAIN ready' = 1 .. Len(ready')
  BY <1>1, LenProperties
<1>3. DOMAIN ready' = DOMAIN ready \cup {Len(ready) + 1}
  BY <1>1, <1>2
<1>4. \A i \in DOMAIN ready : ready'[i] = ready[i]
  BY <1>1, <1>2
<1>5. Places(H)' = {i \in DOMAIN ready' : ready'[i] \in H}
  BY DEF Places
<1> QED
  BY <1>1, <1>3, <1>4, <1>5, Zenon DEF Places

LEMMA TailPlaces ==
  ASSUME ready \in Seq(Handler), ready # <<>>, ready' = Tail(ready),
         NEW H, AtMostOne(Places(H))
  PROVE  /\ AtMostOne(Places(H)')
         /\ Places(H) = {} => Places(H)' = {}
         /\ Head(ready) \in H => Places(H) # {} /\ Places(H)' = {}
<1>1. /\ ready' \in Seq(Handler) /\ Len(ready) \in Nat /\ Len(ready') = Len(ready) - 1
      /\ \A i \in 1 .. Len(ready') : ready'[i] = ready[i + 1]
      /\ Head(ready) = ready[1]
      /\ Len(ready) # 0
  BY HeadTailProperties, LenProperties, EmptySeq
<1>2. DOMAIN ready = 1 .. Len(ready) /\ DOMAIN ready' = 1 .. Len(ready')
  BY <1>1, LenProperties
<1>3. \A i \in Places(H)' : i \in Nat /\ i # 0 /\ i + 1 \in Places(H)
  BY <1>1, <1>2 DEF Places
<1>4. Head(ready) \in H => 1 \in Places(H)
  BY <1>1, <1>2 DEF Places
<1>5. ASSUME NEW x \in Places(H)', NEW y \in Places(H)'
      PROVE  x = y
  <2>1. x + 1 = y + 1
    BY <1>3 DEF AtMostOne
  <2> QED
    BY <1>3, <2>1
<1>6. ASSUME 1 \in Places(H), NEW x \in Places(H)'
      PROVE  FALSE
  <2>1. x + 1 = 1
    BY <1>3, <1>6 DEF AtMostOne
  <2> QED
    BY <1>3, <2>1
<1>7. AtMostOne(Places(H)')
  BY <1>5 DEF AtMostOne
<1> QED
  BY <1>3, <1>4, <1>6, <1>7

(* A thread that begins to do something else.                              *)
LEMMA InReadStep ==
  ASSUME thread \in [Threads -> Doing], NEW t \in Threads, NEW d,
         thread' = [thread EXCEPT ![t] = d], NEW c
  PROVE  /\ d.doing \in {"push", "read"} /\ d.connection = c => InRead(c)' = InRead(c) \cup {t}
         /\ ~(d.doing \in {"push", "read"} /\ d.connection = c) => InRead(c)' = InRead(c) \ {t}
<1>1. thread'[t] = d /\ \A u \in Threads \ {t} : thread'[u] = thread[u]
  OBVIOUS
<1>2. InRead(c)' = {u \in Threads : thread'[u].doing \in {"push", "read"} /\ thread'[u].connection = c}
  BY DEF InRead
<1> QED
  BY <1>1, <1>2, Zenon DEF InRead

LEMMA DoingWhere ==
  /\ \A c, k, n : /\ Pushing(c, k, n).doing = "push" /\ Pushing(c, k, n).connection = c
                  /\ Pushing(c, k, n).chunk = k /\ Pushing(c, k, n).next = n
  /\ \A c : Rereading(c).doing = "read" /\ Rereading(c).connection = c
BY DEF Pushing, Rereading
-------------------------------------------------------------------------------
(* Sessions.                                                               *)

(* What belongs to a session is in one place: a read that was started, a   *)
(* handler in the queue, or a thread.  There is nothing before its         *)
(* connection was accepted, and then the one handler that makes it.        *)
OneReader(c) ==
  /\ reading[c] <= 1
  /\ AtMostOne(Places(Reads(c))) /\ AtMostOne(InRead(c))
  /\ reading[c] = 1 => Places(Reads(c)) = {}
  /\ reading[c] = 1 \/ Places(Reads(c)) # {} => InRead(c) = {}

Accepted(c) ==
  /\ AtMostOne(Places({AcceptHandler(c)}))
  /\ Places({AcceptHandler(c)}) # {} => client[c] = "accepted"
  /\ client[c] \in {"new", "waiting", "accepted"} =>
       reading[c] = 0 /\ Places(Reads(c)) = {} /\ InRead(c) = {} /\ chunks[c] = 0

Sessions == \A c \in Connections : OneReader(c) /\ Accepted(c)

LEMMA SessionsInit == Init => Sessions
<1> SUFFICES ASSUME Init, NEW c \in Connections
             PROVE  OneReader(c) /\ Accepted(c)
  BY DEF Sessions
<1>1. \A H : Places(H) = {}
  BY DEF Init, Places
<1>2. InRead(c) = {}
  BY DoingDiffers DEF Init, InRead
<1>3. reading[c] = 0 /\ chunks[c] = 0
  BY DEF Init
<1> QED
  BY <1>1, <1>2, <1>3 DEF OneReader, Accepted, AtMostOne

(* Steps that leave what belongs to a session alone.                       *)
LEMMA SessionStays ==
  ASSUME NEW c, OneReader(c), Accepted(c),
         reading'[c] = reading[c], Places(Reads(c))' = Places(Reads(c)),
         InRead(c)' = InRead(c), Places({AcceptHandler(c)})' = Places({AcceptHandler(c)}),
         \/ client'[c] = client[c]
         \/ client'[c] = "waiting" /\ client[c] = "new",
         chunks'[c] = chunks[c]
  PROVE  OneReader(c)' /\ Accepted(c)'
BY DEF OneReader, Accepted, AtMostOne

LEMMA QueueStays ==
  ASSUME UNCHANGED ready, NEW H
  PROVE  Places(H)' = Places(H)
BY DEF Places

LEMMA SessionUntouched ==
  ASSUME NEW c, OneReader(c), Accepted(c), UNCHANGED ready,
         reading'[c] = reading[c], InRead(c)' = InRead(c),
         \/ client'[c] = client[c]
         \/ client'[c] = "waiting" /\ client[c] = "new",
         chunks'[c] = chunks[c]
  PROVE  OneReader(c)' /\ Accepted(c)'
<1>1. Places(Reads(c))' = Places(Reads(c))
  BY QueueStays
<1>2. Places({AcceptHandler(c)})' = Places({AcceptHandler(c)})
  BY QueueStays
<1> QED
  BY <1>1, <1>2, SessionStays

LEMMA ThreadsStay ==
  ASSUME UNCHANGED thread, NEW c
  PROVE  InRead(c)' = InRead(c)
BY DEF InRead

LEMMA SessionsOwner ==
  ASSUME TypeOK, Sessions, OwnerNext \/ Shutdown
  PROVE  Sessions'
<1>0. thread \in [Threads -> Doing]
  BY DEF TypeOK
<1> SUFFICES ASSUME NEW c \in Connections
             PROVE  OneReader(c)' /\ Accepted(c)'
  BY DEF Sessions
<1>1. OneReader(c) /\ Accepted(c)
  BY DEF Sessions
<1>2. ASSUME NEW t \in Threads, StartThread(t) \/ StoreFails(t)
      PROVE  OneReader(c)' /\ Accepted(c)'
  <2>1. /\ thread' = [thread EXCEPT ![t] = Waiting] /\ thread[t] = Unborn
        /\ UNCHANGED <<ready, reading, client, chunks>>
    BY <1>2 DEF StartThread, StoreFails, iocVars, netVars
  <2>2. InRead(c)' = InRead(c) \ {t} /\ t \notin InRead(c)
    BY <1>0, <2>1, InReadStep, DoingDiffers DEF InRead
  <2> QED
    BY <1>1, <2>1, <2>2, ThreadsStay, SessionUntouched
<1>3. CASE StartFails \/ Serve \/ Join \/ DestroyLogger \/ Shutdown
  <2>1. UNCHANGED <<ready, reading, client, chunks, thread>>
    BY <1>3 DEF StartFails, Serve, Join, DestroyLogger, Shutdown, iocVars, netVars
  <2> QED
    BY <1>1, <2>1, ThreadsStay, SessionUntouched
<1>4. CASE DestroyRest
  <2>1. /\ ready' = <<>> /\ reading'[c] = 0 /\ client'[c] = "closed"
        /\ UNCHANGED <<thread, chunks>>
    BY <1>4 DEF DestroyRest
  <2>2. \A H : Places(H)' = {}
    BY <2>1 DEF Places
  <2> QED
    BY <1>1, <2>1, <2>2, ThreadsStay DEF OneReader, Accepted, AtMostOne
<1> QED
  BY <1>2, <1>3, <1>4 DEF OwnerNext

LEMMA SessionsNetwork ==
  ASSUME TypeOK, Sessions, NetworkNext
  PROVE  Sessions'
<1>0. /\ ready \in Seq(Handler) /\ reading \in [Connections -> Nat]
      /\ DOMAIN client = Connections /\ DOMAIN chunks = Connections
  BY DEF TypeOK
<1> SUFFICES ASSUME NEW c \in Connections
             PROVE  OneReader(c)' /\ Accepted(c)'
  BY DEF Sessions
<1>1. OneReader(c) /\ Accepted(c)
  BY DEF Sessions
<1>2. ASSUME NEW d \in Connections, Connect(d)
      PROVE  OneReader(c)' /\ Accepted(c)'
  <2>1. /\ UNCHANGED <<ready, reading, chunks, thread>>
        /\ client' = [client EXCEPT ![d] = "waiting"] /\ client[d] = "new"
    BY <1>2 DEF Connect, iocVars
  <2>2. client'[c] = client[c] \/ (client'[c] = "waiting" /\ client[c] = "new")
    BY <1>0, <2>1
  <2> QED
    BY <1>1, <2>1, <2>2, ThreadsStay, SessionUntouched
<1>3. ASSUME NEW d \in Connections, AcceptCompletes(d)
      PROVE  OneReader(c)' /\ Accepted(c)'
  <2>1. /\ UNCHANGED <<reading, chunks, thread>>
        /\ client' = [client EXCEPT ![d] = "accepted"] /\ client[d] = "waiting"
        /\ ready' = Append(ready, AcceptHandler(d))
    BY <1>3 DEF AcceptCompletes
  <2>2. AcceptHandler(d) \in Handler
    BY HandlersMade
  <2>3. Places(Reads(c))' = Places(Reads(c))
    BY <1>0, <2>1, <2>2, AppendPlaces, HandlersDiffer
  <2>4. CASE d # c
    <3>1. Places({AcceptHandler(c)})' = Places({AcceptHandler(c)})
      <4>1. AcceptHandler(d) \notin {AcceptHandler(c)}
        BY <2>4, HandlersDiffer
      <4> QED
        BY <1>0, <2>1, <2>2, <4>1, AppendPlaces
    <3>2. client'[c] = client[c]
      BY <1>0, <2>1, <2>4
    <3> QED
      BY <1>1, <2>1, <2>3, <3>1, <3>2, ThreadsStay, SessionStays
  <2>5. CASE d = c
    <3>1. Places({AcceptHandler(c)}) = {}
      BY <1>1, <2>1, <2>5 DEF Accepted
    <3>2. Places({AcceptHandler(c)})' = Places({AcceptHandler(c)}) \cup {Len(ready) + 1}
      BY <1>0, <2>1, <2>2, <2>5, AppendPlaces
    <3>3. client'[c] = "accepted"
      BY <1>0, <2>1, <2>5
    <3>4. InRead(c)' = InRead(c)
      BY <2>1, ThreadsStay
    <3> QED
      BY <1>1, <2>1, <2>3, <2>5, <3>1, <3>2, <3>3, <3>4 DEF OneReader, Accepted, AtMostOne
  <2> QED
    BY <2>4, <2>5
<1>4. ASSUME NEW a \in AcceptorNumbers, AcceptFails(a)
      PROVE  OneReader(c)' /\ Accepted(c)'
  <2>1. /\ UNCHANGED <<reading, chunks, thread, client>>
        /\ ready' = Append(ready, AcceptHandler(NoConnection))
    BY <1>4 DEF AcceptFails
  <2>2. AcceptHandler(NoConnection) \in Handler
    BY HandlersMade
  <2>3. Places(Reads(c))' = Places(Reads(c))
    BY <1>0, <2>1, <2>2, AppendPlaces, HandlersDiffer
  <2>4. AcceptHandler(NoConnection) \notin {AcceptHandler(c)}
    BY HandlersDiffer, SetAssumption
  <2>5. Places({AcceptHandler(c)})' = Places({AcceptHandler(c)})
    BY <1>0, <2>1, <2>2, <2>4, AppendPlaces
  <2> QED
    BY <1>1, <2>1, <2>3, <2>5, ThreadsStay, SessionStays
<1>5. ASSUME NEW d \in Connections, ReadCompletes(d) \/ ReadFails(d)
      PROVE  OneReader(c)' /\ Accepted(c)'
  <2>1. PICK failed \in BOOLEAN :
          /\ UNCHANGED <<thread, client>>
          /\ reading[d] > 0 /\ reading' = [reading EXCEPT ![d] = @ - 1]
          /\ ready' = Append(ready, ReadHandler(d, failed))
    BY <1>5 DEF ReadCompletes, ReadFails, netVars
  <2>2. ReadHandler(d, failed) \in Handler
    BY HandlersMade
  <2>3. Places({AcceptHandler(c)})' = Places({AcceptHandler(c)})
    <3>1. ReadHandler(d, failed) \notin {AcceptHandler(c)}
      BY HandlersDiffer
    <3> QED
      BY <1>0, <2>1, <2>2, <3>1, AppendPlaces
  <2>4. CASE d # c
    <3>1. ReadHandler(d, failed) \notin Reads(c)
      BY <2>4, HandlersDiffer
    <3>2. Places(Reads(c))' = Places(Reads(c))
      BY <1>0, <2>1, <2>2, <3>1, AppendPlaces
    <3>3. reading'[c] = reading[c] /\ chunks'[c] = chunks[c]
      BY <1>0, <1>5, <2>1, <2>4 DEF ReadCompletes, ReadFails, netVars
    <3> QED
      BY <1>1, <2>1, <2>3, <3>2, <3>3, ThreadsStay, SessionStays
  <2>5. CASE d = c
    <3>1. reading[c] = 1 /\ reading'[c] = 0
      BY <1>0, <1>1, <2>1, <2>5 DEF OneReader
    <3>2. Places(Reads(c)) = {} /\ InRead(c) = {}
      BY <1>1, <3>1 DEF OneReader
    <3>3. ReadHandler(d, failed) \in Reads(c)
      BY <2>5, HandlersDiffer
    <3>4. Places(Reads(c))' = {Len(ready) + 1}
      BY <1>0, <2>1, <2>2, <3>2, <3>3, AppendPlaces
    <3>5. InRead(c)' = {}
      BY <2>1, <3>2, ThreadsStay
    <3>6. client[c] \notin {"new", "waiting", "accepted"} /\ UNCHANGED client
      BY <1>1, <2>1, <3>1 DEF Accepted
    <3>7. OneReader(c)'
      BY <3>1, <3>4, <3>5 DEF OneReader, AtMostOne
    <3>8. Accepted(c)'
      BY <1>1, <2>3, <3>6 DEF Accepted, AtMostOne
    <3> QED
      BY <3>7, <3>8
  <2> QED
    BY <2>4, <2>5
<1> QED
  BY <1>2, <1>3, <1>4, <1>5 DEF NetworkNext
(* A handler is taken out of the queue that is not about this session.     *)
LEMMA SessionShrinks ==
  ASSUME NEW c, OneReader(c), Accepted(c),
         ready \in Seq(Handler), ready # <<>>, ready' = Tail(ready),
         reading'[c] = reading[c], InRead(c)' = InRead(c),
         client'[c] = client[c], chunks'[c] = chunks[c]
  PROVE  OneReader(c)' /\ Accepted(c)'
<1>1. AtMostOne(Places(Reads(c))') /\ (Places(Reads(c)) = {} => Places(Reads(c))' = {})
  BY TailPlaces DEF OneReader
<1>2. /\ AtMostOne(Places({AcceptHandler(c)})')
      /\ Places({AcceptHandler(c)}) = {} => Places({AcceptHandler(c)})' = {}
  BY TailPlaces DEF Accepted
<1>3. AtMostOne(InRead(c))'
  BY DEF OneReader, AtMostOne
<1>4. AtMostOne(Places(Reads(c)))' /\ AtMostOne(Places({AcceptHandler(c)}))'
  BY <1>1, <1>2 DEF AtMostOne
<1> QED
  BY <1>1, <1>2, <1>3, <1>4 DEF OneReader, Accepted

LEMMA SessionsThread ==
  ASSUME TypeOK, Sessions, NEW t \in Threads, ThreadNext(t)
  PROVE  Sessions'
<1>0. /\ ready \in Seq(Handler) /\ reading \in [Connections -> Nat]
      /\ DOMAIN client = Connections /\ thread \in [Threads -> Doing]
  BY DEF TypeOK
<1> SUFFICES ASSUME NEW c \in Connections
             PROVE  OneReader(c)' /\ Accepted(c)'
  BY DEF Sessions
<1>1. OneReader(c) /\ Accepted(c)
  BY DEF Sessions
<1>2. ASSUME MayRun(t)
      PROVE  /\ Head(ready) \in Handler /\ ready # <<>>
             /\ thread[t] = Waiting /\ t \notin InRead(c)
  BY <1>0, <1>2, HeadTailProperties, DoingDiffers DEF MayRun, InRead
<1>3. CASE RunAccept(t)
  <2> DEFINE d == Head(ready).connection
  <2>1. /\ Head(ready) = AcceptHandler(d) /\ ready # <<>> /\ ready' = Tail(ready)
        /\ UNCHANGED chunks
    BY <1>2, <1>3, HandlerIs DEF RunAccept
  <2>2. InRead(c)' = InRead(c)
    <3>1. thread' = [thread EXCEPT ![t] = Accepting(1)] /\ t \notin InRead(c)
      BY <1>2, <1>3 DEF RunAccept, AcceptAgain
    <3>2. InRead(c)' = InRead(c) \ {t}
      BY <1>0, <3>1, InReadStep, DoingDiffers
    <3> QED
      BY <3>1, <3>2
  <2>3. \/ UNCHANGED <<reading, client>> /\ d = NoConnection
        \/ /\ reading' = [reading EXCEPT ![d] = @ + 1]
           /\ client' = [client EXCEPT ![d] = "served"]
    BY <1>3 DEF RunAccept
  <2> HIDE DEF d
  <2>4. CASE d # c
    <3>1. reading'[c] = reading[c] /\ client'[c] = client[c] /\ chunks'[c] = chunks[c]
      BY <1>0, <2>1, <2>3, <2>4
    <3> QED
      BY <1>0, <1>1, <2>1, <2>2, <3>1, SessionShrinks
  <2>5. CASE d = c
    <3>1. d # NoConnection
      BY <2>5, SetAssumption
    <3>2. Places({AcceptHandler(c)}) # {} /\ Places({AcceptHandler(c)})' = {}
      BY <1>0, <1>1, <2>1, <2>5, TailPlaces DEF Accepted
    <3>3. reading[c] = 0 /\ Places(Reads(c)) = {} /\ InRead(c) = {}
      BY <1>1, <3>2 DEF Accepted
    <3>4. Places(Reads(c))' = {}
      BY <1>0, <1>1, <2>1, <3>3, TailPlaces DEF OneReader
    <3>5. reading'[c] = 1 /\ client'[c] = "served"
      BY <1>0, <2>3, <2>5, <3>1, <3>3
    <3>6. OneReader(c)'
      BY <2>2, <3>3, <3>4, <3>5 DEF OneReader, AtMostOne
    <3>7. Accepted(c)'
      BY <3>2, <3>5 DEF Accepted, AtMostOne
    <3> QED
      BY <3>6, <3>7
  <2> QED
    BY <2>4, <2>5
<1>4. CASE RunRead(t)
  <2> DEFINE d == Head(ready).connection
  <2>1. /\ Head(ready) = ReadHandler(d, FALSE) /\ ready # <<>> /\ ready' = Tail(ready)
        /\ UNCHANGED <<reading, client, chunks>>
        /\ thread' = [thread EXCEPT ![t] = AfterRead(d)]
    BY <1>2, <1>4, HandlerIs DEF RunRead, netVars
  <2>2. AfterRead(d).doing \in {"push", "read"} /\ AfterRead(d).connection = d
    BY DoingWhere DEF AfterRead
  <2> HIDE DEF d
  <2>3. CASE d # c
    <3>1. InRead(c)' = InRead(c) \ {t}
      BY <1>0, <2>1, <2>2, <2>3, InReadStep
    <3>2. t \notin InRead(c)
      BY <1>2, <1>4 DEF RunRead
    <3>3. InRead(c)' = InRead(c)
      BY <3>1, <3>2
    <3> QED
      BY <1>0, <1>1, <2>1, <3>3, SessionShrinks
  <2>4. CASE d = c
    <3>1. Head(ready) \in Reads(c)
      BY <2>1, <2>4, Zenon DEF Reads
    <3>2. Places(Reads(c)) # {} /\ Places(Reads(c))' = {}
      BY <1>0, <1>1, <2>1, <3>1, TailPlaces DEF OneReader
    <3>3. InRead(c) = {} /\ reading[c] = 0
      BY <1>0, <1>1, <3>2 DEF OneReader
    <3>4. InRead(c)' = {t}
      <4>1. InRead(c)' = InRead(c) \cup {t}
        BY <1>0, <2>1, <2>2, <2>4, InReadStep
      <4> QED
        BY <3>3, <4>1
    <3>5. /\ AtMostOne(Places({AcceptHandler(c)})')
          /\ Places({AcceptHandler(c)}) = {} => Places({AcceptHandler(c)})' = {}
      BY <1>0, <1>1, <2>1, TailPlaces DEF Accepted
    <3>6. client[c] \notin {"new", "waiting", "accepted"}
      BY <1>1, <3>2 DEF Accepted
    <3>7. OneReader(c)'
      BY <2>1, <3>2, <3>3, <3>4 DEF OneReader, AtMostOne
    <3>8. Accepted(c)'
      BY <1>1, <2>1, <3>5, <3>6 DEF Accepted, AtMostOne
    <3> QED
      BY <3>7, <3>8
  <2> QED
    BY <2>3, <2>4
<1>5. CASE RunReadFailed(t)
  <2> DEFINE d == Head(ready).connection
  <2>1. /\ Head(ready) = ReadHandler(d, TRUE) /\ ready # <<>> /\ ready' = Tail(ready)
        /\ UNCHANGED <<reading, thread, chunks>>
        /\ client' = [client EXCEPT ![d] = "closed"]
    BY <1>2, <1>5, HandlerIs DEF RunReadFailed
  <2>2. InRead(c)' = InRead(c)
    BY <2>1, ThreadsStay
  <2> HIDE DEF d
  <2>3. CASE d # c
    <3>1. client'[c] = client[c]
      BY <1>0, <2>1, <2>3
    <3> QED
      BY <1>0, <1>1, <2>1, <2>2, <3>1, SessionShrinks
  <2>4. CASE d = c
    <3>1. Head(ready) \in Reads(c)
      BY <2>1, <2>4, Zenon DEF Reads
    <3>2. Places(Reads(c)) # {} /\ Places(Reads(c))' = {}
      BY <1>0, <1>1, <2>1, <3>1, TailPlaces DEF OneReader
    <3>3. InRead(c) = {} /\ Places({AcceptHandler(c)}) = {}
      BY <1>1, <3>2 DEF OneReader, Accepted
    <3>4. Places({AcceptHandler(c)})' = {}
      BY <1>0, <1>1, <2>1, <3>3, TailPlaces DEF Accepted
    <3>5. client'[c] = "closed"
      BY <1>0, <2>1, <2>4
    <3>6. OneReader(c)'
      BY <1>1, <2>1, <2>2, <3>2, <3>3 DEF OneReader, AtMostOne
    <3>7. Accepted(c)'
      BY <3>4, <3>5 DEF Accepted, AtMostOne
    <3> QED
      BY <3>6, <3>7
  <2> QED
    BY <2>3, <2>4
<1>6. CASE Push(t)
  <2> DEFINE d == thread[t].connection
             next == IF thread[t].next < LastLogger
                       THEN Pushing(d, thread[t].chunk, thread[t].next + 1) ELSE Rereading(d)
  <2>1. /\ thread[t].doing = "push" /\ thread' = [thread EXCEPT ![t] = next]
        /\ UNCHANGED <<ready, reading, client, chunks>>
    BY <1>6 DEF Push, iocVars, netVars
  <2>2. next.doing \in {"push", "read"} /\ next.connection = d
    BY DoingWhere
  <2> HIDE DEF next
  <2>3. t \in InRead(c) <=> d = c
    BY <2>1 DEF InRead
  <2>4. InRead(c)' = InRead(c)
    <3> HIDE DEF d
    <3>1. CASE d = c
      <4>1. next.doing \in {"push", "read"} /\ next.connection = c
        BY <2>2, <3>1
      <4>2. InRead(c)' = InRead(c) \cup {t}
        BY <1>0, <2>1, <4>1, InReadStep
      <4> QED
        BY <2>3, <3>1, <4>2
    <3>2. CASE d # c
      <4>1. next.connection # c
        BY <2>2, <3>2
      <4>2. InRead(c)' = InRead(c) \ {t}
        BY <1>0, <2>1, <4>1, InReadStep
      <4> QED
        BY <2>3, <3>2, <4>2
    <3> QED
      BY <3>1, <3>2
  <2> QED
    BY <1>1, <2>1, <2>4, SessionUntouched
<1>7. CASE Reread(t)
  <2> DEFINE d == thread[t].connection
  <2>1. /\ thread[t].doing = "read" /\ thread' = [thread EXCEPT ![t] = Waiting]
        /\ reading' = [reading EXCEPT ![d] = @ + 1]
        /\ UNCHANGED <<ready, client, chunks>>
    BY <1>7 DEF Reread, netVars
  <2>2. InRead(c)' = InRead(c) \ {t}
    BY <1>0, <2>1, InReadStep, DoingDiffers
  <2>3. t \in InRead(c) <=> d = c
    BY <2>1 DEF InRead
  <2> HIDE DEF d
  <2>4. CASE d # c
    <3>1. reading'[c] = reading[c] /\ InRead(c)' = InRead(c)
      BY <1>0, <2>1, <2>2, <2>3, <2>4
    <3> QED
      BY <1>1, <2>1, <3>1, SessionUntouched
  <2>5. CASE d = c
    <3>1. t \in InRead(c)
      BY <2>3, <2>5
    <3>2. reading[c] = 0 /\ Places(Reads(c)) = {}
      BY <1>0, <1>1, <3>1 DEF OneReader
    <3>3. InRead(c)' = {}
      BY <1>1, <2>2, <3>1 DEF OneReader, AtMostOne
    <3>4. reading'[c] = 1
      BY <1>0, <2>1, <2>5, <3>2
    <3>5. Places(Reads(c))' = {}
      BY <2>1, <3>2, QueueStays
    <3>6. Places({AcceptHandler(c)})' = Places({AcceptHandler(c)})
      BY <2>1, QueueStays
    <3>7. client[c] \notin {"new", "waiting", "accepted"}
      BY <1>1, <3>1 DEF Accepted
    <3>8. OneReader(c)'
      BY <3>3, <3>4, <3>5 DEF OneReader, AtMostOne
    <3>9. Accepted(c)'
      BY <1>1, <2>1, <3>6, <3>7 DEF Accepted, AtMostOne
    <3> QED
      BY <3>8, <3>9
  <2> QED
    BY <2>4, <2>5
<1>8. CASE StartAccept(t) \/ Return(t)
  <2>1. PICK next :
          /\ thread' = [thread EXCEPT ![t] = next]
          /\ next.doing \in {"accept", "run", "returned"}
          /\ thread[t].doing \in {"accept", "run"}
          /\ UNCHANGED <<ready, reading, client, chunks>>
    BY <1>8, DoingDiffers DEF StartAccept, Return, iocVars, netVars
  <2>2. InRead(c)' = InRead(c) \ {t} /\ t \notin InRead(c)
    BY <1>0, <2>1, InReadStep DEF InRead
  <2> QED
    BY <1>1, <2>1, <2>2, SessionUntouched
<1> QED
  BY <1>3, <1>4, <1>5, <1>6, <1>7, <1>8 DEF ThreadNext

LEMMA SessionsStep == TypeOK /\ Sessions /\ [Next]_vars => Sessions'
<1> SUFFICES ASSUME TypeOK, Sessions, [Next]_vars
             PROVE  Sessions'
  OBVIOUS
<1>1. CASE Finished \/ UNCHANGED vars
  <2>1. UNCHANGED <<ready, thread, reading, client, chunks>>
    BY <1>1 DEF Finished, vars, iocVars, netVars
  <2>2. ASSUME NEW c \in Connections
        PROVE  OneReader(c)' /\ Accepted(c)'
    BY <2>1, ThreadsStay, SessionUntouched DEF Sessions
  <2> QED
    BY <2>2 DEF Sessions
<1> QED
  BY <1>1, SessionsOwner, SessionsNetwork, SessionsThread DEF Next
(* A set with at most one member counts for at most one.                   *)
LEMMA FewCount ==
  ASSUME NEW S, AtMostOne(S)
  PROVE  /\ S = {} => Cardinality(S) = 0
         /\ S # {} => Cardinality(S) = 1
<1>1. ASSUME NEW x \in S
      PROVE  S = {x}
  BY DEF AtMostOne
<1> QED
  BY <1>1, FS_EmptySet, FS_Singleton

LEMMA SessionsImplies == TypeOK /\ Sessions => OneReadPerSession
<1> SUFFICES ASSUME TypeOK, Sessions, NEW c \in Connections
             PROVE  reading[c] + Cardinality(QueuedReads(c)) + Cardinality(InRead(c)) <= 1
  BY DEF OneReadPerSession
<1>1. OneReader(c) /\ reading[c] \in {0, 1}
  BY DEF Sessions, OneReader, TypeOK
<1>2. QueuedReads(c) = Places(Reads(c))
  BY DEF QueuedReads, Places, Reads
<1>3. /\ Cardinality(QueuedReads(c)) = IF QueuedReads(c) = {} THEN 0 ELSE 1
      /\ Cardinality(InRead(c)) = IF InRead(c) = {} THEN 0 ELSE 1
  BY <1>1, <1>2, FewCount DEF OneReader
<1> QED
  BY <1>1, <1>2, <1>3 DEF OneReader

(* A session has one read outstanding, queued or being handled at a time   *)
(* (src/server.cpp:163-190), so its buffer and its processor, which have   *)
(* no lock, are used by one thread at a time, however many threads, clients *)
(* and acceptors there are.                                                *)
THEOREM SessionsAreNotShared == Spec => []OneReadPerSession
BY TypeInit, TypeStep, SessionsInit, SessionsStep, SessionsImplies, PTL DEF Spec
-------------------------------------------------------------------------------
(* Delivery.                                                               *)

(* What a logger was given; who is pushing, and who is to read again.      *)
Given(l) == Range(pushed[l])
Pushes(t, c) == thread[t].doing = "push" /\ thread[t].connection = c
Rereads(t, c) == thread[t].doing = "read" /\ thread[t].connection = c

(* The batch of a connection's last successful read, if that brought one.  *)
Current(c) == <<c, chunks[c]>>

(* What the loggers were given: nothing that did not come, and every batch *)
(* but the connections' current ones.                                      *)
Settled ==
  /\ \A c \in Connections : buffer[c] = chunks[c]
  /\ \A b \in brought : b[2] <= chunks[b[1]]
  /\ \A l \in LoggerNumbers : Given(l) \subseteq brought
  /\ \A l \in LoggerNumbers : \A b \in brought : b[2] < chunks[b[1]] => b \in Given(l)

(* Of a current batch, what its place says: a thread that pushes it has    *)
(* given it to the loggers before its next one; who reads again has given  *)
(* it to all; as long as its handler is queued no logger has it; and no    *)
(* batch is left half delivered.                                           *)
InFlight(c) ==
  /\ \A t \in Threads : Pushes(t, c) =>
       /\ thread[t].chunk = chunks[c] /\ Current(c) \in brought
       /\ \A l \in LoggerNumbers : Current(c) \in Given(l) <=> l < thread[t].next
  /\ (reading[c] > 0 \/ \E t \in Threads : Rereads(t, c)) /\ Current(c) \in brought =>
       \A l \in LoggerNumbers : Current(c) \in Given(l)
  /\ Places({ReadHandler(c, FALSE)}) # {} => \A l \in LoggerNumbers : Current(c) \notin Given(l)
  /\ \A k, l \in LoggerNumbers :
       Current(c) \in Given(k) /\ Current(c) \notin Given(l) => \E t \in Threads : Pushes(t, c)

Delivery == Settled /\ \A c \in Connections : InFlight(c)

LEMMA DeliveryInit == Init => Delivery
<1> SUFFICES ASSUME Init
             PROVE  Delivery
  OBVIOUS
<1>1. \A l \in LoggerNumbers : Given(l) = {}
  BY DEF Init, Given, Range
<1>2. \A t \in Threads : thread[t].doing = "unborn"
  BY DoingDiffers DEF Init
<1>3. Settled
  BY <1>1 DEF Init, Settled
<1>4. ASSUME NEW c \in Connections
      PROVE  InFlight(c)
  BY <1>1, <1>2 DEF Init, InFlight, Pushes, Rereads
<1> QED
  BY <1>3, <1>4 DEF Delivery

LEMMA RangeAppend ==
  ASSUME NEW S, NEW seq \in Seq(S), NEW x \in S
  PROVE  Range(Append(seq, x)) = Range(seq) \cup {x}
<1>1. Append(seq, x) \in Seq(S) /\ Len(Append(seq, x)) = Len(seq) + 1 /\ Len(seq) \in Nat
  BY AppendProperties, LenProperties
<1>2. /\ Range(seq) = {seq[i] : i \in 1 .. Len(seq)}
      /\ Range(Append(seq, x)) = {Append(seq, x)[i] : i \in 1 .. Len(Append(seq, x))}
  BY <1>1, RangeEquality
<1>3. /\ \A i \in 1 .. Len(seq) : Append(seq, x)[i] = seq[i]
      /\ Append(seq, x)[Len(seq) + 1] = x
  BY AppendProperties
<1>4. 1 .. Len(seq) + 1 = 1 .. Len(seq) \cup {Len(seq) + 1}
  BY <1>1
<1> QED
  BY <1>1, <1>2, <1>3, <1>4

LEMMA BatchFields ==
  ASSUME TypeOK, NEW b \in brought
  PROVE  /\ b[1] \in Connections /\ b[2] \in 1 .. MaxChunks
         /\ b = <<b[1], b[2]>>
BY DEF TypeOK, Batch

(* Steps that push nothing and bring nothing.                              *)
LEMMA DeliveryStays ==
  ASSUME Delivery, UNCHANGED <<buffer, chunks, brought, pushed>>,
         \A u \in Threads : \/ thread'[u] = thread[u]
                            \/ thread[u].doing # "push" /\ thread'[u].doing # "push",
         \A c \in Connections :
           (reading'[c] > 0 \/ \E t \in Threads : Rereads(t, c)') =>
             \/ reading[c] > 0 \/ \E t \in Threads : Rereads(t, c)
             \/ Current(c) \notin brought,
         \A c \in Connections :
           Places({ReadHandler(c, FALSE)})' # {} => Places({ReadHandler(c, FALSE)}) # {}
  PROVE  Delivery'
<1>1. \A l : Given(l)' = Given(l)
  BY DEF Given
<1>2. Settled'
  BY <1>1 DEF Delivery, Settled
<1>3. ASSUME NEW c \in Connections
      PROVE  InFlight(c)'
  <2>1. InFlight(c) /\ Current(c)' = Current(c)
    BY DEF Delivery, Current
  <2>2. \A u \in Threads : /\ Pushes(u, c)' => Pushes(u, c) /\ thread'[u] = thread[u]
                           /\ Pushes(u, c) => Pushes(u, c)'
    BY DEF Pushes
  <2> QED
    BY <1>1, <2>1, <2>2 DEF InFlight
<1> QED
  BY <1>2, <1>3 DEF Delivery
LEMMA DeliveryReadCompletes ==
  ASSUME TypeOK, Sessions, Delivery, NEW d \in Connections, ReadCompletes(d)
  PROVE  Delivery'
<1> DEFINE k == chunks[d] + 1
<1>0. /\ ready \in Seq(Handler) /\ reading \in [Connections -> Nat]
      /\ chunks \in [Connections -> 0 .. MaxChunks] /\ buffer \in [Connections -> 0 .. MaxChunks]
      /\ MaxChunks \in Nat
  BY BoundAssumption DEF TypeOK
<1>1. /\ reading[d] > 0 /\ reading' = [reading EXCEPT ![d] = @ - 1]
      /\ chunks' = [chunks EXCEPT ![d] = k] /\ buffer' = [buffer EXCEPT ![d] = k]
      /\ brought' = brought \/ brought' = brought \cup {<<d, k>>}
      /\ ready' = Append(ready, ReadHandler(d, FALSE))
      /\ UNCHANGED <<thread, pushed>>
  BY DEF ReadCompletes, logVars
<1>2. k \in Nat /\ chunks'[d] = k /\ buffer'[d] = k
  BY <1>0, <1>1
<1>3. \A c \in Connections \ {d} :
        chunks'[c] = chunks[c] /\ buffer'[c] = buffer[c] /\ reading'[c] = reading[c]
  BY <1>0, <1>1
<1>4. reading'[d] = 0 /\ InRead(d) = {}
  <2>1. OneReader(d)
    BY DEF Sessions
  <2>2. reading[d] = 1
    BY <1>0, <1>1, <2>1 DEF OneReader
  <2> QED
    BY <1>0, <1>1, <2>1, <2>2 DEF OneReader
<1>5. \A l : Given(l)' = Given(l)
  BY <1>1 DEF Given
<1>6. \A b \in brought : b[1] \in Connections /\ b[2] \in Nat /\ b[2] <= chunks[b[1]]
  BY BatchFields DEF Delivery, Settled
<1>7. <<d, k>> \notin brought /\ \A l \in LoggerNumbers : <<d, k>> \notin Given(l)
  <2>1. <<d, k>> \notin brought
    BY <1>0, <1>6
  <2> QED
    BY <2>1 DEF Delivery, Settled
<1>8. InFlight(d)
  BY DEF Delivery
<1> HIDE DEF k
<1>9. Settled'
  <2>1. \A c \in Connections : buffer'[c] = chunks'[c]
    BY <1>2, <1>3 DEF Delivery, Settled
  <2>2. ASSUME NEW b \in brought'
        PROVE  b[2] <= chunks'[b[1]]
    <3>1. CASE b \in brought
      <4>1. CASE b[1] = d
        BY <1>0, <1>2, <1>6, <3>1, <4>1 DEF k
      <4>2. CASE b[1] # d
        BY <1>3, <1>6, <3>1, <4>2
      <4> QED
        BY <4>1, <4>2
    <3>2. CASE b = <<d, k>>
      BY <1>2, <3>2
    <3> QED
      BY <1>1, <2>2, <3>1, <3>2
  <2>3. \A l \in LoggerNumbers : Given(l)' \subseteq brought'
    BY <1>1, <1>5 DEF Delivery, Settled
  <2>4. ASSUME NEW l \in LoggerNumbers, NEW b \in brought', b[2] < chunks'[b[1]]
        PROVE  b \in Given(l)'
    <3>1. b \in brought
      BY <1>1, <1>2, <2>4
    <3>2. CASE b[2] < chunks[b[1]]
      BY <1>5, <3>1, <3>2 DEF Delivery, Settled
    <3>3. CASE ~(b[2] < chunks[b[1]])
      <4>1. b[1] = d
        BY <1>3, <1>6, <2>4, <3>1, <3>3
      <4>2. b[2] = chunks[d]
        BY <1>0, <1>6, <3>1, <3>3, <4>1
      <4>3. b = Current(d)
        BY <3>1, <4>1, <4>2, BatchFields DEF Current
      <4> QED
        BY <1>1, <1>5, <1>8, <3>1, <4>3 DEF InFlight
    <3> QED
      BY <3>2, <3>3
  <2> QED
    BY <2>1, <2>2, <2>3, <2>4 DEF Settled
<1>10. ASSUME NEW c \in Connections
       PROVE  InFlight(c)'
  <2>1. \A u \in Threads : (Pushes(u, c)' <=> Pushes(u, c)) /\ (Rereads(u, c)' <=> Rereads(u, c))
    BY <1>1 DEF Pushes, Rereads
  <2>2. CASE c = d
    <3>1. \A u \in Threads : ~Pushes(u, d) /\ ~Rereads(u, d)
      BY <1>4 DEF Pushes, Rereads, InRead
    <3>2. Current(d)' = <<d, k>>
      BY <1>2 DEF Current
    <3> QED
      BY <1>4, <1>5, <1>7, <2>1, <2>2, <3>1, <3>2 DEF InFlight
  <2>3. CASE c # d
    <3>1. Current(c)' = Current(c) /\ reading'[c] = reading[c] /\ chunks'[c] = chunks[c]
      BY <1>3, <2>3 DEF Current
    <3>2. Current(c) \in brought' <=> Current(c) \in brought
      BY <1>1, <2>3 DEF Current
    <3>3. Places({ReadHandler(c, FALSE)})' = Places({ReadHandler(c, FALSE)})
      <4>1. ReadHandler(d, FALSE) \notin {ReadHandler(c, FALSE)}
        BY <2>3, HandlersDiffer
      <4>2. ReadHandler(d, FALSE) \in Handler
        BY HandlersMade
      <4> QED
        BY <1>0, <1>1, <4>1, <4>2, AppendPlaces
    <3>4. InFlight(c)
      BY DEF Delivery
    <3> QED
      BY <1>1, <1>5, <2>1, <3>1, <3>2, <3>3, <3>4 DEF InFlight
  <2> QED
    BY <2>2, <2>3
<1> QED
  BY <1>9, <1>10 DEF Delivery

LEMMA DeliveryRunRead ==
  ASSUME TypeOK, Sessions, Delivery, NEW t \in Threads, RunRead(t)
  PROVE  Delivery'
<1>0. /\ ready \in Seq(Handler) /\ thread \in [Threads -> Doing]
  BY DEF TypeOK
<1>1. /\ ready # <<>> /\ Head(ready) \in Handler
      /\ thread[t].doing = "run"
  BY <1>0, HeadTailProperties, DoingDiffers DEF RunRead, MayRun
<1>2. PICK d \in Connections : d = Head(ready).connection /\ Head(ready) = ReadHandler(d, FALSE)
  BY <1>1, HandlerIs, HandlerFields DEF RunRead
<1>3. /\ ready' = Tail(ready) /\ UNCHANGED <<reading, buffer, chunks, brought, pushed>>
      /\ thread' = [thread EXCEPT ![t] = AfterRead(d)]
  BY <1>2 DEF RunRead, netVars, logVars
<1>4. ASSUME NEW c \in Connections
      PROVE  AtMostOne(Places({ReadHandler(c, FALSE)}))
  <2>1. AtMostOne(Places(Reads(c)))
    BY DEF Sessions, OneReader
  <2>2. \A i \in Places({ReadHandler(c, FALSE)}) : i \in Places(Reads(c))
    BY Zenon DEF Places, Reads
  <2> QED
    BY <2>1, <2>2, Zenon DEF AtMostOne
<1>5. /\ \A c \in Connections :
           Places({ReadHandler(c, FALSE)}) = {} => Places({ReadHandler(c, FALSE)})' = {}
      /\ Places({ReadHandler(d, FALSE)}) # {} /\ Places({ReadHandler(d, FALSE)})' = {}
  <2>1. ASSUME NEW c \in Connections
        PROVE  /\ Places({ReadHandler(c, FALSE)}) = {} => Places({ReadHandler(c, FALSE)})' = {}
               /\ Head(ready) \in {ReadHandler(c, FALSE)} =>
                    Places({ReadHandler(c, FALSE)}) # {} /\ Places({ReadHandler(c, FALSE)})' = {}
    BY <1>0, <1>1, <1>3, <1>4, TailPlaces
  <2> QED
    BY <1>2, <2>1
<1>6. \A l : Given(l)' = Given(l)
  BY <1>3 DEF Given
<1>7. Settled'
  BY <1>3, <1>6 DEF Delivery, Settled
<1>8. /\ thread'[t] = AfterRead(d)
      /\ \A u \in Threads \ {t} : thread'[u] = thread[u]
  BY <1>0, <1>3
<1>9. ASSUME NEW c \in Connections
      PROVE  InFlight(c)'
  <2>1. InFlight(c) /\ Current(c)' = Current(c)
    BY <1>3 DEF Delivery, Current
  <2>2. ~Pushes(t, c) /\ ~Rereads(t, c)
    BY <1>1 DEF Pushes, Rereads
  <2>3. \A u \in Threads \ {t} :
          (Pushes(u, c)' <=> Pushes(u, c)) /\ (Rereads(u, c)' <=> Rereads(u, c))
    BY <1>8 DEF Pushes, Rereads
  <2>4. CASE c # d
    <3>1. AfterRead(d).connection # c
      BY <2>4, DoingWhere DEF AfterRead
    <3>2. ~Pushes(t, c)' /\ ~Rereads(t, c)'
      BY <1>8, <3>1 DEF Pushes, Rereads
    <3> QED
      BY <1>3, <1>5, <1>6, <1>8, <2>1, <2>2, <2>3, <3>2 DEF InFlight
  <2>5. CASE c = d
    <3>1. \A l \in LoggerNumbers : Current(c) \notin Given(l)
      BY <1>5, <2>1, <2>5 DEF InFlight
    <3>2. reading[c] = 0 /\ \A u \in Threads : ~Pushes(u, c) /\ ~Rereads(u, c)
      <4>1. Places(Reads(c)) # {}
        BY <1>5, <2>5 DEF Places, Reads
      <4>2. reading[c] \in Nat /\ OneReader(c)
        BY DEF TypeOK, Sessions
      <4>3. reading[c] = 0
        BY <4>1, <4>2 DEF OneReader
      <4>4. InRead(c) = {}
        BY <4>1, <4>2 DEF OneReader
      <4> QED
        BY <4>3, <4>4 DEF InRead, Pushes, Rereads
    <3>3. Current(c) = <<d, buffer[d]>>
      BY <1>2, <2>5 DEF Current, Delivery, Settled
    <3>4. CASE Current(c) \in brought
      <4>1. thread'[t] = Pushing(d, chunks[c], 1)
        BY <1>2, <1>8, <2>5, <3>3, <3>4 DEF AfterRead, Delivery, Settled
      <4>2. thread'[t].doing = "push" /\ thread'[t].chunk = chunks[c] /\ thread'[t].next = 1
        BY <4>1, DoingWhere
      <4>3. ~Rereads(t, c)'
        BY <4>2 DEF Rereads
      <4>4. \A l \in LoggerNumbers : ~(l < 1)
        BY DEF LoggerNumbers
      <4> QED
        BY <1>3, <1>5, <1>6, <2>1, <2>3, <2>5, <3>1, <3>2, <3>4, <4>2, <4>3, <4>4 DEF InFlight
    <3>5. CASE Current(c) \notin brought
      <4>1. thread'[t].doing = "read"
        BY <1>8, <3>3, <3>5, DoingWhere DEF AfterRead
      <4>2. ~Pushes(t, c)'
        BY <4>1 DEF Pushes
      <4> QED
        BY <1>3, <1>5, <1>6, <2>1, <2>3, <2>5, <3>1, <3>2, <3>5, <4>2 DEF InFlight
    <3> QED
      BY <3>4, <3>5
  <2> QED
    BY <2>4, <2>5
<1> QED
  BY <1>7, <1>9 DEF Delivery
LEMMA DeliveryPush ==
  ASSUME TypeOK, Sessions, Delivery, NEW t \in Threads, Push(t)
  PROVE  Delivery'
<1>0. /\ thread \in [Threads -> Doing] /\ pushed \in [LoggerNumbers -> Seq(Batch)]
      /\ Loggers \in Nat \ {0}
  BY CountAssumption DEF TypeOK
<1>1. PICK d \in Connections, n \in LoggerNumbers :
        /\ thread[t].doing = "push" /\ thread[t].connection = d /\ thread[t].next = n
        /\ n \in Nat /\ n <= Loggers
  BY <1>0, DoingFields DEF Push, LoggerNumbers
<1>2. Pushes(t, d)
  BY <1>1 DEF Pushes
<1>3. /\ thread[t].chunk = chunks[d] /\ Current(d) \in brought
      /\ \A l \in LoggerNumbers : Current(d) \in Given(l) <=> l < n
  BY <1>1, <1>2 DEF Delivery, InFlight
<1>4. /\ pushed' = [pushed EXCEPT ![n] = Append(@, Current(d))]
      /\ thread' = [thread EXCEPT ![t] =
           IF n < Loggers THEN Pushing(d, chunks[d], n + 1) ELSE Rereading(d)]
      /\ UNCHANGED <<ready, reading, buffer, chunks, brought>>
  BY <1>1, <1>3 DEF Push, LastLogger, Current, iocVars, netVars
<1>5. /\ Given(n)' = Given(n) \cup {Current(d)}
      /\ \A l \in LoggerNumbers \ {n} : Given(l)' = Given(l)
  <2>1. Current(d) \in Batch
    BY <1>3 DEF TypeOK
  <2>2. /\ pushed'[n] = Append(pushed[n], Current(d)) /\ pushed[n] \in Seq(Batch)
        /\ \A l \in LoggerNumbers \ {n} : pushed'[l] = pushed[l]
    BY <1>0, <1>1, <1>4
  <2>3. Range(pushed'[n]) = Range(pushed[n]) \cup {Current(d)}
    BY <2>1, <2>2, RangeAppend
  <2> QED
    BY <2>2, <2>3 DEF Given
<1>6. \A l \in LoggerNumbers :
        Current(d) \in Given(l)' <=> l < n + 1
  <2>1. \A l \in LoggerNumbers : l \in Nat /\ (l < n + 1 <=> l = n \/ l < n)
    BY <1>1 DEF LoggerNumbers
  <2> QED
    BY <1>1, <1>3, <1>5, <2>1
<1>7. \A u \in Threads \ {t} : thread'[u] = thread[u]
  BY <1>0, <1>4
<1>8. Settled'
  <2>1. \A l \in LoggerNumbers : Given(l) \subseteq Given(l)' /\ Given(l)' \subseteq brought
    BY <1>3, <1>5 DEF Delivery, Settled
  <2> QED
    BY <1>4, <2>1 DEF Delivery, Settled
<1>9. ASSUME NEW c \in Connections
      PROVE  InFlight(c)'
  <2>1. InFlight(c) /\ Current(c)' = Current(c)
    BY <1>4 DEF Delivery, Current
  <2>2. \A u \in Threads \ {t} :
          (Pushes(u, c)' <=> Pushes(u, c)) /\ (Rereads(u, c)' <=> Rereads(u, c))
    BY <1>7 DEF Pushes, Rereads
  <2>3. Places({ReadHandler(c, FALSE)})' = Places({ReadHandler(c, FALSE)})
    BY <1>4, QueueStays
  <2>4. CASE c # d
    <3>1. Current(c) # Current(d)
      BY <2>4 DEF Current
    <3>2. \A l \in LoggerNumbers : Current(c) \in Given(l)' <=> Current(c) \in Given(l)
      BY <1>5, <3>1
    <3>3. thread'[t].connection = d
      BY <1>0, <1>4, DoingWhere
    <3>4. ~Pushes(t, c) /\ ~Rereads(t, c)
      BY <1>1, <2>4 DEF Pushes, Rereads
    <3>5. ~Pushes(t, c)' /\ ~Rereads(t, c)'
      BY <2>4, <3>3 DEF Pushes, Rereads
    <3> QED
      BY <1>4, <1>7, <2>1, <2>2, <2>3, <3>2, <3>4, <3>5 DEF InFlight
  <2>5. CASE c = d
    <3>1. t \in InRead(c)
      BY <1>1, <2>5 DEF InRead
    <3>2. reading[c] = 0 /\ Places(Reads(c)) = {} /\ AtMostOne(InRead(c))
      <4>1. reading[c] \in Nat /\ OneReader(c)
        BY DEF TypeOK, Sessions
      <4> QED
        BY <3>1, <4>1 DEF OneReader
    <3>3. \A u \in Threads \ {t} : ~Pushes(u, c) /\ ~Rereads(u, c)
      BY <3>1, <3>2 DEF InRead, Pushes, Rereads, AtMostOne
    <3>4. Places({ReadHandler(c, FALSE)}) = {}
      BY <3>2, Zenon DEF Places, Reads
    <3>5. CASE n < Loggers
      <4>1. thread'[t] = Pushing(d, chunks[d], n + 1)
        BY <1>0, <1>4, <3>5
      <4>2. /\ thread'[t].doing = "push" /\ thread'[t].connection = c
            /\ thread'[t].chunk = chunks[c] /\ thread'[t].next = n + 1
        BY <2>5, <4>1, DoingWhere
      <4>3. Pushes(t, c)' /\ ~Rereads(t, c)'
        BY <4>2 DEF Pushes, Rereads
      <4>4. \A u \in Threads : (Pushes(u, c)' => u = t) /\ ~Rereads(u, c)'
        BY <2>2, <3>3, <4>3
      <4>5. /\ thread'[t].chunk = chunks'[c] /\ Current(c)' \in brought'
            /\ \A l \in LoggerNumbers : Current(c)' \in Given(l)' <=> l < thread'[t].next
        BY <1>3, <1>4, <1>6, <2>1, <2>5, <4>2
      <4>6. reading'[c] = 0 /\ Places({ReadHandler(c, FALSE)})' = {}
        BY <1>4, <2>3, <3>2, <3>4
      <4>7. \A u \in Threads : Pushes(u, c)' =>
              /\ thread'[u].chunk = chunks'[c] /\ Current(c)' \in brought'
              /\ \A l \in LoggerNumbers : Current(c)' \in Given(l)' <=> l < thread'[u].next
        BY <4>4, <4>5
      <4>8. ~(reading'[c] > 0 \/ \E u \in Threads : Rereads(u, c)')
        BY <4>4, <4>6
      <4> QED
        BY <4>3, <4>6, <4>7, <4>8, Zenon DEF InFlight
    <3>6. CASE ~(n < Loggers)
      <4>1. \A l \in LoggerNumbers : l < n + 1
        BY <1>0, <1>1, <3>6 DEF LoggerNumbers
      <4>2. thread'[t].doing = "read"
        BY <1>0, <1>4, <3>6, DoingWhere
      <4>3. ~Pushes(t, c)'
        BY <4>2 DEF Pushes
      <4> QED
        BY <1>6, <2>1, <2>2, <2>3, <2>5, <3>3, <3>4, <4>1, <4>3 DEF InFlight
    <3> QED
      BY <3>5, <3>6
  <2> QED
    BY <2>4, <2>5
<1> QED
  BY <1>8, <1>9 DEF Delivery
LEMMA DeliveryStep == TypeOK /\ Sessions /\ Delivery /\ [Next]_vars => Delivery'
<1> SUFFICES ASSUME TypeOK, Sessions, Delivery, [Next]_vars
             PROVE  Delivery'
  OBVIOUS
<1>0. /\ ready \in Seq(Handler) /\ reading \in [Connections -> Nat]
      /\ thread \in [Threads -> Doing]
  BY DEF TypeOK
<1>1. ASSUME UNCHANGED <<buffer, chunks, brought, pushed, reading, thread>>,
             ASSUME NEW c \in Connections
             PROVE  Places({ReadHandler(c, FALSE)})' # {} => Places({ReadHandler(c, FALSE)}) # {}
      PROVE  Delivery'
  <2>1. \A c \in Connections :
          (reading'[c] > 0 \/ \E t \in Threads : Rereads(t, c)') =>
             reading[c] > 0 \/ \E t \in Threads : Rereads(t, c)
    BY <1>1 DEF Rereads
  <2> QED
    BY <1>1, <2>1, DeliveryStays
<1>2. ASSUME UNCHANGED ready, NEW c \in Connections
      PROVE  Places({ReadHandler(c, FALSE)})' = Places({ReadHandler(c, FALSE)})
  BY <1>2, QueueStays
<1>3. ASSUME NEW h \in Handler, ready' = Append(ready, h), NEW c \in Connections,
             h # ReadHandler(c, FALSE)
      PROVE  Places({ReadHandler(c, FALSE)})' = Places({ReadHandler(c, FALSE)})
  BY <1>0, <1>3, AppendPlaces
<1>4. ASSUME NEW c \in Connections
      PROVE  AtMostOne(Places({ReadHandler(c, FALSE)}))
  <2>1. AtMostOne(Places(Reads(c)))
    BY DEF Sessions, OneReader
  <2>2. \A i \in Places({ReadHandler(c, FALSE)}) : i \in Places(Reads(c))
    BY Zenon DEF Places, Reads
  <2> QED
    BY <2>1, <2>2, Zenon DEF AtMostOne
<1>5. ASSUME ready # <<>>, ready' = Tail(ready), NEW c \in Connections
      PROVE  Places({ReadHandler(c, FALSE)})' # {} => Places({ReadHandler(c, FALSE)}) # {}
  BY <1>0, <1>4, <1>5, TailPlaces
<1>6. ASSUME NEW t \in Threads, NEW d, thread' = [thread EXCEPT ![t] = d],
             thread[t].doing \notin {"push", "read"}, d.doing \notin {"push", "read"},
             UNCHANGED <<buffer, chunks, brought, pushed>>,
             ASSUME NEW c \in Connections
             PROVE  /\ Places({ReadHandler(c, FALSE)})' # {} => Places({ReadHandler(c, FALSE)}) # {}
                    /\ reading'[c] > 0 => reading[c] > 0 \/ Current(c) \notin brought
      PROVE  Delivery'
  <2>1. thread'[t] = d /\ \A u \in Threads \ {t} : thread'[u] = thread[u]
    BY <1>0, <1>6
  <2>2. \A u \in Threads : \A c \in Connections : Rereads(u, c)' => Rereads(u, c)
    BY <1>6, <2>1 DEF Rereads
  <2> QED
    BY <1>6, <2>1, <2>2, DeliveryStays
<1>7. CASE OwnerNext \/ Shutdown
  <2>1. ASSUME NEW t \in Threads, StartThread(t) \/ StoreFails(t)
        PROVE  Delivery'
    <3>1. /\ thread' = [thread EXCEPT ![t] = Waiting] /\ thread[t] = Unborn
          /\ UNCHANGED <<ready, reading, buffer, chunks, brought, pushed>>
      BY <2>1 DEF StartThread, StoreFails, iocVars, netVars, logVars
    <3> QED
      BY <1>2, <1>6, <3>1, DoingDiffers
  <2>2. CASE StartFails \/ Serve \/ Join \/ DestroyLogger \/ Shutdown
    <3>1. UNCHANGED <<ready, reading, buffer, chunks, brought, pushed, thread>>
      BY <2>2 DEF StartFails, Serve, Join, DestroyLogger, Shutdown, iocVars, netVars, logVars
    <3> QED
      BY <1>1, <1>2, <3>1
  <2>3. CASE DestroyRest
    <3>1. /\ ready' = <<>> /\ \A c \in Connections : reading'[c] = 0
          /\ UNCHANGED <<buffer, chunks, brought, pushed, thread>>
      BY <2>3 DEF DestroyRest, logVars
    <3>2. \A c \in Connections : Places({ReadHandler(c, FALSE)})' = {}
      BY <3>1 DEF Places
    <3>3. \A u \in Threads : \A c \in Connections : Rereads(u, c)' => Rereads(u, c)
      BY <3>1 DEF Rereads
    <3>4. \A c \in Connections : ~(reading'[c] > 0)
      BY <3>1
    <3> QED
      BY <3>1, <3>2, <3>3, <3>4, DeliveryStays
  <2> QED
    BY <1>7, <2>1, <2>2, <2>3 DEF OwnerNext
<1>8. CASE NetworkNext
  <2>1. ASSUME NEW c \in Connections, Connect(c)
        PROVE  Delivery'
    BY <1>1, <1>2, <2>1 DEF Connect, iocVars, logVars
  <2>2. ASSUME NEW d \in Connections \cup {NoConnection}, ready' = Append(ready, AcceptHandler(d)),
               UNCHANGED <<reading, thread, buffer, chunks, brought, pushed>>
        PROVE  Delivery'
    <3>1. AcceptHandler(d) \in Handler /\ \A c : AcceptHandler(d) # ReadHandler(c, FALSE)
      BY HandlersMade, HandlersDiffer
    <3> QED
      BY <1>1, <1>3, <2>2, <3>1
  <2>3. ASSUME NEW d \in Connections, AcceptCompletes(d)
        PROVE  Delivery'
    BY <2>2, <2>3 DEF AcceptCompletes, logVars
  <2>4. ASSUME NEW a \in AcceptorNumbers, AcceptFails(a)
        PROVE  Delivery'
    BY <2>2, <2>4 DEF AcceptFails, logVars
  <2>5. ASSUME NEW d \in Connections, ReadFails(d)
        PROVE  Delivery'
    <3>1. /\ reading[d] > 0 /\ reading' = [reading EXCEPT ![d] = @ - 1]
          /\ ready' = Append(ready, ReadHandler(d, TRUE))
          /\ UNCHANGED <<thread, buffer, chunks, brought, pushed>>
      BY <2>5 DEF ReadFails, netVars, logVars
    <3>2. ReadHandler(d, TRUE) \in Handler
      BY HandlersMade
    <3>3. \A c \in Connections : ReadHandler(d, TRUE) # ReadHandler(c, FALSE)
      BY DEF ReadHandler
    <3>4. \A c \in Connections : reading'[c] > 0 => reading[c] > 0
      BY <1>0, <3>1
    <3>5. \A u \in Threads : \A c \in Connections : Rereads(u, c)' => Rereads(u, c)
      BY <3>1 DEF Rereads
    <3> QED
      BY <1>3, <3>1, <3>2, <3>3, <3>4, <3>5, DeliveryStays
  <2> QED
    BY <1>8, <2>1, <2>3, <2>4, <2>5, DeliveryReadCompletes DEF NetworkNext
<1>9. ASSUME NEW t \in Threads, ThreadNext(t)
      PROVE  Delivery'
  <2>1. CASE RunAccept(t)
    <3>1. PICK d : d = Head(ready).connection
      OBVIOUS
    <3>2. /\ thread' = [thread EXCEPT ![t] = Accepting(1)] /\ thread[t] = Waiting
          /\ ready # <<>> /\ ready' = Tail(ready) /\ Head(ready).kind = "accept"
          /\ \/ UNCHANGED reading
             \/ reading' = [reading EXCEPT ![d] = @ + 1]
          /\ UNCHANGED <<buffer, chunks, brought, pushed>>
      BY <2>1, <3>1 DEF RunAccept, MayRun, AcceptAgain, logVars
    <3>3. Head(ready) = AcceptHandler(d)
      BY <1>0, <3>1, <3>2, HeadTailProperties, HandlerIs
    <3>4. ASSUME NEW c \in Connections, reading'[c] > 0
          PROVE  reading[c] > 0 \/ Current(c) \notin brought
      <4>1. CASE c = d
        <5>1. Accepted(c)
          BY DEF Sessions
        <5>2. Places({AcceptHandler(c)}) # {}
          BY <1>0, <3>2, <3>3, <4>1, <5>1, TailPlaces DEF Accepted
        <5>3. chunks[c] = 0
          BY <5>1, <5>2 DEF Accepted
        <5> QED
          BY <5>3, BatchFields DEF Current
      <4>2. CASE c # d
        BY <1>0, <3>2, <3>4, <4>2
      <4> QED
        BY <4>1, <4>2
    <3> QED
      BY <1>5, <1>6, <3>2, <3>4, DoingDiffers
  <2>2. CASE StartAccept(t) \/ Return(t)
    <3>1. PICK d :
            /\ thread' = [thread EXCEPT ![t] = d] /\ d.doing \notin {"push", "read"}
            /\ thread[t].doing \notin {"push", "read"}
            /\ UNCHANGED <<ready, reading, buffer, chunks, brought, pushed>>
      BY <2>2, DoingDiffers DEF StartAccept, Return, iocVars, netVars, logVars
    <3> QED
      BY <1>2, <1>6, <3>1
  <2>3. CASE RunReadFailed(t)
    <3>1. /\ ready # <<>> /\ ready' = Tail(ready)
          /\ UNCHANGED <<reading, thread, buffer, chunks, brought, pushed>>
      BY <2>3 DEF RunReadFailed, MayRun, logVars
    <3> QED
      BY <1>1, <1>5, <3>1
  <2>4. CASE Reread(t)
    <3>1. PICK d \in Connections : d = thread[t].connection
      BY <1>0, <2>4, DoingFields DEF Reread
    <3>2. /\ thread' = [thread EXCEPT ![t] = Waiting] /\ Rereads(t, d)
          /\ reading' = [reading EXCEPT ![d] = @ + 1]
          /\ UNCHANGED <<ready, buffer, chunks, brought, pushed>>
      BY <2>4, <3>1 DEF Reread, Rereads, netVars, logVars
    <3>3. /\ thread[t].doing # "push" /\ thread'[t] = Waiting
          /\ \A u \in Threads \ {t} : thread'[u] = thread[u]
      BY <1>0, <3>2 DEF Rereads
    <3>4. \A u \in Threads : \A c \in Connections : Rereads(u, c)' => Rereads(u, c)
      BY <3>3, DoingDiffers DEF Rereads
    <3>5. \A c \in Connections : reading'[c] > 0 => reading[c] > 0 \/ Rereads(t, c)
      BY <1>0, <3>2
    <3> QED
      BY <1>2, <3>2, <3>3, <3>4, <3>5, DoingDiffers, DeliveryStays
  <2> QED
    BY <1>9, <2>1, <2>2, <2>3, <2>4, DeliveryRunRead, DeliveryPush DEF ThreadNext
<1>10. CASE Finished \/ UNCHANGED vars
  BY <1>1, <1>2, <1>10 DEF Finished, vars, iocVars, netVars, logVars
<1> QED
  BY <1>7, <1>8, <1>9, <1>10 DEF Next
(* A batch that one logger has and another does not is its connection's    *)
(* current one, and a thread is pushing it.                                *)
LEMMA HalfDelivered ==
  ASSUME TypeOK, Delivery, NEW k \in LoggerNumbers, NEW l \in LoggerNumbers,
         NEW b \in Given(k), b \notin Given(l)
  PROVE  \E t \in Threads :
           /\ thread[t].doing = "push" /\ b = <<thread[t].connection, thread[t].chunk>>
           /\ k < thread[t].next /\ ~(l < thread[t].next)
<1>1. b \in brought /\ b[1] \in Connections /\ b[2] \in Nat /\ b = <<b[1], b[2]>>
  BY BatchFields DEF Delivery, Settled
<1>2. b[2] = chunks[b[1]]
  <2>1. b[2] <= chunks[b[1]] /\ ~(b[2] < chunks[b[1]]) /\ chunks[b[1]] \in Nat
    BY <1>1 DEF Delivery, Settled, TypeOK
  <2> QED
    BY <1>1, <2>1
<1>3. b = Current(b[1]) /\ InFlight(b[1])
  BY <1>1, <1>2 DEF Current, Delivery
<1>4. PICK t \in Threads : Pushes(t, b[1])
  BY <1>3 DEF InFlight
<1>5. /\ thread[t].doing = "push" /\ thread[t].connection = b[1]
      /\ thread[t].chunk = b[2] /\ k < thread[t].next /\ ~(l < thread[t].next)
  BY <1>2, <1>3, <1>4 DEF InFlight, Pushes
<1> QED
  BY <1>1, <1>5

LEMMA DeliveryImplies == TypeOK /\ Phases /\ Delivery => AllOrNothing
<1> SUFFICES ASSUME TypeOK, Phases, Delivery
             PROVE  AllOrNothing
  OBVIOUS
<1> DEFINE Between(k, l) == {<<thread[t].connection, thread[t].chunk>> :
             t \in {u \in Threads : thread[u].doing = "push" /\ k < thread[u].next
                                      /\ thread[u].next <= l}}
<1>1. ASSUME NEW t \in Threads, thread[t].doing = "push"
      PROVE  /\ thread[t].next \in LoggerNumbers /\ thread[t].connection \in Connections
             /\ \A l \in LoggerNumbers :
                  <<thread[t].connection, thread[t].chunk>> \in Given(l) <=> l < thread[t].next
  <2>1. /\ thread[t].next \in LoggerNumbers /\ thread[t].connection \in Connections
    BY <1>1, DoingFields DEF TypeOK
  <2>2. Pushes(t, thread[t].connection) /\ InFlight(thread[t].connection)
    BY <1>1, <2>1 DEF Pushes, Delivery
  <2> QED
    BY <2>1, <2>2 DEF InFlight, Current
<1>2. ASSUME NEW k \in LoggerNumbers, NEW l \in LoggerNumbers, k < l
      PROVE  Given(l) \subseteq Given(k) /\ Given(k) \ Given(l) = Between(k, l)
  <2>0. k \in Nat /\ l \in Nat
    BY DEF LoggerNumbers
  <2>1. ASSUME NEW b \in Given(l), b \notin Given(k)
        PROVE  FALSE
    <3>1. PICK t \in Threads : /\ thread[t].doing = "push"
                               /\ l < thread[t].next /\ ~(k < thread[t].next)
      BY <2>1, HalfDelivered
    <3>2. thread[t].next \in LoggerNumbers
      BY <1>1, <3>1
    <3>3. thread[t].next \in Nat
      BY <3>2 DEF LoggerNumbers
    <3> QED
      BY <1>2, <2>0, <3>1, <3>3
  <2>2. ASSUME NEW b \in Given(k), b \notin Given(l)
        PROVE  b \in Between(k, l)
    <3>1. PICK t \in Threads :
            /\ thread[t].doing = "push" /\ b = <<thread[t].connection, thread[t].chunk>>
            /\ k < thread[t].next /\ ~(l < thread[t].next)
      BY <2>2, HalfDelivered
    <3>2. thread[t].next \in Nat /\ thread[t].next <= l
      BY <1>1, <2>0, <3>1 DEF LoggerNumbers
    <3> QED
      BY <3>1, <3>2
  <2>3. ASSUME NEW b \in Between(k, l)
        PROVE  b \in Given(k) /\ b \notin Given(l)
    <3>1. PICK t \in Threads :
            /\ thread[t].doing = "push" /\ b = <<thread[t].connection, thread[t].chunk>>
            /\ k < thread[t].next /\ thread[t].next <= l
      BY <2>3
    <3>2. thread[t].next \in Nat
      BY <1>1, <3>1 DEF LoggerNumbers
    <3> QED
      BY <1>1, <2>0, <3>1, <3>2
  <2> HIDE DEF Between
  <2> QED
    BY <2>1, <2>2, <2>3
<1>3. ASSUME owner \in {"clearing", "gone"}, NEW k \in LoggerNumbers, NEW l \in LoggerNumbers
      PROVE  Given(k) = Given(l)
  <2>1. \A t \in Threads : thread[t].doing # "push"
    BY <1>3, DoingDiffers DEF Phases, NoUseAfterDestruction
  <2>2. ASSUME NEW i \in LoggerNumbers, NEW j \in LoggerNumbers, NEW b \in Given(i)
        PROVE  b \in Given(j)
    BY <2>1, <2>2, HalfDelivered
  <2> QED
    BY <2>2
<1> QED
  BY <1>2, <1>3 DEF AllOrNothing, Given

(* All that the delivery needs.                                            *)
DeliveryInv == TypeOK /\ Phases /\ Sessions /\ Delivery

LEMMA DeliveryInvariant == Spec => []DeliveryInv
<1>1. Init => DeliveryInv
  BY TypeInit, PhasesInit, SessionsInit, DeliveryInit DEF DeliveryInv
<1>2. DeliveryInv /\ [Next]_vars => DeliveryInv'
  BY TypeStep, PhasesStep, SessionsStep, DeliveryStep DEF DeliveryInv
<1> QED
  BY <1>1, <1>2, PTL DEF Spec

(* What one logger was given and another not is in the hands of an io      *)
(* thread; when the loggers are destroyed they have all been given the     *)
(* same batches (src/server.cpp:120-126, 176-184): for any number of       *)
(* loggers, clients and threads, and whatever the network does.            *)
THEOREM NothingHalfDelivered == Spec => []AllOrNothing
<1>1. DeliveryInv => AllOrNothing
  BY DeliveryImplies DEF DeliveryInv
<1> QED
  BY <1>1, DeliveryInvariant, PTL

-------------------------------------------------------------------------------
(* The broadcast.                                                          *)

LEMMA BroadcastStep ==
  ASSUME DeliveryInv, AllOrNothing', [Next]_vars
  PROVE  [Broadcast!Next]_(Broadcast!vars)
<1>0. TypeOK /\ Phases /\ Sessions /\ Delivery
  BY DEF DeliveryInv
<1>1. ASSUME NEW c \in Connections, ReadCompletes(c)
      PROVE  [Broadcast!Next]_(Broadcast!vars)
  <2> DEFINE b == <<c, chunks[c] + 1>>
  <2>1. UNCHANGED <<owner, pushed>> /\ (brought' = brought \/ brought' = brought \cup {b})
    BY <1>1 DEF ReadCompletes, ownerVars, logVars
  <2>2. chunks[c] \in Nat /\ \A e \in brought : e[2] \in Nat /\ e[2] <= chunks[e[1]]
    BY <1>0, BatchFields DEF TypeOK, Delivery, Settled
  <2>3. b \notin brought /\ b[1] = c /\ b[2] \in Nat \ {0}
    BY <2>2
  <2>4. \A e \in brought : e[1] = c => e[2] < b[2]
    BY <2>2
  <2> HIDE DEF b
  <2>5. CASE brought' = brought
    BY <2>1, <2>5, Zenon DEF Broadcast!vars
  <2>6. CASE brought' = brought \cup {b}
    <3>1. b \in brought' \ brought
      BY <2>3, <2>6
    <3>2. (owner \in {"clearing", "gone"})' = (owner \in {"clearing", "gone"})
      BY <2>1
    <3>3. Broadcast!Bring(c)
      BY <2>1, <2>3, <2>4, <2>6, <3>1, <3>2, Zenon DEF Broadcast!Bring
    <3> QED
      BY <3>3, Zenon DEF Broadcast!Next
  <2> QED
    BY <2>1, <2>5, <2>6
<1>2. ASSUME NEW t \in Threads, Push(t)
      PROVE  Broadcast!Next
  <2>1. PICK d \in Connections, l \in LoggerNumbers :
          /\ thread[t].doing = "push" /\ thread[t].connection = d /\ thread[t].next = l
          /\ l \in Nat
    BY <1>0, <1>2, DoingFields DEF Push, TypeOK, LoggerNumbers
  <2>2. ThreadNext(t)
    BY <1>2 DEF ThreadNext
  <2>3. UNCHANGED <<owner, brought>> /\ owner \notin {"clearing", "gone"}
    <3>1. thread[t] # Unborn /\ thread[t] # Returned
      BY <2>1, DoingDiffers
    <3> QED
      BY <1>0, <1>2, <3>1 DEF Push, ownerVars, netVars, Phases, NoUseAfterDestruction
  <2>4. Pushes(t, d) /\ InFlight(d)
    BY <1>0, <2>1 DEF Pushes, Delivery
  <2>5. /\ thread[t].chunk = chunks[d] /\ Current(d) \in brought
        /\ Current(d) \notin Given(l)
    BY <2>1, <2>4 DEF InFlight
  <2>6. pushed' = [pushed EXCEPT ![l] = Append(@, Current(d))]
    BY <1>2, <2>1, <2>5 DEF Push, Current
  <2>7. \A e \in brought : e[1] = d /\ e[2] < chunks[d] => e \in Given(l)
    BY <1>0 DEF Delivery, Settled
  <2>8. Broadcast!NextFor(l, Current(d))
    <3>1. Current(d)[1] = d /\ Current(d)[2] = chunks[d]
      BY DEF Current
    <3>2. Current(d) \notin Range(pushed[l])
      BY <2>5 DEF Given
    <3>3. \A e \in brought : e[1] = Current(d)[1] /\ e[2] < Current(d)[2] => e \in Range(pushed[l])
      BY <2>7, <3>1 DEF Given
    <3> QED
      BY <3>2, <3>3, Zenon DEF Broadcast!NextFor, Broadcast!Range, Range
  <2>9. Broadcast!Deliver(l)
    BY <2>3, <2>5, <2>6, <2>8, Zenon DEF Broadcast!Deliver
  <2> QED
    BY <2>9, Zenon DEF Broadcast!Next
<1>3. CASE Join
  <2>1. owner = "joining" /\ owner' = "clearing" /\ UNCHANGED <<brought, pushed>>
    BY <1>3 DEF Join, netVars, logVars
  <2>2. \A k, l \in LoggerNumbers : Range(pushed'[k]) = Range(pushed'[l])
    BY <2>1 DEF AllOrNothing
  <2>3. owner \notin {"clearing", "gone"} /\ owner' \in {"clearing", "gone"}
    BY <2>1
  <2>4. \A k, l \in LoggerNumbers : Range(pushed[k]) = Range(pushed[l])
    BY <2>1, <2>2
  <2>5. (owner \in {"clearing", "gone"})' = TRUE
    BY <2>1
  <2>6. Broadcast!Close
    BY <2>1, <2>3, <2>4, <2>5, Zenon DEF Broadcast!Close, Broadcast!Range, Range
  <2> QED
    BY <2>6, Zenon DEF Broadcast!Next
<1>4. ASSUME UNCHANGED <<brought, pushed>>,
             owner' = owner \/ {owner, owner'} \subseteq {"clearing", "gone"}
               \/ {owner, owner'} \cap {"clearing", "gone"} = {}
      PROVE  [Broadcast!Next]_(Broadcast!vars)
  <2>1. owner' \in {"clearing", "gone"} <=> owner \in {"clearing", "gone"}
    BY <1>4
  <2>2. (owner \in {"clearing", "gone"})' = (owner \in {"clearing", "gone"})
    <3>1. CASE owner \in {"clearing", "gone"}
      <4>1. (owner \in {"clearing", "gone"}) = TRUE /\ (owner \in {"clearing", "gone"})' = TRUE
        BY <2>1, <3>1
      <4> QED
        BY <4>1
    <3>2. CASE owner \notin {"clearing", "gone"}
      <4>1. (owner \in {"clearing", "gone"}) = FALSE /\ (owner \in {"clearing", "gone"})' = FALSE
        BY <2>1, <3>2
      <4> QED
        BY <4>1
    <3> QED
      BY <3>1, <3>2
  <2> QED
    BY <1>4, <2>2, Zenon DEF Broadcast!vars
<1>5. CASE OwnerNext \/ Shutdown
  <2>1. ASSUME NEW t \in Threads, StartThread(t) \/ StoreFails(t)
        PROVE  [Broadcast!Next]_(Broadcast!vars)
    BY <1>4, <2>1 DEF StartThread, StoreFails, netVars, logVars
  <2>2. CASE StartFails \/ Serve \/ Shutdown
    BY <1>4, <2>2 DEF StartFails, Serve, Shutdown, netVars, logVars
  <2>3. CASE DestroyLogger \/ DestroyRest
    BY <1>4, <2>3 DEF DestroyLogger, DestroyRest, netVars, logVars
  <2> QED
    BY <1>3, <1>5, <2>1, <2>2, <2>3 DEF OwnerNext
<1>6. CASE NetworkNext
  <2>1. ASSUME NEW c \in Connections, Connect(c) \/ AcceptCompletes(c) \/ ReadFails(c)
        PROVE  [Broadcast!Next]_(Broadcast!vars)
    BY <1>4, <2>1 DEF Connect, AcceptCompletes, ReadFails, ownerVars, netVars, logVars
  <2>2. ASSUME NEW a \in AcceptorNumbers, AcceptFails(a)
        PROVE  [Broadcast!Next]_(Broadcast!vars)
    BY <1>4, <2>2 DEF AcceptFails, ownerVars, logVars
  <2> QED
    BY <1>1, <1>6, <2>1, <2>2 DEF NetworkNext
<1>7. ASSUME NEW t \in Threads, ThreadNext(t)
      PROVE  [Broadcast!Next]_(Broadcast!vars)
  <2>1. CASE RunAccept(t) \/ StartAccept(t) \/ RunRead(t) \/ RunReadFailed(t) \/ Reread(t) \/ Return(t)
    BY <1>4, <2>1 DEF RunAccept, StartAccept, RunRead, RunReadFailed, Reread, Return,
                      ownerVars, netVars, logVars
  <2> QED
    BY <1>2, <1>7, <2>1 DEF ThreadNext
<1>8. CASE Finished \/ UNCHANGED vars
  BY <1>4, <1>8 DEF Finished, vars, ownerVars, netVars, logVars
<1> QED
  BY <1>5, <1>6, <1>7, <1>8 DEF Next

(* The server implements a broadcast that is first in, first out for each  *)
(* connection: every logger is given each connection's batches in the      *)
(* order they came, each once and none left out (src/server.cpp:163-190).  *)
THEOREM Implementation == Spec => ImplementsFifoBroadcast
<1>1. Init => Broadcast!Init
  <2> SUFFICES ASSUME Init
               PROVE  Broadcast!Init
    OBVIOUS
  <2>1. (owner \in {"clearing", "gone"}) = FALSE
    BY DEF Init
  <2> QED
    BY <2>1 DEF Init, Broadcast!Init
<1>2. DeliveryInv /\ AllOrNothing' /\ [Next]_vars => [Broadcast!Next]_(Broadcast!vars)
  BY BroadcastStep
<1> QED
  BY <1>1, <1>2, DeliveryInvariant, NothingHalfDelivered, PTL
     DEF Spec, Broadcast!Spec, ImplementsFifoBroadcast
-------------------------------------------------------------------------------
(* One acceptor.                                                           *)

Accepts == {h \in Handler : h.kind = "accept"}

(* With one acceptor, the accept that was started, the handler of one that *)
(* completed and the thread that is in accept() are one at a time.         *)
OneAccept ==
  Acceptors = 1 =>
    /\ accepting[1] <= 1
    /\ AtMostOne(Places(Accepts)) /\ AtMostOne(InAccept)
    /\ accepting[1] = 1 => Places(Accepts) = {}
    /\ accepting[1] = 1 \/ Places(Accepts) # {} => InAccept = {}

LEMMA InAcceptStep ==
  ASSUME thread \in [Threads -> Doing], NEW t \in Threads, NEW d,
         thread' = [thread EXCEPT ![t] = d]
  PROVE  /\ d.doing = "accept" => InAccept' = InAccept \cup {t}
         /\ d.doing # "accept" => InAccept' = InAccept \ {t}
<1>1. thread'[t] = d /\ \A u \in Threads \ {t} : thread'[u] = thread[u]
  OBVIOUS
<1>2. InAccept' = {u \in Threads : thread'[u].doing = "accept"}
  BY DEF InAccept
<1> QED
  BY <1>1, <1>2, Zenon DEF InAccept

(* Steps of threads and sessions that leave the accepts alone.             *)
LEMMA AcceptStays ==
  ASSUME OneAccept, UNCHANGED accepting, InAccept' = InAccept,
         Acceptors = 1 => /\ AtMostOne(Places(Accepts)')
                          /\ Places(Accepts) = {} => Places(Accepts)' = {}
  PROVE  OneAccept'
BY DEF OneAccept, AtMostOne

LEMMA OneAcceptStep == TypeOK /\ OneAccept /\ [Next]_vars => OneAccept'
<1> SUFFICES ASSUME TypeOK, OneAccept, [Next]_vars, Acceptors = 1
             PROVE  OneAccept'
  BY DEF OneAccept
<1>0. /\ ready \in Seq(Handler) /\ accepting \in [{1} -> Nat] /\ thread \in [Threads -> Doing]
      /\ AcceptorNumbers = {1} /\ \A c \in Connections : Address[c] = 1
  <2>1. AcceptorNumbers = {1}
    BY DEF AcceptorNumbers
  <2> QED
    BY <2>1, CountAssumption DEF TypeOK
<1>1. /\ accepting[1] \in {0, 1}
      /\ AtMostOne(Places(Accepts)) /\ AtMostOne(InAccept)
      /\ accepting[1] = 1 => Places(Accepts) = {}
      /\ accepting[1] = 1 \/ Places(Accepts) # {} => InAccept = {}
  BY <1>0 DEF OneAccept
<1>2. ASSUME UNCHANGED <<accepting, ready>>, InAccept' = InAccept
      PROVE  OneAccept'
  <2>1. Places(Accepts)' = Places(Accepts)
    BY <1>2 DEF Places
  <2> QED
    BY <1>1, <1>2, <2>1, AcceptStays
<1>3. ASSUME NEW t \in Threads, NEW d, thread' = [thread EXCEPT ![t] = d],
             thread[t].doing # "accept", d.doing # "accept"
      PROVE  InAccept' = InAccept
  <2>1. InAccept' = InAccept \ {t} /\ t \notin InAccept
    BY <1>0, <1>3, InAcceptStep DEF InAccept
  <2> QED
    BY <2>1
<1>4. UNCHANGED thread => InAccept' = InAccept
  BY DEF InAccept
<1>5. CASE OwnerNext \/ Shutdown
  <2>1. ASSUME NEW t \in Threads, StartThread(t) \/ StoreFails(t)
        PROVE  OneAccept'
    <3>1. /\ thread' = [thread EXCEPT ![t] = Waiting] /\ thread[t] = Unborn
          /\ UNCHANGED <<accepting, ready>>
      BY <2>1 DEF StartThread, StoreFails, iocVars
    <3>2. InAccept' = InAccept
      BY <1>3, <3>1, DoingDiffers
    <3> QED
      BY <1>2, <3>1, <3>2
  <2>2. CASE StartFails \/ Serve \/ Join \/ DestroyLogger \/ Shutdown
    BY <1>2, <1>4, <2>2 DEF StartFails, Serve, Join, DestroyLogger, Shutdown, iocVars
  <2>3. CASE DestroyRest
    <3>1. ready' = <<>> /\ accepting'[1] = 0 /\ UNCHANGED thread
      BY <1>0, <2>3 DEF DestroyRest
    <3>2. Places(Accepts)' = {}
      BY <3>1 DEF Places
    <3> QED
      BY <1>1, <1>4, <3>1, <3>2 DEF OneAccept, AtMostOne
  <2> QED
    BY <1>5, <2>1, <2>2, <2>3 DEF OwnerNext
<1>6. CASE NetworkNext
  <2>1. ASSUME NEW c \in Connections \cup {NoConnection},
               accepting[1] > 0, accepting' = [accepting EXCEPT ![1] = @ - 1],
               ready' = Append(ready, AcceptHandler(c)), UNCHANGED thread
        PROVE  OneAccept'
    <3>1. AcceptHandler(c) \in Handler /\ AcceptHandler(c) \in Accepts
      BY HandlersMade DEF Accepts
    <3>2. accepting[1] = 1 /\ accepting'[1] = 0 /\ Places(Accepts) = {} /\ InAccept = {}
      BY <1>0, <1>1, <2>1
    <3>3. Places(Accepts)' = {Len(ready) + 1}
      BY <1>0, <2>1, <3>1, <3>2, AppendPlaces
    <3>4. InAccept' = {}
      BY <1>4, <2>1, <3>2
    <3> QED
      BY <3>2, <3>3, <3>4 DEF OneAccept, AtMostOne
  <2>2. ASSUME NEW c \in Connections, Connect(c)
        PROVE  OneAccept'
    BY <1>2, <1>4, <2>2 DEF Connect, iocVars
  <2>3. ASSUME NEW c \in Connections, AcceptCompletes(c)
        PROVE  OneAccept'
    BY <1>0, <2>1, <2>3 DEF AcceptCompletes
  <2>4. ASSUME NEW a \in AcceptorNumbers, AcceptFails(a)
        PROVE  OneAccept'
    BY <1>0, <2>1, <2>4 DEF AcceptFails
  <2>5. ASSUME NEW c \in Connections, ReadCompletes(c) \/ ReadFails(c)
        PROVE  OneAccept'
    <3>1. PICK failed \in BOOLEAN :
            /\ ready' = Append(ready, ReadHandler(c, failed)) /\ UNCHANGED <<accepting, thread>>
      BY <2>5 DEF ReadCompletes, ReadFails
    <3>2. ReadHandler(c, failed) \in Handler /\ ReadHandler(c, failed) \notin Accepts
      BY HandlersMade DEF Accepts
    <3>3. Places(Accepts)' = Places(Accepts)
      BY <1>0, <3>1, <3>2, AppendPlaces
    <3> QED
      BY <1>1, <1>4, <3>1, <3>3, AcceptStays
  <2> QED
    BY <1>6, <2>2, <2>3, <2>4, <2>5 DEF NetworkNext
<1>7. ASSUME NEW t \in Threads, ThreadNext(t)
      PROVE  OneAccept'
  <2>1. CASE RunAccept(t)
    <3>1. /\ thread' = [thread EXCEPT ![t] = Accepting(1)]
          /\ ready # <<>> /\ ready' = Tail(ready) /\ Head(ready).kind = "accept"
          /\ UNCHANGED accepting
      BY <2>1 DEF RunAccept, MayRun, AcceptAgain
    <3>2. Head(ready) \in Accepts
      BY <1>0, <3>1, HeadTailProperties DEF Accepts
    <3>3. Places(Accepts) # {} /\ Places(Accepts)' = {}
      BY <1>0, <1>1, <3>1, <3>2, TailPlaces
    <3>4. accepting'[1] = 0 /\ InAccept = {}
      BY <1>1, <3>1, <3>3
    <3>5. InAccept' = {t}
      <4>1. Accepting(1).doing = "accept"
        BY DoingDiffers
      <4>2. InAccept' = InAccept \cup {t}
        BY <1>0, <3>1, <4>1, InAcceptStep
      <4> QED
        BY <3>4, <4>2
    <3> QED
      BY <3>3, <3>4, <3>5 DEF OneAccept, AtMostOne
  <2>2. CASE StartAccept(t)
    <3>1. t \in InAccept /\ thread[t].next = 1
      BY <1>0, <2>2, DoingFields DEF StartAccept, InAccept
    <3>2. /\ thread' = [thread EXCEPT ![t] = Waiting]
          /\ accepting' = [accepting EXCEPT ![1] = @ + 1] /\ UNCHANGED ready
      BY <2>2, <3>1 DEF StartAccept
    <3>3. accepting'[1] = 1 /\ Places(Accepts) = {}
      BY <1>0, <1>1, <3>1, <3>2
    <3>4. InAccept' = {}
      <4>1. InAccept' = InAccept \ {t}
        BY <1>0, <3>2, InAcceptStep, DoingDiffers
      <4> QED
        BY <1>1, <3>1, <4>1 DEF AtMostOne
    <3>5. Places(Accepts)' = {}
      BY <3>2, <3>3 DEF Places
    <3> QED
      BY <3>3, <3>4, <3>5 DEF OneAccept, AtMostOne
  <2>3. CASE RunRead(t) \/ RunReadFailed(t)
    <3>1. /\ ready # <<>> /\ ready' = Tail(ready) /\ UNCHANGED accepting
          /\ thread[t].doing = "run"
          /\ \/ UNCHANGED thread
             \/ thread' = [thread EXCEPT ![t] = AfterRead(Head(ready).connection)]
      BY <2>3, DoingDiffers DEF RunRead, RunReadFailed, MayRun
    <3>2. \A c : AfterRead(c).doing # "accept"
      BY DoingDiffers DEF AfterRead
    <3>3. InAccept' = InAccept
      BY <1>3, <1>4, <3>1, <3>2
    <3>4. AtMostOne(Places(Accepts)') /\ (Places(Accepts) = {} => Places(Accepts)' = {})
      BY <1>0, <1>1, <3>1, TailPlaces
    <3> QED
      BY <3>1, <3>3, <3>4, AcceptStays
  <2>4. CASE Push(t) \/ Reread(t) \/ Return(t)
    <3>1. PICK d : /\ thread' = [thread EXCEPT ![t] = d] /\ d.doing # "accept"
                   /\ thread[t].doing # "accept"
                   /\ UNCHANGED <<accepting, ready>>
      BY <2>4, DoingDiffers DEF Push, Reread, Return, iocVars
    <3>2. InAccept' = InAccept
      BY <1>3, <3>1
    <3> QED
      BY <1>2, <3>1, <3>2
  <2> QED
    BY <1>7, <2>1, <2>2, <2>3, <2>4 DEF ThreadNext
<1>8. CASE Finished \/ UNCHANGED vars
  BY <1>2, <1>4, <1>8 DEF Finished, vars, iocVars
<1> QED
  BY <1>5, <1>6, <1>7, <1>8 DEF Next

(* With one acceptor no two io threads are in accept() at the same time    *)
(* (src/server.cpp:134-161), on which the acceptor, not being thread-safe, *)
(* depends; for any number of threads and connections.                     *)
THEOREM AcceptorIsNotShared == Spec => []OneAcceptorIsNotShared
<1>1. Init => OneAccept
  <2> SUFFICES ASSUME Init, Acceptors = 1
               PROVE  OneAccept
    BY DEF OneAccept
  <2>1. 1 \in AcceptorNumbers /\ Places(Accepts) = {}
    BY DEF AcceptorNumbers, Init, Places
  <2>2. InAccept = {}
    BY DoingDiffers DEF Init, InAccept
  <2> QED
    BY <2>1, <2>2 DEF Init, FirstAccepts, OneAccept, AtMostOne
<1>2. OneAccept => OneAcceptorIsNotShared
  BY DEF OneAccept, OneAcceptorIsNotShared, AtMostOne
<1> QED
  BY <1>1, <1>2, TypeInit, TypeStep, OneAcceptStep, PTL DEF Spec
-------------------------------------------------------------------------------
(* All acceptors.                                                          *)

(* As many numbers for each acceptor as f says.                            *)
Numbered(f) == UNION {{a} \X (1 .. f[a]) : a \in AcceptorNumbers}

LEMMA NumberedHas ==
  \A f, p : p \in Numbered(f) <=> \E a \in AcceptorNumbers : \E n \in 1 .. f[a] : p = <<a, n>>
BY DEF Numbered

LEMMA NumberedGrows ==
  ASSUME NEW f \in [AcceptorNumbers -> Nat], NEW a \in AcceptorNumbers, NEW g,
         g = [f EXCEPT ![a] = @ + 1]
  PROVE  /\ Numbered(g) = Numbered(f) \cup {<<a, f[a] + 1>>}
         /\ <<a, f[a] + 1>> \notin Numbered(f)
<1>1. g[a] = f[a] + 1 /\ \A b \in AcceptorNumbers \ {a} : g[b] = f[b]
  OBVIOUS
<1>2. f[a] \in Nat
  OBVIOUS
<1> DEFINE top == f[a] + 1
<1>3. 1 .. top = (1 .. f[a]) \cup {top} /\ top \notin 1 .. f[a]
  BY <1>2
<1> HIDE DEF top
<1>4. g[a] = top
  BY <1>1 DEF top
<1>5. ASSUME NEW p, p \in Numbered(g)
      PROVE  p \in Numbered(f) \cup {<<a, top>>}
  <2>1. PICK b \in AcceptorNumbers : \E n \in 1 .. g[b] : p = <<b, n>>
    BY <1>5 DEF Numbered
  <2>2. PICK n \in 1 .. g[b] : p = <<b, n>>
    BY <2>1
  <2>3. n \in 1 .. f[b] \/ (b = a /\ n = top)
    <3>1. CASE b = a
      BY <1>1, <1>2, <3>1 DEF top
    <3>2. CASE b # a
      <4>1. g[b] = f[b]
        BY <1>1, <3>2
      <4> QED
        BY <4>1
    <3> QED
      BY <3>1, <3>2
  <2>4. n \in 1 .. f[b] => p \in Numbered(f)
    BY <2>2, NumberedHas, Zenon
  <2> QED
    BY <2>2, <2>3, <2>4, Zenon
<1>6. ASSUME NEW p, p \in Numbered(f)
      PROVE  p \in Numbered(g)
  <2>1. PICK b \in AcceptorNumbers : \E n \in 1 .. f[b] : p = <<b, n>>
    BY <1>6 DEF Numbered
  <2>2. PICK n \in 1 .. f[b] : p = <<b, n>>
    BY <2>1
  <2>3. n \in 1 .. g[b]
    BY <1>1, <1>3, <1>4
  <2> QED
    BY <2>2, <2>3, NumberedHas, Zenon
<1>7. <<a, top>> \in Numbered(g)
  <2>1. top \in 1 .. g[a]
    BY <1>3, <1>4
  <2> QED
    BY <2>1, NumberedHas, Zenon
<1>8. <<a, top>> \notin Numbered(f)
  <2> SUFFICES ASSUME <<a, top>> \in Numbered(f) PROVE FALSE
    OBVIOUS
  <2>1. PICK b \in AcceptorNumbers : \E n \in 1 .. f[b] : <<a, top>> = <<b, n>>
    BY NumberedHas, Zenon
  <2>2. PICK n \in 1 .. f[b] : <<a, top>> = <<b, n>>
    BY <2>1
  <2>3. a = b /\ top = n
    BY <2>2
  <2> QED
    BY <1>3, <2>3
<1>9. Numbered(g) = Numbered(f) \cup {<<a, top>>}
  BY <1>5, <1>6, <1>7
<1> QED
  BY <1>8, <1>9 DEF top

(* An accept more, or one less.                                            *)
LEMMA OutstandingCounts ==
  ASSUME TypeOK, IsFiniteSet(Outstanding), NEW a \in AcceptorNumbers
  PROVE  /\ accepting' = [accepting EXCEPT ![a] = @ + 1] =>
              /\ IsFiniteSet(Outstanding')
              /\ Cardinality(Outstanding') = Cardinality(Outstanding) + 1
         /\ accepting' = [accepting EXCEPT ![a] = @ - 1] /\ accepting[a] > 0 =>
              /\ IsFiniteSet(Outstanding')
              /\ Cardinality(Outstanding') = Cardinality(Outstanding) - 1
<1> DEFINE f == accepting
           g == accepting'
<1>0. f \in [AcceptorNumbers -> Nat] /\ Outstanding = Numbered(f) /\ Outstanding' = Numbered(g)
  BY DEF TypeOK, Outstanding, Numbered
<1>1. ASSUME g = [f EXCEPT ![a] = @ + 1]
      PROVE  IsFiniteSet(Numbered(g)) /\ Cardinality(Numbered(g)) = Cardinality(Numbered(f)) + 1
  <2> HIDE DEF f, g
  <2> DEFINE e == <<a, f[a] + 1>>
             S == Numbered(f)
  <2>1. Numbered(g) = S \cup {e} /\ e \notin S
    BY <1>0, <1>1, NumberedGrows
  <2>2. IsFiniteSet(S)
    BY <1>0
  <2> HIDE DEF e, S
  <2>3. IsFiniteSet(S \cup {e}) /\ Cardinality(S \cup {e}) = Cardinality(S) + 1
    BY <2>1, <2>2, FS_AddElement
  <2> QED
    BY <2>1, <2>3 DEF S
<1>2. ASSUME g = [f EXCEPT ![a] = @ - 1], f[a] > 0
      PROVE  IsFiniteSet(Numbered(g)) /\ Cardinality(Numbered(g)) = Cardinality(Numbered(f)) - 1
  <2> HIDE DEF f, g
  <2>1. g \in [AcceptorNumbers -> Nat] /\ f = [g EXCEPT ![a] = @ + 1]
    <3>1. f[a] \in Nat \ {0}
      BY <1>0, <1>2
    <3>2. g \in [AcceptorNumbers -> Nat]
      BY <1>0, <1>2, <3>1
    <3>3. DOMAIN f = AcceptorNumbers /\ DOMAIN [g EXCEPT ![a] = @ + 1] = AcceptorNumbers
      BY <1>0, <3>2
    <3>4. \A b \in AcceptorNumbers : f[b] = [g EXCEPT ![a] = @ + 1][b]
      BY <1>0, <1>2, <3>1, <3>2
    <3> QED
      BY <1>0, <3>2, <3>3, <3>4
  <2> DEFINE e == <<a, g[a] + 1>>
             S == Numbered(f)
             R == Numbered(g)
  <2>2. S = R \cup {e} /\ e \notin R
    BY <2>1, NumberedGrows
  <2>3. IsFiniteSet(S)
    BY <1>0
  <2> HIDE DEF e, S, R
  <2>4. R = S \ {e} /\ e \in S
    BY <2>2
  <2>5. IsFiniteSet(S \ {e}) /\ Cardinality(S \ {e}) = Cardinality(S) - 1
    BY <2>3, <2>4, FS_RemoveElement
  <2> QED
    BY <2>4, <2>5 DEF S, R
<1> QED
  BY <1>0, <1>1, <1>2
(* A handler more in the queue, or one less.                               *)
LEMMA PlacesFinite ==
  ASSUME ready \in Seq(Handler), NEW H
  PROVE  IsFiniteSet(Places(H)) /\ Cardinality(Places(H)) \in Nat
<1>1. Len(ready) \in Nat /\ DOMAIN ready = 1 .. Len(ready)
  BY LenProperties
<1> DEFINE D == 1 .. Len(ready)
<1>2. IsFiniteSet(D)
  BY <1>1, FS_Interval
<1>3. Places(H) \in SUBSET D
  BY <1>1 DEF Places
<1> HIDE DEF D
<1>4. IsFiniteSet(Places(H))
  BY <1>2, <1>3, FS_Subset
<1> QED
  BY <1>4, FS_CardinalityType

LEMMA AppendCounts ==
  ASSUME ready \in Seq(Handler), NEW h \in Handler, ready' = Append(ready, h), NEW H
  PROVE  Cardinality(Places(H)')
           = Cardinality(Places(H)) + (IF h \in H THEN 1 ELSE 0)
<1> DEFINE P == Places(H)
           k == Len(ready) + 1
<1>1. Places(H)' = IF h \in H THEN P \cup {k} ELSE P
  BY AppendPlaces
<1>2. k \notin P
  <2>1. Len(ready) \in Nat /\ DOMAIN ready = 1 .. Len(ready)
    BY LenProperties
  <2> QED
    BY <2>1 DEF Places
<1>3. IsFiniteSet(P) /\ Cardinality(P) \in Nat
  BY PlacesFinite
<1> HIDE DEF P, k
<1>4. Cardinality(P \cup {k}) = Cardinality(P) + 1
  BY <1>2, <1>3, FS_AddElement
<1>5. Cardinality(P) + 0 = Cardinality(P)
  BY <1>3
<1> QED
  BY <1>1, <1>4, <1>5, Zenon DEF P

LEMMA TailCounts ==
  ASSUME ready \in Seq(Handler), ready # <<>>, ready' = Tail(ready), NEW H
  PROVE  Cardinality(Places(H)')
           = Cardinality(Places(H)) - (IF Head(ready) \in H THEN 1 ELSE 0)
<1>1. /\ ready' \in Seq(Handler) /\ Len(ready) \in Nat /\ Len(ready') = Len(ready) - 1
      /\ \A i \in 1 .. Len(ready') : ready'[i] = ready[i + 1]
      /\ Head(ready) = ready[1]
      /\ Len(ready) # 0
  BY HeadTailProperties, LenProperties, EmptySeq
<1>2. DOMAIN ready = 1 .. Len(ready) /\ DOMAIN ready' = 1 .. Len(ready')
  BY <1>1, LenProperties
<1> DEFINE P == Places(H)
           R == Places(H)'
           f == [i \in R |-> i + 1]
<1>3. \A i \in R : i \in Nat /\ i # 0 /\ i + 1 \in P \ {1}
  BY <1>1, <1>2 DEF Places
<1>4. ASSUME NEW j \in P \ {1} PROVE \E i \in R : i + 1 = j
  <2>1. j \in 1 .. Len(ready) /\ j # 1 /\ ready[j] \in H
    BY <1>2 DEF Places
  <2>2. j - 1 \in 1 .. Len(ready') /\ (j - 1) + 1 = j
    BY <1>1, <2>1
  <2>3. ready'[j - 1] = ready[j]
    BY <1>1, <2>2
  <2>4. j - 1 \in R
    BY <1>2, <2>1, <2>2, <2>3 DEF Places
  <2> QED
    BY <2>2, <2>4
<1>5. 1 \in P <=> Head(ready) \in H
  BY <1>1, <1>2 DEF Places
<1>6. IsFiniteSet(P) /\ Cardinality(P) \in Nat
  BY PlacesFinite
<1> HIDE DEF P, R
<1>7. f \in Bijection(R, P \ {1})
  <2> DEFINE Q == P \ {1}
  <2>1. f \in [R -> Q] /\ \A j \in Q : \E i \in R : f[i] = j
    BY <1>3, <1>4
  <2>2. \A i, j \in R : f[i] = f[j] => i = j
    BY <1>3
  <2> HIDE DEF f, Q
  <2>3. f \in Bijection(R, Q)
    BY <2>1, <2>2 DEF Bijection, Injection, Surjection, IsInjective
  <2> QED
    BY <2>3 DEF Q
<1> DEFINE Q == P \ {1}
<1>8. IsFiniteSet(Q) /\ Cardinality(Q) = IF 1 \in P THEN Cardinality(P) - 1 ELSE Cardinality(P)
  BY <1>6, FS_RemoveElement
<1> HIDE DEF f, Q
<1>9. Cardinality(R) = Cardinality(Q)
  <2>1. f \in Bijection(R, Q)
    BY <1>7 DEF Q
  <2>2. IsFiniteSet(R) /\ Cardinality(R) = Cardinality(Q)
    <3>1. f \in Injection(R, Q) /\ f \in Surjection(R, Q)
      BY <2>1 DEF Bijection
    <3> QED
      BY <1>8, <3>1, FS_Injection
  <2> QED
    BY <2>2
<1>10. Cardinality(P) - 0 = Cardinality(P)
  BY <1>6
<1> QED
  BY <1>5, <1>8, <1>9, <1>10, Zenon DEF P, R

LEMMA InAcceptFinite == IsFiniteSet(InAccept) /\ Cardinality(InAccept) \in Nat
<1>1. InAccept \in SUBSET Threads
  BY DEF InAccept
<1>2. IsFiniteSet(InAccept)
  BY <1>1, SetAssumption, FS_Subset
<1> QED
  BY <1>2, FS_CardinalityType

(* What a running accept() has started.                                    *)
StartedBy(u, b) == thread[u].doing = "accept" /\ b < thread[u].next

(* In a form that can be used of the next state too.                       *)
StartedMeans ==
  \A p : p \in Started <=>
    \E u \in Threads : \E b \in AcceptorNumbers : p = <<u, b>> /\ StartedBy(u, b)

LEMMA StartedHas == StartedMeans
BY DEF StartedMeans, StartedBy, Started, InAccept

LEMMA StartedFinite == IsFiniteSet(Started) /\ Cardinality(Started) \in Nat
<1> DEFINE S == Threads \X AcceptorNumbers
<1>1. IsFiniteSet(AcceptorNumbers)
  BY CountAssumption, FS_Interval DEF AcceptorNumbers
<1>2. IsFiniteSet(S)
  BY <1>1, SetAssumption, FS_Product
<1>3. Started \in SUBSET S
  BY DEF Started, InAccept
<1> HIDE DEF S
<1>4. IsFiniteSet(Started)
  BY <1>2, <1>3, FS_Subset
<1> QED
  BY <1>4, FS_CardinalityType

LEMMA StartedStays ==
  ASSUME thread \in [Threads -> Doing], NEW t \in Threads, NEW d,
         thread' = [thread EXCEPT ![t] = d],
         thread[t].doing # "accept", d.doing # "accept" \/ d.next = 1
  PROVE  Started' = Started
<1>1. StartedMeans /\ StartedMeans'
  BY StartedHas, PTL
<1>2. thread'[t] = d /\ \A u \in Threads \ {t} : thread'[u] = thread[u]
  OBVIOUS
<1>3. ASSUME NEW u \in Threads, NEW b \in AcceptorNumbers
      PROVE  StartedBy(u, b)' <=> StartedBy(u, b)
  <2>1. CASE u # t
    BY <1>2, <2>1, Zenon DEF StartedBy
  <2>2. CASE u = t
    <3>1. ~(b < 1)
      BY DEF AcceptorNumbers
    <3> QED
      BY <1>2, <2>2, <3>1, Zenon DEF StartedBy
  <2> QED
    BY <2>1, <2>2
<1>4. \A p : p \in Started' <=> p \in Started
  BY <1>1, <1>3, Zenon DEF StartedMeans
<1> QED
  BY <1>4
LEMMA StartedGrows ==
  ASSUME thread \in [Threads -> Doing], NEW t \in InAccept,
         NEW a \in AcceptorNumbers, thread[t].next = a, a + 1 \in AcceptorNumbers,
         thread' = [thread EXCEPT ![t] = Accepting(a + 1)]
  PROVE  Cardinality(Started') = Cardinality(Started) + 1
<1> DEFINE e == <<t, a>>
<1>1. StartedMeans /\ StartedMeans'
  BY StartedHas, PTL
<1>2. t \in Threads /\ thread[t].doing = "accept"
  BY DEF InAccept
<1>3. /\ thread'[t].doing = "accept" /\ thread'[t].next = a + 1
      /\ \A u \in Threads \ {t} : thread'[u] = thread[u]
  BY <1>2, DoingDiffers
<1>4. \A b \in AcceptorNumbers : (b < a + 1 <=> b < a \/ b = a) /\ ~(a < a)
  BY DEF AcceptorNumbers
<1>5. ASSUME NEW u \in Threads, NEW b \in AcceptorNumbers
      PROVE  StartedBy(u, b)' <=> StartedBy(u, b) \/ (u = t /\ b = a)
  <2>1. CASE u # t
    BY <1>3, <2>1, Zenon DEF StartedBy
  <2>2. CASE u = t
    BY <1>2, <1>3, <1>4, <2>2, Zenon DEF StartedBy
  <2> QED
    BY <2>1, <2>2
<1>6. ~StartedBy(t, a)
  BY <1>4, Zenon DEF StartedBy
<1>7. \A p : p \in Started' <=> p \in Started \/ p = e
  <2>1. ASSUME NEW p, p \in Started' PROVE p \in Started \/ p = e
    <3>1. PICK u \in Threads : \E b \in AcceptorNumbers : p = <<u, b>> /\ StartedBy(u, b)'
      BY <1>1, <2>1, Zenon DEF StartedMeans
    <3>2. PICK b \in AcceptorNumbers : p = <<u, b>> /\ StartedBy(u, b)'
      BY <3>1
    <3>3. StartedBy(u, b) => p \in Started
      BY <1>1, <3>2, Zenon DEF StartedMeans
    <3> QED
      BY <1>5, <3>2, <3>3, Zenon
  <2>2. ASSUME NEW p, p \in Started PROVE p \in Started'
    <3>1. PICK u \in Threads : \E b \in AcceptorNumbers : p = <<u, b>> /\ StartedBy(u, b)
      BY <1>1, <2>2, Zenon DEF StartedMeans
    <3>2. PICK b \in AcceptorNumbers : p = <<u, b>> /\ StartedBy(u, b)
      BY <3>1
    <3> QED
      BY <1>1, <1>5, <3>2, Zenon DEF StartedMeans
  <2>3. e \in Started'
    BY <1>1, <1>2, <1>5, Zenon DEF StartedMeans
  <2> QED
    BY <2>1, <2>2, <2>3
<1>8. e \notin Started
  <2> SUFFICES ASSUME e \in Started PROVE FALSE
    OBVIOUS
  <2>1. PICK u \in Threads : \E b \in AcceptorNumbers : e = <<u, b>> /\ StartedBy(u, b)
    BY <1>1, Zenon DEF StartedMeans
  <2>2. PICK b \in AcceptorNumbers : e = <<u, b>> /\ StartedBy(u, b)
    BY <2>1
  <2>3. u = t /\ b = a
    BY <2>2
  <2> QED
    BY <1>6, <2>2, <2>3
<1> HIDE DEF e
<1>9. Started' = Started \cup {e}
  BY <1>7
<1> QED
  BY <1>8, <1>9, StartedFinite, FS_AddElement

LEMMA StartedEnds ==
  ASSUME thread \in [Threads -> Doing], NEW t \in InAccept, thread[t].next = Acceptors,
         NEW d, d.doing # "accept", thread' = [thread EXCEPT ![t] = d]
  PROVE  Cardinality(Started') = Cardinality(Started) - (Acceptors - 1)
<1> DEFINE Its == {t} \X (1 .. Acceptors - 1)
<1>1. StartedMeans /\ StartedMeans'
  BY StartedHas, PTL
<1>2. t \in Threads /\ thread[t].doing = "accept"
  BY DEF InAccept
<1>3. thread'[t].doing # "accept" /\ \A u \in Threads \ {t} : thread'[u] = thread[u]
  BY <1>2
<1>4. \A b : b \in 1 .. Acceptors - 1 <=> b \in AcceptorNumbers /\ b < Acceptors
  BY CountAssumption DEF AcceptorNumbers
<1>5. \A p : p \in Its <=> \E b \in AcceptorNumbers : b < Acceptors /\ p = <<t, b>>
  <2>1. \A p : p \in Its <=> \E b \in 1 .. Acceptors - 1 : p = <<t, b>>
    OBVIOUS
  <2> HIDE DEF Its
  <2> QED
    BY <1>4, <2>1, Zenon
<1> HIDE DEF Its
<1>6. Its \subseteq Started
  <2> SUFFICES ASSUME NEW p \in Its PROVE p \in Started
    OBVIOUS
  <2>1. PICK b \in AcceptorNumbers : b < Acceptors /\ p = <<t, b>>
    BY <1>5, Zenon
  <2>2. StartedBy(t, b)
    BY <1>2, <2>1, Zenon DEF StartedBy
  <2> QED
    BY <1>1, <1>2, <2>1, <2>2, Zenon DEF StartedMeans
<1>7. ASSUME NEW p \in Started' PROVE p \in Started \ Its
  <2>1. PICK u \in Threads : \E b \in AcceptorNumbers : p = <<u, b>> /\ StartedBy(u, b)'
    BY <1>1, Zenon DEF StartedMeans
  <2>2. PICK b \in AcceptorNumbers : p = <<u, b>> /\ StartedBy(u, b)'
    BY <2>1
  <2>3. u # t
    BY <1>3, <2>2 DEF StartedBy
  <2>4. StartedBy(u, b)
    BY <1>3, <2>2, <2>3, Zenon DEF StartedBy
  <2>5. p \in Started
    BY <1>1, <2>2, <2>4, Zenon DEF StartedMeans
  <2>6. p \notin Its
    <3>1. \A n : <<u, b>> # <<t, n>>
      BY <2>3
    <3> QED
      BY <1>5, <2>2, <3>1, Zenon
  <2> QED
    BY <2>5, <2>6
<1>8. ASSUME NEW p \in Started, p \notin Its PROVE p \in Started'
  <2>1. PICK u \in Threads : \E b \in AcceptorNumbers : p = <<u, b>> /\ StartedBy(u, b)
    BY <1>1, Zenon DEF StartedMeans
  <2>2. PICK b \in AcceptorNumbers : p = <<u, b>> /\ StartedBy(u, b)
    BY <2>1
  <2>3. u # t
    BY <1>5, <1>8, <2>2, Zenon DEF StartedBy
  <2>4. StartedBy(u, b)'
    BY <1>3, <2>2, <2>3, Zenon DEF StartedBy
  <2> QED
    BY <1>1, <2>2, <2>4, Zenon DEF StartedMeans
<1>9. Started' = Started \ Its /\ Started \cap Its = Its
  BY <1>6, <1>7, <1>8
<1>10. Cardinality(Its) = Acceptors - 1
  <2> DEFINE T == {t}
             N == 1 .. Acceptors - 1
  <2>1. IsFiniteSet(T) /\ Cardinality(T) = 1
    BY FS_Singleton
  <2>2. IsFiniteSet(N) /\ Cardinality(N) = Acceptors - 1
    BY CountAssumption, FS_Interval
  <2>3. Acceptors - 1 \in Nat
    BY CountAssumption
  <2>4. Its = T \X N
    BY DEF Its
  <2> HIDE DEF T, N
  <2>5. Cardinality(T \X N) = Cardinality(T) * Cardinality(N)
    BY <2>1, <2>2, FS_Product
  <2> QED
    BY <2>1, <2>2, <2>3, <2>4, <2>5
<1>11. Cardinality(Started \ Its) = Cardinality(Started) - Cardinality(Started \cap Its)
  BY StartedFinite, FS_Difference
<1> QED
  BY <1>9, <1>10, <1>11
(* The account of the accepts, to which every step of one that begins,     *)
(* completes or is handled adds as much on one side as on the other.       *)
Balanced ==
  /\ IsFiniteSet(Outstanding)
  /\ Cardinality(Outstanding) + Cardinality(Places(Accepts)) + Cardinality(InAccept)
       = Acceptors + (Acceptors - 1) * rearmed + Cardinality(Started)

Accounts == owner # "gone" => Balanced

LEMMA AccountsInit == Init => Accounts
<1> SUFFICES ASSUME Init
             PROVE  Balanced
  BY DEF Accounts
<1>1. InAccept = {} /\ Places(Accepts) = {}
  BY DoingDiffers DEF Init, InAccept, Places
<1>2. Started = {}
  BY <1>1 DEF Started
<1> DEFINE N == 1 .. Acceptors
           O == {1}
<1>3. Outstanding = N \X O
  <2>1. Outstanding = UNION {{a} \X (1 .. 1) : a \in N}
    BY DEF Init, FirstAccepts, Outstanding, AcceptorNumbers
  <2>2. 1 .. 1 = O
    OBVIOUS
  <2> HIDE DEF N, O
  <2>3. UNION {{a} \X O : a \in N} = N \X O
    OBVIOUS
  <2> QED
    BY <2>1, <2>2, <2>3, Zenon
<1>4. IsFiniteSet(N) /\ Cardinality(N) = Acceptors
  BY CountAssumption, FS_Interval
<1>5. IsFiniteSet(O) /\ Cardinality(O) = 1
  BY FS_Singleton
<1> HIDE DEF N, O
<1>6. IsFiniteSet(N \X O) /\ Cardinality(N \X O) = Acceptors * 1
  BY <1>4, <1>5, FS_Product
<1>7. Cardinality(Outstanding) = Acceptors
  BY <1>3, <1>6, CountAssumption
<1>8. rearmed = 0 /\ Cardinality({}) = 0
  BY FS_EmptySet DEF Init
<1> QED
  BY <1>1, <1>2, <1>3, <1>6, <1>7, <1>8, CountAssumption DEF Balanced

(* Steps that leave the accepts alone.                                     *)
LEMMA BalancedStays ==
  ASSUME Balanced, UNCHANGED <<accepting, rearmed>>, InAccept' = InAccept, Started' = Started,
         Cardinality(Places(Accepts)') = Cardinality(Places(Accepts))
  PROVE  Balanced'
<1>1. Outstanding' = Outstanding
  BY DEF Outstanding
<1> QED
  BY <1>1, Zenon DEF Balanced

LEMMA OtherHandler ==
  ASSUME thread \in [Threads -> Doing], NEW t \in Threads, NEW d,
         thread' = [thread EXCEPT ![t] = d],
         thread[t].doing # "accept", d.doing # "accept"
  PROVE  InAccept' = InAccept /\ Started' = Started
<1>1. InAccept' = InAccept \ {t} /\ t \notin InAccept
  BY InAcceptStep DEF InAccept
<1> QED
  BY <1>1, StartedStays

LEMMA BalancedOwner ==
  ASSUME TypeOK, Balanced, OwnerNext \/ Shutdown, owner' # "gone"
  PROVE  Balanced'
<1>0. thread \in [Threads -> Doing]
  BY DEF TypeOK
<1>1. ASSUME NEW t \in Threads, StartThread(t) \/ StoreFails(t)
      PROVE  Balanced'
  <2>1. /\ thread' = [thread EXCEPT ![t] = Waiting] /\ thread[t] = Unborn
        /\ UNCHANGED <<accepting, ready, rearmed>>
    BY <1>1 DEF StartThread, StoreFails, iocVars, logVars
  <2>2. InAccept' = InAccept /\ Started' = Started
    BY <1>0, <2>1, DoingDiffers, OtherHandler
  <2>3. Places(Accepts)' = Places(Accepts)
    BY <2>1 DEF Places
  <2> QED
    BY <2>1, <2>2, <2>3, BalancedStays
<1>2. CASE StartFails \/ Serve \/ Join \/ DestroyLogger \/ Shutdown
  <2>1. UNCHANGED <<accepting, ready, rearmed, thread>>
    BY <1>2 DEF StartFails, Serve, Join, DestroyLogger, Shutdown, iocVars, logVars
  <2>2. InAccept' = InAccept /\ Started' = Started /\ Places(Accepts)' = Places(Accepts)
    BY <2>1 DEF InAccept, Started, Places
  <2> QED
    BY <2>1, <2>2, BalancedStays
<1> QED
  BY <1>1, <1>2 DEF OwnerNext, DestroyRest

LEMMA BalancedNetwork ==
  ASSUME TypeOK, Balanced, NetworkNext
  PROVE  Balanced'
<1>0. ready \in Seq(Handler) /\ UNCHANGED <<thread, rearmed>>
  BY DEF TypeOK, NetworkNext, Connect, AcceptCompletes, AcceptFails, ReadCompletes, ReadFails, logVars
<1>1. InAccept' = InAccept /\ Started' = Started
  BY <1>0 DEF InAccept, Started
<1>2. ASSUME NEW c \in Connections \cup {NoConnection}, NEW a \in AcceptorNumbers,
             accepting[a] > 0, accepting' = [accepting EXCEPT ![a] = @ - 1],
             ready' = Append(ready, AcceptHandler(c))
      PROVE  Balanced'
  <2>1. /\ IsFiniteSet(Outstanding)' /\ Cardinality(Outstanding') = Cardinality(Outstanding) - 1
    BY <1>2, OutstandingCounts DEF Balanced
  <2>2. AcceptHandler(c) \in Handler /\ AcceptHandler(c) \in Accepts
    BY HandlersMade DEF Accepts
  <2>3. Cardinality(Places(Accepts)') = Cardinality(Places(Accepts)) + 1
    BY <1>0, <1>2, <2>2, AppendCounts
  <2>4. Cardinality(Outstanding) \in Nat /\ Cardinality(Places(Accepts)) \in Nat
    BY <1>0, PlacesFinite, FS_CardinalityType DEF Balanced
  <2>5. Cardinality(Outstanding') + Cardinality(Places(Accepts)')
          = Cardinality(Outstanding) + Cardinality(Places(Accepts))
    BY <2>1, <2>3, <2>4
  <2> QED
    BY <1>0, <1>1, <2>1, <2>5, Zenon DEF Balanced
<1>3. ASSUME NEW c \in Connections, Connect(c)
      PROVE  Balanced'
  <2>1. UNCHANGED <<accepting, ready>>
    BY <1>3 DEF Connect, iocVars
  <2>2. Places(Accepts)' = Places(Accepts)
    BY <2>1 DEF Places
  <2> QED
    BY <1>0, <1>1, <2>1, <2>2, BalancedStays
<1>4. ASSUME NEW c \in Connections, AcceptCompletes(c)
      PROVE  Balanced'
  <2>1. Address[c] \in AcceptorNumbers
    BY CountAssumption
  <2> QED
    BY <1>2, <1>4, <2>1 DEF AcceptCompletes
<1>5. ASSUME NEW a \in AcceptorNumbers, AcceptFails(a)
      PROVE  Balanced'
  BY <1>2, <1>5 DEF AcceptFails
<1>6. ASSUME NEW c \in Connections, ReadCompletes(c) \/ ReadFails(c)
      PROVE  Balanced'
  <2>1. PICK failed \in BOOLEAN :
          ready' = Append(ready, ReadHandler(c, failed)) /\ UNCHANGED accepting
    BY <1>6 DEF ReadCompletes, ReadFails
  <2>2. ReadHandler(c, failed) \in Handler /\ ReadHandler(c, failed) \notin Accepts
    BY HandlersMade DEF Accepts
  <2>3. Places(Accepts)' = Places(Accepts)
    BY <1>0, <2>1, <2>2, AppendPlaces
  <2> QED
    BY <1>0, <1>1, <2>1, <2>3, BalancedStays
<1> QED
  BY <1>3, <1>4, <1>5, <1>6 DEF NetworkNext
LEMMA BalancedRunAccept ==
  ASSUME TypeOK, Balanced, NEW t \in Threads, RunAccept(t)
  PROVE  Balanced'
<1>0. ready \in Seq(Handler) /\ thread \in [Threads -> Doing]
  BY DEF TypeOK
<1>1. /\ thread' = [thread EXCEPT ![t] = Accepting(1)] /\ thread[t].doing # "accept"
      /\ ready # <<>> /\ ready' = Tail(ready) /\ Head(ready).kind = "accept"
      /\ UNCHANGED <<accepting, rearmed>>
  BY DoingDiffers DEF RunAccept, MayRun, AcceptAgain, logVars
<1>2. Head(ready) \in Accepts
  BY <1>0, <1>1, HeadTailProperties DEF Accepts
<1>3. Cardinality(Places(Accepts)') = Cardinality(Places(Accepts)) - 1
  BY <1>0, <1>1, <1>2, TailCounts
<1>4. Accepting(1).doing = "accept" /\ Accepting(1).next = 1
  BY DoingDiffers
<1>5. Started' = Started
  BY <1>0, <1>1, <1>4, StartedStays
<1>6. Cardinality(InAccept') = Cardinality(InAccept) + 1
  <2>1. InAccept' = InAccept \cup {t} /\ t \notin InAccept
    BY <1>0, <1>1, <1>4, InAcceptStep DEF InAccept
  <2> QED
    BY <2>1, InAcceptFinite, FS_AddElement
<1>7. Cardinality(Places(Accepts)) \in Nat /\ Cardinality(InAccept) \in Nat
      /\ Cardinality(Outstanding) \in Nat
  BY <1>0, PlacesFinite, InAcceptFinite, FS_CardinalityType DEF Balanced
<1>8. Outstanding' = Outstanding
  BY <1>1 DEF Outstanding
<1>9. Cardinality(Outstanding') + Cardinality(Places(Accepts)') + Cardinality(InAccept')
        = Cardinality(Outstanding) + Cardinality(Places(Accepts)) + Cardinality(InAccept)
  BY <1>3, <1>6, <1>7, <1>8
<1> QED
  BY <1>1, <1>5, <1>8, <1>9, Zenon DEF Balanced

LEMMA BalancedStartAccept ==
  ASSUME TypeOK, Balanced, NEW t \in Threads, StartAccept(t)
  PROVE  Balanced'
<1>0. ready \in Seq(Handler) /\ thread \in [Threads -> Doing] /\ rearmed \in Nat
  BY DEF TypeOK
<1> DEFINE a == thread[t].next
           out == Cardinality(Outstanding)
           in == Cardinality(InAccept)
           queued == Cardinality(Places(Accepts))
           started == Cardinality(Started)
<1>1. t \in InAccept /\ a \in AcceptorNumbers
  BY <1>0, DoingFields DEF StartAccept, InAccept
<1>2. /\ accepting' = [accepting EXCEPT ![a] = @ + 1] /\ UNCHANGED ready
      /\ thread' = [thread EXCEPT ![t] = IF a < Acceptors THEN Accepting(a + 1) ELSE Waiting]
      /\ rearmed' = IF a < Acceptors THEN rearmed ELSE rearmed + 1
  BY DEF StartAccept
<1>3. out \in Nat /\ in \in Nat /\ queued \in Nat /\ started \in Nat /\ Acceptors \in Nat
  BY <1>0, PlacesFinite, InAcceptFinite, StartedFinite, FS_CardinalityType, CountAssumption
     DEF Balanced
<1>4. IsFiniteSet(Outstanding)' /\ Cardinality(Outstanding') = out + 1
  <2> HIDE DEF a
  <2> QED
    BY <1>1, <1>2, OutstandingCounts DEF Balanced
<1>5. Cardinality(Places(Accepts)') = queued
  BY <1>2 DEF Places
<1>6. out + queued + in = Acceptors + (Acceptors - 1) * rearmed + started
  BY DEF Balanced
<1>7. CASE a < Acceptors
  <2>1. thread' = [thread EXCEPT ![t] = Accepting(a + 1)] /\ UNCHANGED rearmed
    BY <1>2, <1>7, Zenon
  <2>2. a + 1 \in AcceptorNumbers
    BY <1>1, <1>7, CountAssumption DEF AcceptorNumbers
  <2>3. Cardinality(Started') = started + 1
    BY <1>0, <1>1, <2>1, <2>2, StartedGrows
  <2>4. InAccept' = InAccept
    <3>1. InAccept' = InAccept \cup {t}
      BY <1>0, <1>1, <2>1, InAcceptStep, DoingDiffers DEF InAccept
    <3> QED
      BY <1>1, <3>1
  <2> DEFINE term == (Acceptors - 1) * rearmed
  <2>5. term \in Int /\ out + queued + in = Acceptors + term + started
    BY <1>0, <1>3, <1>6
  <2> HIDE DEF out, in, queued, started, term
  <2>6. (out + 1) + queued + in = Acceptors + term + (started + 1)
    BY <1>3, <2>5
  <2>7. Cardinality(InAccept') = in
    BY <2>4 DEF in
  <2> QED
    BY <1>4, <1>5, <2>1, <2>3, <2>6, <2>7, Zenon DEF Balanced, term
<1>8. CASE ~(a < Acceptors)
  <2>1. thread' = [thread EXCEPT ![t] = Waiting] /\ rearmed' = rearmed + 1
    BY <1>2, <1>8, Zenon
  <2>2. a = Acceptors
    BY <1>1, <1>8, CountAssumption DEF AcceptorNumbers
  <2>3. Waiting.doing # "accept"
    BY DoingDiffers
  <2>4. Cardinality(Started') = started - (Acceptors - 1)
    BY <1>0, <1>1, <2>1, <2>2, <2>3, StartedEnds
  <2>5. Cardinality(InAccept') = in - 1
    <3>1. t \in Threads
      OBVIOUS
    <3>2. InAccept' = InAccept \ {t}
      BY <1>0, <2>1, <2>3, InAcceptStep
    <3> QED
      BY <1>1, <3>2, InAcceptFinite, FS_RemoveElement
  <2> DEFINE term == (Acceptors - 1) * rearmed
  <2>6. /\ term \in Int /\ out + queued + in = Acceptors + term + started
        /\ (Acceptors - 1) * (rearmed + 1) = term + (Acceptors - 1)
    BY <1>0, <1>3, <1>6
  <2> HIDE DEF out, in, queued, started, term
  <2>7. (out + 1) + queued + (in - 1)
          = Acceptors + (term + (Acceptors - 1)) + (started - (Acceptors - 1))
    BY <1>3, <2>6
  <2> QED
    BY <1>4, <1>5, <2>1, <2>4, <2>5, <2>6, <2>7, Zenon DEF Balanced
<1> QED
  BY <1>7, <1>8

LEMMA BalancedThread ==
  ASSUME TypeOK, Balanced, NEW t \in Threads, ThreadNext(t)
  PROVE  Balanced'
<1>0. ready \in Seq(Handler) /\ thread \in [Threads -> Doing]
  BY DEF TypeOK
<1>1. CASE RunRead(t) \/ RunReadFailed(t)
  <2>1. /\ ready # <<>> /\ ready' = Tail(ready) /\ UNCHANGED <<accepting, rearmed>>
        /\ thread[t].doing = "run" /\ Head(ready).kind = "read"
        /\ \/ UNCHANGED thread
           \/ thread' = [thread EXCEPT ![t] = AfterRead(Head(ready).connection)]
    BY <1>1, DoingDiffers DEF RunRead, RunReadFailed, MayRun, logVars
  <2>2. \A c : AfterRead(c).doing # "accept"
    BY DoingDiffers DEF AfterRead
  <2>3. InAccept' = InAccept /\ Started' = Started
    <3>1. CASE UNCHANGED thread
      BY <3>1 DEF InAccept, Started
    <3>2. CASE thread' = [thread EXCEPT ![t] = AfterRead(Head(ready).connection)]
      BY <1>0, <2>1, <2>2, <3>2, OtherHandler
    <3> QED
      BY <2>1, <3>1, <3>2
  <2>4. Head(ready) \notin Accepts
    BY <2>1 DEF Accepts
  <2>5. Cardinality(Places(Accepts)') = Cardinality(Places(Accepts)) - 0
    BY <1>0, <2>1, <2>4, TailCounts
  <2>6. Cardinality(Places(Accepts)) \in Nat
    BY <1>0, PlacesFinite
  <2>7. Cardinality(Places(Accepts)') = Cardinality(Places(Accepts))
    BY <2>5, <2>6
  <2> QED
    BY <2>1, <2>3, <2>7, BalancedStays
<1>2. CASE Push(t) \/ Reread(t) \/ Return(t)
  <2>1. PICK d : /\ thread' = [thread EXCEPT ![t] = d] /\ d.doing # "accept"
                 /\ thread[t].doing # "accept"
                 /\ UNCHANGED <<accepting, ready, rearmed>>
    BY <1>2, DoingDiffers DEF Push, Reread, Return, iocVars, logVars
  <2>2. InAccept' = InAccept /\ Started' = Started
    BY <1>0, <2>1, OtherHandler
  <2>3. Places(Accepts)' = Places(Accepts)
    BY <2>1 DEF Places
  <2> QED
    BY <2>1, <2>2, <2>3, BalancedStays
<1> QED
  BY <1>1, <1>2, BalancedRunAccept, BalancedStartAccept DEF ThreadNext

LEMMA AccountsStep == TypeOK /\ Accounts /\ [Next]_vars => Accounts'
<1> SUFFICES ASSUME TypeOK, Accounts, [Next]_vars, owner' # "gone"
             PROVE  Balanced'
  BY DEF Accounts
<1>1. owner # "gone"
  <2>1. owner = "gone" => owner' = owner
    <3> SUFFICES ASSUME owner = "gone" PROVE owner' = owner
      OBVIOUS
    <3>1. ~OwnerNext /\ ~Shutdown
      BY DEF OwnerNext, Shutdown, StartThread, StoreFails, StartFails, Serve, Join,
             DestroyLogger, DestroyRest
    <3>2. \A t \in Threads : ThreadNext(t) => UNCHANGED owner
      BY ThreadIsAlive DEF ownerVars
    <3>3. NetworkNext => UNCHANGED owner
      BY DEF NetworkNext, Connect, AcceptCompletes, AcceptFails, ReadCompletes, ReadFails, ownerVars
    <3> QED
      BY <3>1, <3>2, <3>3 DEF Next, Finished, vars, ownerVars
  <2> QED
    BY <2>1
<1>2. Balanced
  BY <1>1 DEF Accounts
<1>3. CASE Finished \/ UNCHANGED vars
  <2>1. UNCHANGED <<accepting, ready, thread, rearmed>>
    BY <1>3 DEF Finished, vars, iocVars, logVars
  <2>2. InAccept' = InAccept /\ Started' = Started /\ Places(Accepts)' = Places(Accepts)
    BY <2>1 DEF InAccept, Started, Places
  <2> QED
    BY <1>2, <2>1, <2>2, BalancedStays
<1> QED
  BY <1>2, <1>3, BalancedOwner, BalancedNetwork, BalancedThread DEF Next

(* Each accept that completes leaves as many outstanding as there were,    *)
(* and one more for each other acceptor, since accept() starts one on all  *)
(* of them (src/server.cpp:134-161); none is forgotten and no other is     *)
(* started, for any number of threads, acceptors and failed accepts.       *)
THEOREM AcceptsAreCounted == Spec => []AcceptsAccumulate
<1>1. TypeOK /\ Accounts => AcceptsAccumulate
  <2> SUFFICES ASSUME TypeOK, Accounts, owner # "gone"
               PROVE  AcceptsAccumulate
    BY DEF AcceptsAccumulate
  <2>1. QueuedAccepts = Places(Accepts)
    <3>1. \A i \in DOMAIN ready : ready[i] \in Handler
      <4>1. ready \in Seq(Handler)
        BY DEF TypeOK
      <4> QED
        BY <4>1, LenProperties, ElementOfSeq
    <3> QED
      BY <3>1 DEF QueuedAccepts, Places, Accepts
  <2> QED
    BY <2>1, Zenon DEF Accounts, Balanced, AcceptsAccumulate
<1> QED
  BY <1>1, TypeInit, TypeStep, AccountsInit, AccountsStep, PTL DEF Spec
===============================================================================
