---------------------------- MODULE SessionProofs ----------------------------
(***************************************************************************)
(* Proofs about Session, for any bytes and texts, any json, and buffers    *)
(* and streams of any size.                                                *)
(***************************************************************************)
EXTENDS Session, SequenceTheorems, WellFoundedInduction, TLAPS

-------------------------------------------------------------------------------
(* Searching.                                                              *)

LEMMA LeastNumber ==
  ASSUME NEW S, S \subseteq Nat, S # {}
  PROVE  \E m \in S : \A n \in S : m <= n
<1> DEFINE Less == OpToRel(<, Nat)
<1>1. IsWellFoundedOn(Less, Nat)
  BY NatLessThanWellFounded
<1>2. PICK m \in S : \A n \in S : <<n, m>> \notin Less
  <2> HIDE DEF Less
  <2> QED
    BY <1>1, WFMin
<1>3. \A n \in S : ~(n < m)
  BY <1>2 DEF OpToRel
<1> HIDE DEF Less
<1> QED
  BY <1>3

-------------------------------------------------------------------------------
(* Types.                                                                  *)

Typed == TypeOK /\ Len(current) <= Len(received)

LEMMA SubSeqType ==
  ASSUME NEW S, NEW seq \in Seq(S), NEW m \in 1 .. Len(seq) + 1, NEW n \in m - 1 .. Len(seq)
  PROVE  /\ SubSeq(seq, m, n) \in Seq(S)
         /\ Len(SubSeq(seq, m, n)) = n - m + 1
         /\ \A k \in 1 .. n - m + 1 : SubSeq(seq, m, n)[k] = seq[m + k - 1]
BY SubSeqProperties

LEMMA TypedInit == Init => Typed
<1> SUFFICES ASSUME Init PROVE Typed
  OBVIOUS
<1>1. hungUp \in BOOLEAN
  BY Zenon DEF Init
<1> QED
  BY <1>1 DEF Init, Typed, TypeOK

LEMMA TypedStep == Typed /\ [Next]_vars => Typed'
<1> SUFFICES ASSUME Typed, [Next]_vars PROVE Typed'
  OBVIOUS
<1> USE DEF Typed, TypeOK
<1>1. CASE Write
  <2>1. PICK text \in Texts :
          /\ stream' = stream \o text
          /\ written' = Append(written, [at |-> Len(received) + Len(stream) + 1, text |-> text])
    BY <1>1 DEF Write
  <2>2. text \in Seq(Bytes)
    BY TextAssumption
  <2>3. stream' \in Seq(Bytes)
    BY <2>1, <2>2, ConcatProperties
  <2>4. Len(received) + Len(stream) + 1 \in Nat \ {0}
    BY LenProperties
  <2>5. written' \in Seq([at : Nat \ {0}, text : Texts])
    BY <2>1, <2>4, AppendProperties
  <2> QED
    BY <1>1, <2>3, <2>5 DEF Write
<1>2. CASE HangUp
  <2>1. hungUp' \in BOOLEAN
    BY <1>2, Zenon DEF HangUp
  <2> QED
    BY <1>2, <2>1 DEF HangUp
<1>3. CASE Read
  <2>1. PICK n \in 1 .. BufferSize :
          /\ n <= Len(stream)
          /\ current' = current \o SubSeq(stream, 1, n)
          /\ received' = received \o SubSeq(stream, 1, n)
          /\ stream' = SubSeq(stream, n + 1, Len(stream))
    BY <1>3 DEF Read, AppendData
  <2>2. n \in Nat /\ n \in 0 .. Len(stream) /\ n + 1 \in 1 .. Len(stream) + 1
    BY <2>1, SizeAssumption, LenProperties
  <2>3. SubSeq(stream, 1, n) \in Seq(Bytes) /\ stream' \in Seq(Bytes)
    <3>1. SubSeq(stream, 1, n) \in Seq(Bytes)
      BY <2>2, SubSeqType
    <3>2. SubSeq(stream, n + 1, Len(stream)) \in Seq(Bytes)
      BY <2>2, SubSeqType
    <3> QED
      BY <2>1, <3>1, <3>2
  <2>4. /\ current' \in Seq(Bytes) /\ Len(current') = Len(current) + Len(SubSeq(stream, 1, n))
        /\ received' \in Seq(Bytes) /\ Len(received') = Len(received) + Len(SubSeq(stream, 1, n))
    BY <2>1, <2>3, ConcatProperties
  <2>5. Len(current') <= Len(received')
    BY <2>3, <2>4, LenProperties
  <2> QED
    BY <1>3, <2>3, <2>4, <2>5 DEF Read
<1>4. CASE FindOne
  <2>1. PICK is \in 1 .. Len(current) : \E ie \in is .. Len(current) :
          /\ elements' = Append(elements, ElementAt(Len(received) - Len(current) + is,
                                                    SubSeq(current, is, ie)))
          /\ current' = SubSeq(current, ie + 1, Len(current))
    BY <1>4 DEF FindOne, EraseUpTo
  <2>2. PICK ie \in is .. Len(current) :
          /\ elements' = Append(elements, ElementAt(Len(received) - Len(current) + is,
                                                    SubSeq(current, is, ie)))
          /\ current' = SubSeq(current, ie + 1, Len(current))
    BY <2>1
  <2>3. Len(current) \in Nat /\ Len(received) \in Nat
    BY LenProperties
  <2>4. SubSeq(current, is, ie) \in Seq(Bytes)
    BY <2>3, SubSeqType
  <2>5. current' \in Seq(Bytes) /\ Len(current') <= Len(current)
    BY <2>2, <2>3, SubSeqType
  <2>6. ElementAt(Len(received) - Len(current) + is, SubSeq(current, is, ie)) \in Element
    <3>1. ASSUME NEW text \in Seq(Bytes)
          PROVE  (text \in Json) \in BOOLEAN
      <4>1. CASE text \in Json
        BY <4>1
      <4>2. CASE text \notin Json
        BY <4>2
      <4> QED
        BY <4>1, <4>2
    <3> QED
      BY <2>3, <2>4, <3>1 DEF ElementAt, Element
  <2>7. elements' \in Seq(Element)
    BY <2>2, <2>6, AppendProperties
  <2> QED
    BY <1>4, <2>3, <2>5, <2>7 DEF FindOne, peerVars
<1>5. CASE PushBatch
  BY <1>5, ConcatProperties, EmptySeq DEF PushBatch, ReadAgain, peerVars
<1>6. CASE ReadEof \/ ReadError
  <2>1. current' = <<>> /\ UNCHANGED received
    BY <1>6 DEF ReadEof, ReadError
  <2>2. current' \in Seq(Bytes) /\ Len(current') <= Len(received')
    BY <2>1, EmptySeq, LenProperties
  <2> QED
    BY <1>6, <2>2 DEF ReadEof, ReadError, peerVars
<1>7. CASE Finished \/ UNCHANGED vars
  BY <1>7 DEF Finished, vars, peerVars
<1> QED
  BY <1>1, <1>2, <1>3, <1>4, <1>5, <1>6, <1>7 DEF Next, SessionNext

(* Every variable of a session keeps its type (src/session.cpp:9-24), and  *)
(* no position of a log is below 1, for any cut of any stream into reads.  *)
THEOREM TypeCorrect == Spec => []TypeOK
<1>1. Typed => TypeOK
  BY DEF Typed
<1> QED
  BY <1>1, TypedInit, TypedStep, PTL DEF Spec
-------------------------------------------------------------------------------
(* Logs of a byte stream.                                                  *)

(* Whether a stretch is a log depends on no byte behind it.                *)
LEMMA LogIsLocal ==
  ASSUME NEW bytes, NEW longer, NEW i \in Nat \ {0}, NEW j \in Nat,
         \A k \in 1 .. j : bytes[k] = longer[k]
  PROVE  IsLog(bytes, i, j) <=> IsLog(longer, i, j)
BY DEF IsLog

LEMMA OneLogPerEnd ==
  ASSUME NEW bytes, NEW h \in Nat \ {0}, NEW i \in Nat \ {0}, NEW j \in Nat,
         IsLog(bytes, h, j), IsLog(bytes, i, j)
  PROVE  h = i
<1>1. ASSUME NEW f \in Nat \ {0}, NEW g \in Nat \ {0}, IsLog(bytes, f, j), IsLog(bytes, g, j), f < g
      PROVE  FALSE
  <2>1. PICK k \in f .. g - 1 : bytes[k] = End
    BY <1>1 DEF IsLog
  <2> QED
    BY <1>1, <2>1 DEF IsLog
<1> QED
  BY <1>1

(* A log does not reach across an end byte.                                *)
LEMMA NoLogAcross ==
  ASSUME NEW bytes, NEW b \in Nat, b = 0 \/ bytes[b] = End,
         NEW i \in Nat \ {0}, NEW j \in Nat, b < j, IsLog(bytes, i, j)
  PROVE  b < i
BY DEF IsLog

-------------------------------------------------------------------------------
(* Framing.                                                                *)

(* How many of the bytes read have been erased from m_current.             *)
Erased == Len(received) - Len(current)

(* m_current is the end of what was read.                                  *)
Remainder ==
  /\ Len(current) <= Len(received)
  /\ \A k \in 1 .. Len(current) : current[k] = received[Erased + k]

(* Bytes are erased up to and with an end byte, so no log reaches across.  *)
Boundary == pc \in {"reading", "scanning"} => Erased = 0 \/ received[Erased] = End

(* The elements are logs, in order, of the part that was erased.           *)
IsElement(e) ==
  /\ Last(e) <= Erased
  /\ IsLog(received, e.at, Last(e))
  /\ e.text = SubSeq(received, e.at, Last(e))

(* No element is anything else.                                            *)
AllAreLogs ==
  /\ \A k, l \in 1 .. Len(Extracted) : k < l => Last(Extracted[k]) < Extracted[l].at
  /\ \A k \in 1 .. Len(Extracted) : IsElement(Extracted[k])

(* All logs of that part have been made elements, and between two reads    *)
(* there are no others.                                                    *)
AllLogsAre ==
  /\ \A i, j \in 1 .. Erased : IsLog(received, i, j) =>
       \E k \in 1 .. Len(Extracted) : Extracted[k].at = i /\ Last(Extracted[k]) = j
  /\ pc # "scanning" =>
       /\ elements = <<>>
       /\ \A i, j \in 1 .. Len(received) : IsLog(received, i, j) => j <= Erased

FramingInv == Remainder /\ Boundary /\ AllAreLogs /\ AllLogsAre

LEMMA FramingInit == Init => FramingInv
<1> SUFFICES ASSUME Init PROVE FramingInv
  OBVIOUS
<1>1. Len(current) = 0 /\ Len(received) = 0 /\ Len(Extracted) = 0 /\ elements = <<>>
  BY DEF Init, Extracted
<1> QED
  BY <1>1 DEF FramingInv, Remainder, Boundary, AllAreLogs, AllLogsAre, Erased

(* A step that leaves the bytes erased where they were, and the elements,  *)
(* keeps what is said of them.                                             *)
LEMMA SameElements ==
  ASSUME Typed, FramingInv, Extracted' = Extracted, Erased' = Erased,
         Len(received') >= Len(received), received' \in Seq(Bytes),
         \A k \in 1 .. Len(received) : received'[k] = received[k]
  PROVE  /\ AllAreLogs'
         /\ \A i, j \in 1 .. Erased' : IsLog(received', i, j) =>
              \E k \in 1 .. Len(Extracted') : Extracted'[k].at = i /\ Last(Extracted'[k]) = j
<1>0. /\ Len(received) \in Nat /\ Len(current) \in Nat /\ Len(received') \in Nat
      /\ Erased \in 0 .. Len(received)
      /\ Extracted \in Seq(Element)
  BY LenProperties, ConcatProperties DEF Typed, TypeOK, Erased, Extracted
<1>1. \A i, j \in 1 .. Erased : IsLog(received', i, j) <=> IsLog(received, i, j)
  BY <1>0, LogIsLocal
<1>2. ASSUME NEW k \in 1 .. Len(Extracted)
      PROVE  IsElement(Extracted[k])'
  <2> DEFINE e == Extracted[k]
  <2>1. IsElement(e)
    BY DEF FramingInv, AllAreLogs
  <2>2. e \in Element
    BY <1>0, ElementOfSeq
  <2> HIDE DEF e
  <2>a. e.at \in Nat \ {0} /\ e.text \in Seq(Bytes)
    BY <2>2 DEF Element
  <2>b. Last(e) \in Int
    BY <2>a, LenProperties DEF Last
  <2>3. /\ e.at \in Nat \ {0} /\ Last(e) \in Nat /\ e.at < Last(e) /\ Last(e) <= Len(received)
        /\ e.at \in 1 .. Len(received) + 1 /\ Last(e) \in e.at - 1 .. Len(received)
    BY <1>0, <2>1, <2>a, <2>b DEF IsElement, IsLog
  <2>4. IsLog(received', e.at, Last(e))
    BY <1>0, <1>1, <2>1, <2>3 DEF IsElement
  <2>5. SubSeq(received', e.at, Last(e)) = SubSeq(received, e.at, Last(e))
    <3>1. /\ SubSeq(received, e.at, Last(e)) \in Seq(Bytes)
          /\ Len(SubSeq(received, e.at, Last(e))) = Last(e) - e.at + 1
          /\ \A n \in 1 .. Last(e) - e.at + 1 :
               SubSeq(received, e.at, Last(e))[n] = received[e.at + n - 1]
      <4>1. received \in Seq(Bytes)
        BY DEF Typed, TypeOK
      <4> QED
        BY <2>3, <4>1, SubSeqType
    <3>2. /\ SubSeq(received', e.at, Last(e)) \in Seq(Bytes)
          /\ Len(SubSeq(received', e.at, Last(e))) = Last(e) - e.at + 1
          /\ \A n \in 1 .. Last(e) - e.at + 1 :
               SubSeq(received', e.at, Last(e))[n] = received'[e.at + n - 1]
      <4>1. e.at \in 1 .. Len(received') + 1 /\ Last(e) \in e.at - 1 .. Len(received')
        BY <1>0, <2>3
      <4> QED
        BY <4>1, SubSeqType
    <3>3. ASSUME NEW n \in 1 .. Last(e) - e.at + 1
          PROVE  received'[e.at + n - 1] = received[e.at + n - 1]
      <4>1. n \in Nat /\ 1 <= n /\ n <= Last(e) - e.at + 1
        BY <2>3
      <4>2. Len(received) \in Nat
        BY <1>0
      <4>3. e.at + n - 1 \in 1 .. Len(received)
        BY <2>3, <4>1, <4>2
      <4> QED
        BY <1>0, <4>3
    <3> QED
      BY <3>1, <3>2, <3>3, SeqEqual
  <2>6. Extracted'[k] = e
    BY DEF e
  <2> QED
    BY <1>0, <2>1, <2>4, <2>5, <2>6 DEF IsElement
<1> QED
  BY <1>1, <1>2 DEF FramingInv, AllAreLogs, AllLogsAre

LEMMA ReadFrames ==
  ASSUME Typed, FramingInv, Read
  PROVE  FramingInv'
<1> USE DEF Typed, TypeOK
<1>1. PICK n \in 1 .. BufferSize :
        /\ n <= Len(stream)
        /\ current' = current \o SubSeq(stream, 1, n)
        /\ received' = received \o SubSeq(stream, 1, n)
  BY DEF Read, AppendData
<1> DEFINE new == SubSeq(stream, 1, n)
<1>2. n \in Nat /\ n \in 0 .. Len(stream) /\ Len(current) \in Nat /\ Len(received) \in Nat
  BY <1>1, SizeAssumption, LenProperties
<1>3. new \in Seq(Bytes) /\ Len(new) = n
  BY <1>2, SubSeqType
<1> HIDE DEF new
<1>4. /\ current' \in Seq(Bytes) /\ Len(current') = Len(current) + n
      /\ \A k \in 1 .. Len(current) + n :
           current'[k] = IF k <= Len(current) THEN current[k] ELSE new[k - Len(current)]
  BY <1>1, <1>3, ConcatProperties DEF new
<1>5. /\ received' \in Seq(Bytes) /\ Len(received') = Len(received) + n
      /\ \A k \in 1 .. Len(received) + n :
           received'[k] = IF k <= Len(received) THEN received[k] ELSE new[k - Len(received)]
  BY <1>1, <1>3, ConcatProperties DEF new
<1>6. Erased' = Erased /\ Erased \in 0 .. Len(received)
  BY <1>2, <1>4, <1>5 DEF Erased
<1>7. /\ pc = "reading" /\ pc' = "scanning" /\ elements = <<>>
      /\ elements' = <<>> /\ pushed' = pushed
  BY DEF Read, FramingInv, AllLogsAre
<1>8. Extracted' = Extracted
  BY <1>7 DEF Extracted
<1>9. Remainder'
  <2>1. ASSUME NEW k \in 1 .. Len(current'), NEW m, m = Erased + k
        PROVE  current'[k] = received'[m]
    <3>1. k \in 1 .. Len(current) + n /\ m \in 1 .. Len(received) + n
      BY <1>2, <1>4, <2>1 DEF Erased
    <3>2. CASE k <= Len(current)
      <4>1. current[k] = received[m] /\ m <= Len(received)
        BY <1>2, <2>1, <3>1, <3>2 DEF FramingInv, Remainder, Erased
      <4> QED
        BY <1>4, <1>5, <3>1, <3>2, <4>1
    <3>3. CASE k > Len(current)
      <4>1. ~(m <= Len(received)) /\ m - Len(received) = k - Len(current)
        BY <1>2, <2>1, <3>1, <3>3 DEF Erased
      <4>2. current'[k] = new[k - Len(current)]
        BY <1>2, <1>4, <3>1, <3>3
      <4>3. received'[m] = new[m - Len(received)]
        BY <1>5, <3>1, <4>1
      <4> QED
        BY <4>1, <4>2, <4>3
    <3> QED
      BY <1>2, <3>1, <3>2, <3>3
  <2>2. \A k \in 1 .. Len(current') : current'[k] = received'[Erased + k]
    BY <2>1
  <2> QED
    BY <1>2, <1>4, <1>5, <1>6, <2>2 DEF Remainder
<1>10. Boundary'
  BY <1>2, <1>5, <1>6, <1>7 DEF FramingInv, Boundary
<1>11. /\ AllAreLogs'
       /\ \A i, j \in 1 .. Erased' : IsLog(received', i, j) =>
            \E k \in 1 .. Len(Extracted') : Extracted'[k].at = i /\ Last(Extracted'[k]) = j
  BY <1>2, <1>5, <1>6, <1>8, SameElements
<1> QED
  BY <1>7, <1>9, <1>10, <1>11 DEF FramingInv, AllLogsAre

(* The element found is the next log of the stream.                        *)
LEMMA FoundIsLog ==
  ASSUME Typed, FramingInv, pc = "scanning",
         NEW is \in 1 .. Len(current), NEW ie \in is .. Len(current), Delimits(is, ie)
  PROVE  /\ is < ie
         /\ IsLog(received, Erased + is, Erased + ie)
         /\ \A h, j \in 1 .. Erased + ie : IsLog(received, h, j) =>
              j <= Erased \/ (h = Erased + is /\ j = Erased + ie)
<1>0. /\ Len(current) \in Nat /\ Len(received) \in Nat /\ Erased \in Nat
      /\ Len(current) + Erased = Len(received)
  BY LenProperties DEF Typed, TypeOK, Erased
<1>1. \A k \in 1 .. Len(current) : received[Erased + k] = current[k]
  BY DEF FramingInv, Remainder
<1>2. Erased = 0 \/ received[Erased] = End
  BY DEF FramingInv, Boundary
<1>3. /\ is < ie /\ current[is] = Start /\ current[ie] = End
      /\ \A k \in 1 .. is - 1 : current[k] # Start
      /\ \A k \in is + 1 .. ie - 1 : current[k] # End
  BY <1>0 DEF Delimits, IsFirst
<1> DEFINE i == Erased + is
           j == Erased + ie
<1>4. i \in Nat \ {0} /\ j \in Nat \ {0} /\ i < j /\ received[i] = Start /\ received[j] = End
  BY <1>0, <1>1, <1>3
<1>5. ASSUME NEW k \in i .. j - 1
      PROVE  received[k] # End
  <2>1. k - Erased \in is .. ie - 1 /\ k - Erased \in 1 .. Len(current) /\ k = Erased + (k - Erased)
    BY <1>0
  <2>2. received[k] = current[k - Erased]
    BY <1>1, <2>1
  <2>3. k - Erased = is \/ k - Erased \in is + 1 .. ie - 1
    BY <2>1
  <2> QED
    BY <1>3, <2>2, <2>3, ByteAssumption
<1>6. ASSUME NEW h \in 1 .. i - 1, received[h] = Start
      PROVE  h <= Erased
  <2> SUFFICES ASSUME h > Erased PROVE FALSE
    BY <1>0
  <2>1. h - Erased \in 1 .. is - 1 /\ h - Erased \in 1 .. Len(current) /\ h = Erased + (h - Erased)
    BY <1>0
  <2> QED
    BY <1>1, <1>3, <1>6, <2>1
<1>7. IsLog(received, i, j)
  <2>1. ASSUME NEW h \in 1 .. i - 1, received[h] = Start
        PROVE  \E k \in h .. i - 1 : received[k] = End
    <3>1. h <= Erased
      BY <1>6, <2>1
    <3>2. Erased \in h .. i - 1 /\ Erased # 0
      BY <1>0, <3>1
    <3> QED
      BY <1>2, <3>2
  <2> HIDE DEF i, j
  <2> QED
    BY <1>4, <1>5, <2>1 DEF IsLog
<1>8. ASSUME NEW h \in 1 .. j, NEW l \in 1 .. j, IsLog(received, h, l), ~(l <= Erased)
      PROVE  h = i /\ l = j
  <2>1. Erased < l /\ Erased < h /\ h < l
    <3>1. Erased < l /\ h < l
      BY <1>0, <1>4, <1>8 DEF IsLog
    <3> QED
      BY <1>0, <1>2, <1>4, <1>8, <3>1, NoLogAcross
  <2>2. l = j
    <3> SUFFICES ASSUME l # j PROVE FALSE
      OBVIOUS
    <3>1. received[l] = End /\ received[h] = Start
      BY <1>8 DEF IsLog
    <3>2. l < i
      BY <1>0, <1>4, <1>5, <2>1, <3>1
    <3> QED
      BY <1>0, <1>4, <1>6, <2>1, <3>1, <3>2
  <2> QED
    BY <1>4, <1>7, <1>8, <2>2, OneLogPerEnd
<1> QED
  BY <1>3, <1>7, <1>8

LEMMA FindOneFrames ==
  ASSUME Typed, FramingInv, FindOne
  PROVE  FramingInv'
<1>1. PICK is \in 1 .. Len(current) : \E ie \in is .. Len(current) :
        /\ Delimits(is, ie)
        /\ elements' = Append(elements, ElementAt(Len(received) - Len(current) + is,
                                                  SubSeq(current, is, ie)))
        /\ current' = SubSeq(current, ie + 1, Len(current))
  BY DEF FindOne, EraseUpTo
<1>2. PICK ie \in is .. Len(current) :
        /\ Delimits(is, ie)
        /\ elements' = Append(elements, ElementAt(Len(received) - Len(current) + is,
                                                  SubSeq(current, is, ie)))
        /\ current' = SubSeq(current, ie + 1, Len(current))
  BY <1>1
<1>3. pc = "scanning" /\ UNCHANGED <<peerVars, pc, pushed, received>>
  BY DEF FindOne
<1>0. /\ Len(current) \in Nat /\ Len(received) \in Nat /\ Erased \in Nat
      /\ Len(current) + Erased = Len(received)
      /\ current \in Seq(Bytes) /\ received \in Seq(Bytes)
      /\ elements \in Seq(Element) /\ pushed \in Seq(Element)
  BY LenProperties DEF Typed, TypeOK, Erased
<1> DEFINE i == Erased + is
           j == Erased + ie
           e == ElementAt(i, SubSeq(current, is, ie))
<1>4. /\ is < ie /\ IsLog(received, i, j)
      /\ \A h, l \in 1 .. j : IsLog(received, h, l) => l <= Erased \/ (h = i /\ l = j)
  BY <1>2, <1>3, FoundIsLog
<1>5. i \in Nat \ {0} /\ j \in Nat \ {0} /\ i < j /\ j <= Len(received)
  BY <1>0, <1>4
<1>6. /\ current' \in Seq(Bytes) /\ Len(current') = Len(current) - ie
      /\ \A k \in 1 .. Len(current) - ie : current'[k] = current[ie + k]
  <2>1. ie + 1 \in 1 .. Len(current) + 1 /\ Len(current) \in (ie + 1) - 1 .. Len(current)
    BY <1>0
  <2>2. /\ current' \in Seq(Bytes) /\ Len(current') = Len(current) - (ie + 1) + 1
        /\ \A k \in 1 .. Len(current) - (ie + 1) + 1 : current'[k] = current[(ie + 1) + k - 1]
    BY <1>0, <1>2, <2>1, SubSeqType
  <2> QED
    BY <1>0, <2>2
<1>7. Erased' = j
  BY <1>0, <1>3, <1>6 DEF Erased
<1>8. /\ SubSeq(current, is, ie) \in Seq(Bytes) /\ Len(SubSeq(current, is, ie)) = ie - is + 1
      /\ \A k \in 1 .. ie - is + 1 : SubSeq(current, is, ie)[k] = current[is + k - 1]
  BY <1>0, SubSeqType
<1>9. /\ e.at = i /\ e.text = SubSeq(current, is, ie) /\ Last(e) = j
  BY <1>0, <1>8 DEF ElementAt, Last
<1>10. e.text = SubSeq(received, i, j)
  <2>1. i \in 1 .. Len(received) + 1 /\ j \in i - 1 .. Len(received)
    BY <1>0, <1>5
  <2>2. /\ SubSeq(received, i, j) \in Seq(Bytes) /\ Len(SubSeq(received, i, j)) = j - i + 1
        /\ \A k \in 1 .. j - i + 1 : SubSeq(received, i, j)[k] = received[i + k - 1]
    BY <1>0, <2>1, SubSeqType
  <2>3. ASSUME NEW k \in 1 .. ie - is + 1
        PROVE  received[i + k - 1] = current[is + k - 1]
    <3>1. is + k - 1 \in 1 .. Len(current) /\ i + k - 1 = Erased + (is + k - 1)
      BY <1>0
    <3> QED
      BY <3>1 DEF FramingInv, Remainder
  <2>4. j - i + 1 = ie - is + 1
    BY <1>0
  <2> DEFINE found == SubSeq(current, is, ie)
             original == SubSeq(received, i, j)
  <2>5. /\ found \in Seq(Bytes) /\ original \in Seq(Bytes) /\ Len(found) = Len(original)
        /\ \A k \in 1 .. Len(found) : found[k] = original[k]
    <3> HIDE DEF i, j
    <3> QED
      BY <1>8, <2>2, <2>3, <2>4
  <2>6. e.text = found
    BY <1>9
  <2> HIDE DEF i, j, e, found
  <2>7. found = original
    <3> HIDE DEF original
    <3> QED
      BY <2>5, SeqEqual
  <2> QED
    BY <2>6, <2>7
<1>11. e \in Element
  BY <1>0, <1>8, <1>5 DEF Typed, TypeOK, Element, ElementAt
<1>12. /\ Extracted \in Seq(Element) /\ Extracted' \in Seq(Element)
       /\ Extracted' = Append(Extracted, e)
  <2>1. elements' = Append(elements, e)
    BY <1>2 DEF Erased
  <2> HIDE DEF e
  <2>2. pushed \o Append(elements, e) = Append(pushed \o elements, e)
    BY <1>0, <1>11
  <2> QED
    BY <1>0, <1>3, <1>11, <2>1, <2>2, ConcatProperties, AppendProperties DEF Extracted
<1> HIDE DEF e, i, j
<1>13. /\ Len(Extracted) \in Nat /\ Len(Extracted') = Len(Extracted) + 1
       /\ Extracted'[Len(Extracted) + 1] = e
       /\ \A k \in 1 .. Len(Extracted) : Extracted'[k] = Extracted[k]
  BY <1>11, <1>12, AppendProperties, LenProperties
<1>14. \A k \in 1 .. Len(Extracted) : /\ Extracted[k].at \in Int /\ Last(Extracted[k]) \in Int
                                      /\ IsElement(Extracted[k])
  <2>1. ASSUME NEW x \in Element
        PROVE  x.at \in Int /\ Last(x) \in Int
    BY <2>1, LenProperties DEF Element, Last
  <2> QED
    BY <1>12, <2>1, ElementOfSeq DEF FramingInv, AllAreLogs
<1>15. Remainder'
  <2>1. ASSUME NEW k \in 1 .. Len(current')
        PROVE  current'[k] = received'[Erased' + k]
    <3>1. /\ k \in 1 .. Len(current) - ie /\ ie + k \in 1 .. Len(current)
          /\ j + k = Erased + (ie + k)
      BY <1>0, <1>6 DEF j
    <3>2. current[ie + k] = received[j + k]
      BY <3>1 DEF FramingInv, Remainder
    <3> QED
      BY <1>3, <1>6, <1>7, <3>1, <3>2
  <2> QED
    BY <1>0, <1>3, <1>6, <2>1 DEF Remainder
<1>16. Boundary'
  BY <1>3, <1>4, <1>7 DEF Boundary, IsLog
<1>17. AllAreLogs'
  <2>1. ASSUME NEW k \in 1 .. Len(Extracted')
        PROVE  IsElement(Extracted[k])'
    <3>1. CASE k = Len(Extracted) + 1
      <4>1. PICK x : x = e
        OBVIOUS
      <4>2. /\ x.at = i /\ Last(x) = j /\ x.text = SubSeq(received, i, j)
            /\ Extracted'[k] = x
        BY <1>9, <1>10, <1>13, <3>1, <4>1
      <4>3. IsElement(x)'
        BY <1>3, <1>4, <1>5, <1>7, <4>2 DEF IsElement
      <4> QED
        BY <4>2, <4>3 DEF IsElement
    <3>2. CASE k # Len(Extracted) + 1
      <4>1. k \in 1 .. Len(Extracted) /\ Extracted'[k] = Extracted[k] /\ Erased < j
        BY <1>0, <1>13, <3>2 DEF j
      <4> QED
        BY <1>0, <1>3, <1>5, <1>7, <1>14, <4>1 DEF IsElement
    <3> QED
      BY <3>1, <3>2
  <2>2. ASSUME NEW k \in 1 .. Len(Extracted'), NEW l \in 1 .. Len(Extracted'), k < l
        PROVE  Last(Extracted'[k]) < Extracted'[l].at
    <3>1. k \in 1 .. Len(Extracted) /\ Extracted'[k] = Extracted[k]
      BY <1>13, <2>2
    <3>2. CASE l = Len(Extracted) + 1
      <4>1. Last(Extracted[k]) <= Erased /\ Erased < i
        BY <1>0, <1>14, <3>1 DEF IsElement, i
      <4> QED
        BY <1>0, <1>5, <1>9, <1>13, <1>14, <3>1, <3>2, <4>1
    <3>3. CASE l # Len(Extracted) + 1
      <4>1. l \in 1 .. Len(Extracted) /\ Extracted'[l] = Extracted[l]
        BY <1>13, <3>3
      <4> QED
        BY <2>2, <3>1, <4>1 DEF FramingInv, AllAreLogs
    <3> QED
      BY <3>2, <3>3
  <2> QED
    BY <2>1, <2>2 DEF AllAreLogs
<1>18. AllLogsAre'
  <2>1. ASSUME NEW h \in 1 .. j, NEW l \in 1 .. j, IsLog(received, h, l)
        PROVE  \E k \in 1 .. Len(Extracted') : Extracted'[k].at = h /\ Last(Extracted'[k]) = l
    <3>1. CASE l <= Erased
      <4>1. h \in 1 .. Erased /\ l \in 1 .. Erased
        BY <1>0, <1>5, <2>1, <3>1 DEF IsLog
      <4>2. PICK k \in 1 .. Len(Extracted) : Extracted[k].at = h /\ Last(Extracted[k]) = l
        BY <2>1, <4>1 DEF FramingInv, AllLogsAre
      <4> QED
        BY <1>13, <4>2
    <3>2. CASE h = i /\ l = j
      BY <1>9, <1>13, <3>2
    <3> QED
      BY <1>4, <2>1, <3>1, <3>2
  <2> QED
    BY <1>3, <1>7, <2>1 DEF AllLogsAre
<1> QED
  BY <1>15, <1>16, <1>17, <1>18 DEF FramingInv

LEMMA NothingFound ==
  ASSUME Typed, FramingInv, pc = "scanning",
         ~ \E is \in 1 .. Len(current) : \E ie \in is .. Len(current) : Delimits(is, ie),
         NEW i \in 1 .. Len(received), NEW j \in 1 .. Len(received), IsLog(received, i, j)
  PROVE  j <= Erased
<1> SUFFICES ASSUME ~(j <= Erased) PROVE FALSE
  OBVIOUS
<1>0. /\ Len(current) \in Nat /\ Len(received) \in Nat /\ Erased \in Nat
      /\ Len(current) + Erased = Len(received)
  BY LenProperties DEF Typed, TypeOK, Erased
<1>1. \A k \in 1 .. Len(current) : received[Erased + k] = current[k]
  BY DEF FramingInv, Remainder
<1>2. Erased < i /\ i < j /\ received[i] = Start /\ received[j] = End
  <2>1. Erased = 0 \/ received[Erased] = End
    BY DEF FramingInv, Boundary
  <2> QED
    BY <1>0, <2>1, NoLogAcross DEF IsLog
<1> DEFINE starts == {k \in 1 .. Len(current) : current[k] = Start}
<1>3. i - Erased \in starts
  <2>1. i - Erased \in 1 .. Len(current) /\ Erased + (i - Erased) = i
    BY <1>0, <1>2
  <2> QED
    BY <1>1, <1>2, <2>1
<1>4. PICK is \in starts : \A k \in starts : is <= k
  <2>1. starts \subseteq Nat /\ starts # {}
    BY <1>0, <1>3
  <2> HIDE DEF starts
  <2> QED
    BY <2>1, LeastNumber
<1> DEFINE ends == {k \in is + 1 .. Len(current) : current[k] = End}
<1>5. j - Erased \in ends
  <2>1. is <= i - Erased /\ is \in 1 .. Len(current)
    BY <1>3, <1>4
  <2>2. j - Erased \in 1 .. Len(current) /\ j - Erased > is /\ Erased + (j - Erased) = j
    BY <1>0, <1>2, <2>1
  <2> QED
    BY <1>0, <1>1, <1>2, <2>1, <2>2
<1>6. PICK ie \in ends : \A k \in ends : ie <= k
  <2>1. ends \subseteq Nat /\ ends # {}
    BY <1>0, <1>4, <1>5
  <2> HIDE DEF ends
  <2> QED
    BY <2>1, LeastNumber
<1>7. is \in 1 .. Len(current) /\ current[is] = Start
  BY <1>4
<1>8. ie \in is + 1 .. Len(current) /\ ie \in is .. Len(current) /\ current[ie] = End
  BY <1>0, <1>6, <1>7
<1>9. IsFirst(is, 1, Start)
  <2>1. \A k \in 1 .. is - 1 : k \notin starts
    BY <1>0, <1>4, <1>7
  <2> QED
    BY <1>0, <1>7, <2>1 DEF IsFirst
<1>10. IsFirst(ie, is + 1, End)
  <2>1. \A k \in is + 1 .. ie - 1 : k \notin ends
    BY <1>0, <1>6, <1>7, <1>8
  <2> QED
    BY <1>0, <1>7, <1>8, <2>1 DEF IsFirst
<1> QED
  BY <1>7, <1>8, <1>9, <1>10 DEF Delimits

LEMMA PushBatchFrames ==
  ASSUME Typed, FramingInv, PushBatch
  PROVE  FramingInv'
<1>1. /\ pc = "scanning" /\ pc' = "reading"
      /\ pushed' = pushed \o elements /\ elements' = <<>>
      /\ UNCHANGED <<current, received>>
      /\ ~ \E is \in 1 .. Len(current) : \E ie \in is .. Len(current) : Delimits(is, ie)
  BY DEF PushBatch, ReadAgain
<1>2. Extracted' = Extracted
  BY <1>1, ConcatProperties, ConcatEmptySeq DEF Typed, TypeOK, Extracted
<1>3. Erased' = Erased
  BY <1>1 DEF Erased
<1>4. /\ AllAreLogs'
      /\ \A i, j \in 1 .. Erased' : IsLog(received', i, j) =>
           \E k \in 1 .. Len(Extracted') : Extracted'[k].at = i /\ Last(Extracted'[k]) = j
  <2>1. Len(received') >= Len(received) /\ received' \in Seq(Bytes)
    BY <1>1, LenProperties DEF Typed, TypeOK
  <2> QED
    BY <1>1, <1>2, <1>3, <2>1, SameElements
<1>5. Remainder' /\ Boundary'
  BY <1>1, <1>3 DEF FramingInv, Remainder, Boundary
<1>6. \A i, j \in 1 .. Len(received) : IsLog(received, i, j) => j <= Erased
  BY <1>1, NothingFound
<1> QED
  BY <1>1, <1>3, <1>4, <1>5, <1>6 DEF FramingInv, AllLogsAre

LEMMA EndFrames ==
  ASSUME Typed, FramingInv, ReadEof \/ ReadError
  PROVE  FramingInv'
<1>1. /\ pc = "reading" /\ pc' \in {"ended", "failed"} /\ current' = <<>>
      /\ UNCHANGED <<elements, pushed, received>>
  BY DEF ReadEof, ReadError
<1>2. /\ Len(current') = 0 /\ Len(received) \in Nat /\ Erased' = Len(received)
      /\ Extracted' = Extracted /\ Erased \in Int /\ Erased <= Len(received)
      /\ Extracted \in Seq(Element)
  BY <1>1, EmptySeq, LenProperties, ConcatProperties DEF Typed, TypeOK, Erased, Extracted
<1>3. elements = <<>> /\ \A i, j \in 1 .. Len(received) : IsLog(received, i, j) => j <= Erased
  BY <1>1 DEF FramingInv, AllLogsAre
<1>4. AllAreLogs'
  <2>1. ASSUME NEW k \in 1 .. Len(Extracted)
        PROVE  IsElement(Extracted[k])'
    <3>1. IsElement(Extracted[k])
      BY DEF FramingInv, AllAreLogs
    <3>2. Last(Extracted[k]) \in Int
      <4>1. Extracted[k] \in Element
        BY <1>2, ElementOfSeq
      <4> QED
        BY <4>1, LenProperties DEF Element, Last
    <3> QED
      BY <1>1, <1>2, <3>1, <3>2 DEF IsElement
  <2> QED
    BY <1>2, <2>1 DEF FramingInv, AllAreLogs
<1>5. AllLogsAre'
  <2>1. ASSUME NEW i \in 1 .. Len(received), NEW j \in 1 .. Len(received), IsLog(received, i, j)
        PROVE  \E k \in 1 .. Len(Extracted) : Extracted[k].at = i /\ Last(Extracted[k]) = j
    <3>1. i \in 1 .. Erased /\ j \in 1 .. Erased
      BY <1>2, <1>3, <2>1 DEF IsLog
    <3> QED
      BY <2>1, <3>1 DEF FramingInv, AllLogsAre
  <2> QED
    BY <1>1, <1>2, <1>3, <2>1 DEF AllLogsAre
<1> QED
  BY <1>1, <1>2, <1>4, <1>5 DEF FramingInv, Remainder, Boundary

LEMMA FramingStep == Typed /\ FramingInv /\ [Next]_vars => FramingInv'
<1> SUFFICES ASSUME Typed, FramingInv, [Next]_vars PROVE FramingInv'
  OBVIOUS
<1>1. CASE UNCHANGED <<pc, current, elements, pushed, received>>
  BY <1>1 DEF FramingInv, Remainder, Boundary, AllAreLogs, AllLogsAre, Erased, IsElement, Extracted
<1>2. CASE Write \/ HangUp \/ Finished \/ UNCHANGED vars
  BY <1>1, <1>2 DEF Write, HangUp, Finished, vars
<1> QED
  BY <1>2, ReadFrames, FindOneFrames, PushBatchFrames, EndFrames DEF Next, SessionNext

LEMMA FramingInvImplies == Typed /\ FramingInv => Framing
<1> SUFFICES ASSUME Typed, FramingInv PROVE Framing
  OBVIOUS
<1>1. /\ elements \in Seq(Element) /\ pushed \in Seq(Element) /\ Extracted \in Seq(Element)
      /\ Len(current) \in Nat /\ Len(received) \in Nat /\ Erased \in Int /\ Erased <= Len(received)
  BY LenProperties, ConcatProperties DEF Typed, TypeOK, Extracted, Erased
<1>2. \A e \in Range(Extracted) : \E k \in 1 .. Len(Extracted) : e = Extracted[k]
  BY <1>1, RangeEquality
<1>3. ASSUME NEW e \in Range(Extracted)
      PROVE  /\ Last(e) <= Len(received)
             /\ IsLog(received, e.at, Last(e))
             /\ e.text = SubSeq(received, e.at, Last(e))
  <2>1. IsElement(e)
    BY <1>2 DEF FramingInv, AllAreLogs
  <2>2. Last(e) \in Int
    <3>1. e \in Element
      BY <1>1, <1>2, ElementOfSeq
    <3> QED
      BY <3>1, LenProperties DEF Element, Last
  <2> QED
    BY <1>1, <2>1, <2>2 DEF IsElement
<1>4. ASSUME pc # "scanning", NEW i \in 1 .. Len(received), NEW j \in 1 .. Len(received),
             IsLog(received, i, j)
      PROVE  \E e \in Range(pushed) : e.at = i /\ Last(e) = j
  <2>1. j <= Erased /\ elements = <<>>
    BY <1>4 DEF FramingInv, AllLogsAre
  <2>2. i \in 1 .. Erased /\ j \in 1 .. Erased
    BY <1>1, <1>4, <2>1 DEF IsLog
  <2>3. PICK k \in 1 .. Len(Extracted) : Extracted[k].at = i /\ Last(Extracted[k]) = j
    BY <1>4, <2>2 DEF FramingInv, AllLogsAre
  <2>4. Extracted = pushed
    BY <1>1, <2>1, ConcatEmptySeq DEF Extracted
  <2>5. Extracted[k] \in Range(pushed)
    BY <1>1, <2>4, RangeEquality
  <2> QED
    BY <2>3, <2>5
<1> QED
  BY <1>3, <1>4 DEF FramingInv, AllAreLogs, Framing

(* However the stream is cut into reads, the elements made of it are its   *)
(* logs, in order, each once, with their text; and between two reads none  *)
(* is left out (src/session.cpp:11-60): for any stream and buffer.         *)
THEOREM LogsAreFramed == Spec => []Framing
BY TypedInit, TypedStep, FramingInit, FramingStep, FramingInvImplies, PTL DEF Spec
===============================================================================
