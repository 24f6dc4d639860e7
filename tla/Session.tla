------------------------------- MODULE Session -------------------------------
(***************************************************************************)
(* One connection of the server (src/session.cpp): Session::read takes     *)
(* whatever bytes the socket has, at most a buffer full; Processor appends *)
(* them to m_current and cuts out every log it can find, from the first    *)
(* start byte to the first end byte after it; what was found is pushed in  *)
(* one batch and the next read is started.                                 *)
(*                                                                         *)
(* The bytes are a byte stream: the peer writes texts, the reads cut the   *)
(* stream anywhere.                                                        *)
(***************************************************************************)
EXTENDS Integers, Sequences, Functions

CONSTANTS
  Start, End,    \* the bytes '{' and '}'
  Bytes,         \* all the bytes
  Texts,         \* what the peer may write at a time
  Json,          \* the texts Element::from_json makes an element of
  BufferSize,    \* the size of m_buffer
  MaxBytes       \* bound: bytes the peer writes altogether

ASSUME ByteAssumption == {Start, End} \subseteq Bytes /\ Start # End
ASSUME TextAssumption == Texts \subseteq Seq(Bytes) \ {<<>>} /\ Json \subseteq Seq(Bytes)
ASSUME SizeAssumption == BufferSize \in Nat \ {0} /\ MaxBytes \in Nat

VARIABLES
  stream,     \* written by the peer, not read yet
  hungUp,     \* the peer has closed its side
  pc,         \* where the session is; "ended" and "failed" are its two ends
  current,    \* m_current
  elements,   \* the elements found so far in this read
  pushed,     \* history: the elements given to m_push, batch after batch
  received,   \* history: the bytes read
  written     \* history: the texts the peer wrote, and where in the stream

peerVars == <<stream, hungUp, written>>
vars == <<peerVars, pc, current, elements, pushed, received>>

(* An element is the text it was made of, whether that was json (if not,   *)
(* the element reports the parse error) and, to identify it, where the     *)
(* text stood in the byte stream.                                          *)
ElementAt(at, text) == [at |-> at, text |-> text, json |-> text \in Json]

Init ==
  /\ stream = <<>>
  /\ hungUp = FALSE
  /\ pc = "reading"
  /\ current = <<>>
  /\ elements = <<>>
  /\ pushed = <<>>
  /\ received = <<>>
  /\ written = <<>>

-------------------------------------------------------------------------------
(* The peer.                                                               *)

Write ==
  /\ ~hungUp
  /\ \E text \in Texts :
       /\ Len(received) + Len(stream) + Len(text) <= MaxBytes
       /\ stream' = stream \o text
       /\ written' = Append(written, [at |-> Len(received) + Len(stream) + 1, text |-> text])
  /\ UNCHANGED <<hungUp, pc, current, elements, pushed, received>>

HangUp ==
  /\ ~hungUp
  /\ hungUp' = TRUE
  /\ UNCHANGED <<stream, written, pc, current, elements, pushed, received>>

-------------------------------------------------------------------------------
(* The session.                                                            *)

(* Where an operation is preceded by a variant of itself, the variant is a  *)
(* defect for mutation testing.                                             *)

AppendWholeBuffer(data) ==
  current' = current \o data \o [i \in 1 .. BufferSize - Len(data) |-> "uninitialised"]
ForgetRest(data) == current' = data
AppendData(data) == current' = current \o data

Read ==
  /\ pc = "reading"
  /\ \E n \in 1 .. BufferSize :
       /\ n <= Len(stream)
       /\ AppendData(SubSeq(stream, 1, n))
       /\ received' = received \o SubSeq(stream, 1, n)
       /\ stream' = SubSeq(stream, n + 1, Len(stream))
  /\ pc' = "scanning"
  /\ elements' = <<>>
  /\ UNCHANGED <<hungUp, written, pushed>>

IsFirst(i, from, byte) ==
  /\ i \in from .. Len(current)
  /\ current[i] = byte
  /\ \A k \in from .. i - 1 : current[k] # byte

\* find_one: the first start byte, and the first end byte behind it.
Delimits(is, ie) == IsFirst(is, 1, Start) /\ IsFirst(ie, is + 1, End)

\* The erase, up to and with the end byte, whether the parse succeeds or not.
EraseUpTo(ie) == current' = SubSeq(current, ie + 1, Len(current))

FindOne ==
  /\ pc = "scanning"
  /\ \E is \in 1 .. Len(current) : \E ie \in is .. Len(current) :
       /\ Delimits(is, ie)
       /\ elements' = Append(elements, ElementAt(Len(received) - Len(current) + is,
                                                 SubSeq(current, is, ie)))
       /\ EraseUpTo(ie)
  /\ UNCHANGED <<peerVars, pc, pushed, received>>

ReadAgainIfFound == pc' = IF elements # <<>> THEN "reading" ELSE "scanning"
ReadAgain == pc' = "reading"

\* Nothing more to find: push the batch, if there is one, and read again.
PushBatch ==
  /\ pc = "scanning"
  /\ ~ \E is \in 1 .. Len(current) : \E ie \in is .. Len(current) : Delimits(is, ie)
  /\ pushed' = pushed \o elements
  /\ elements' = <<>>
  /\ ReadAgain
  /\ UNCHANGED <<peerVars, current, received>>

\* An error code: no push, no further read; the session is destroyed.
ReadEof ==
  /\ pc = "reading" /\ hungUp /\ stream = <<>>
  /\ pc' = "ended"
  /\ current' = <<>>
  /\ UNCHANGED <<peerVars, elements, pushed, received>>

ReadError ==
  /\ pc = "reading"
  /\ pc' = "failed"
  /\ current' = <<>>
  /\ UNCHANGED <<peerVars, elements, pushed, received>>

Finished == pc \in {"ended", "failed"} /\ UNCHANGED vars

-------------------------------------------------------------------------------
SessionNext == Read \/ FindOne \/ PushBatch \/ ReadEof

Next == SessionNext \/ ReadError \/ Write \/ HangUp \/ Finished

Spec == Init /\ [][Next]_vars

(* The io threads keep serving the session, and the kernel keeps delivering *)
(* what the peer wrote; nothing obliges the peer or the network to fail.    *)
FairSpec == Spec /\ WF_vars(SessionNext)

-------------------------------------------------------------------------------
(* Properties.                                                             *)

Element == [at : Nat \ {0}, text : Seq(Bytes), json : BOOLEAN]

(* Every variable keeps its type: m_current and the elements of Processor, *)
(* the bytes of the stream.                                                *)
TypeOK ==
  /\ stream \in Seq(Bytes) /\ current \in Seq(Bytes) /\ received \in Seq(Bytes)
  /\ hungUp \in BOOLEAN
  /\ pc \in {"reading", "scanning", "ended", "failed"}
  /\ elements \in Seq(Element) /\ pushed \in Seq(Element)
  /\ written \in Seq([at : Nat \ {0}, text : Texts])

(* The reference: which stretches of a whole byte stream are logs, said     *)
(* without cutting it into reads.  A log runs to an end byte, has no other  *)
(* end byte in it, and starts at the first start byte for which that holds. *)
IsLog(bytes, i, j) ==
  /\ i < j /\ bytes[i] = Start /\ bytes[j] = End
  /\ \A k \in i .. j - 1 : bytes[k] # End
  /\ \A h \in 1 .. i - 1 : bytes[h] = Start => \E k \in h .. i - 1 : bytes[k] = End

Last(e) == e.at + Len(e.text) - 1

Extracted == pushed \o elements

(* However the stream is cut into reads, the elements made of it are those  *)
(* of the uncut stream: each is one of its logs, with its text, in stream   *)
(* order and without overlap, and between two reads none is left out        *)
(* (Processor::operator() keeps in m_current exactly what it must).         *)
Framing ==
  /\ \A k, l \in 1 .. Len(Extracted) : k < l => Last(Extracted[k]) < Extracted[l].at
  /\ \A e \in Range(Extracted) :
       /\ Last(e) <= Len(received)
       /\ IsLog(received, e.at, Last(e))
       /\ e.text = SubSeq(received, e.at, Last(e))
  /\ pc # "scanning" =>
       \A i, j \in 1 .. Len(received) :
         IsLog(received, i, j) => \E e \in Range(pushed) : e.at = i /\ Last(e) = j

(* A peer that hangs up is read to its last byte (or the connection fails): *)
(* read starts again after every successful read, with or without elements. *)
HangUpIsReached ==
  hungUp ~> pc = "failed" \/ (pc = "ended" /\ stream = <<>>)

(* Said of the program by its documentation, and not what it does: "scriptor *)
(* then parses the json and forwards it to the registered loggers"           *)
(* (README.md:12-13).  A peer that writes nothing but json never causes a    *)
(* parse error.                                                              *)
JsonIsUnderstood ==
  (\A w \in Range(written) : w.text \in Json) => \A e \in Range(pushed) : e.json
===============================================================================
