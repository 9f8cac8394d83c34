------------------------- MODULE HelloCaptureProofs -------------------------
(***************************************************************************)
(* HelloCapture for every length of the first record and of the stream:    *)
(* its type invariant, its safety properties, and that the TLS stack above *)
(* it sees a ReplayedStream.                                               *)
(***************************************************************************)
EXTENDS HelloCapture, SequenceTheorems, TLAPS

-----------------------------------------------------------------------------
(* Sequences                                                               *)

\* A sequence is cut in two anywhere.
LEMMA Cut ==
  ASSUME NEW S, NEW s \in Seq(S), NEW n \in 0..Len(s)
  PROVE  /\ SubSeq(s, 1, n) \in Seq(S) /\ Len(SubSeq(s, 1, n)) = n
         /\ SubSeq(s, n + 1, Len(s)) \in Seq(S)
         /\ SubSeq(s, 1, n) \o SubSeq(s, n + 1, Len(s)) = s
<1>1. Len(s) \in Nat
  OBVIOUS
<1>2. SubSeq(s, 1, n) \in Seq(S) /\ Len(SubSeq(s, 1, n)) = n
  BY <1>1, SubSeqProperties, ElementOfSeq
<1>3. SubSeq(s, n + 1, Len(s)) \in Seq(S)
  BY <1>1, SubSeqProperties, ElementOfSeq
<1>4. SubSeq(s, 1, n) \o SubSeq(s, n + 1, Len(s)) = SubSeq(s, 1, Len(s))
  <2>1. 1 \in 1..Len(s) + 1 /\ n \in 1 - 1..Len(s) /\ Len(s) \in n..Len(s)
    BY <1>1
  <2> QED BY <2>1, ConcatAdjacentSubSeq
<1> QED BY <1>2, <1>3, <1>4, SubSeqFull

\* What is appended to the end of a sequence is appended to the whole.
LEMMA AppendToEnd ==
  ASSUME NEW S, NEW s \in Seq(S), NEW t \in Seq(S), NEW b \in S
  PROVE  s \o Append(t, b) = Append(s \o t, b)
<1>1. s \o t \in Seq(S) /\ <<b>> \in Seq(S)
  BY ConcatProperties
<1>2. Append(t, b) = t \o <<b>> /\ Append(s \o t, b) = (s \o t) \o <<b>>
  BY <1>1, AppendIsConcat
<1> QED BY <1>1, <1>2, ConcatAssociative

\* The beginning of a concatenation.
LEMMA BeginningOf ==
  ASSUME NEW S, NEW s \in Seq(S), NEW t \in Seq(S)
  PROVE  IsPrefix(s, s \o t) /\ SubSeq(s \o t, 1, Len(s)) = s
<1>1. /\ s \o t \in Seq(S) /\ Len(s \o t) = Len(s) + Len(t)
      /\ \A i \in 1..Len(s) : (s \o t)[i] = s[i]
      /\ Len(s) \in Nat /\ Len(t) \in Nat
  BY ConcatProperties
<1>2. /\ SubSeq(s \o t, 1, Len(s)) \in Seq(S) /\ Len(SubSeq(s \o t, 1, Len(s))) = Len(s)
      /\ \A i \in 1..Len(s) : SubSeq(s \o t, 1, Len(s))[i] = s[i]
  <2>1. \A i \in 1..Len(s) : (s \o t)[i] \in S
    BY <1>1, ElementOfSeq
  <2> QED BY <1>1, <2>1, SubSeqProperties
<1>3. SubSeq(s \o t, 1, Len(s)) = s
  BY <1>2, SeqEqual
<1> QED BY <1>1, <1>3, SubSeqFull DEF IsPrefix

\* A later beginning of a sequence that only grew.
LEMMA BeginningStays ==
  ASSUME NEW S, NEW s \in Seq(S), NEW b \in S, NEW n \in 0..Len(s)
  PROVE  SubSeq(Append(s, b), 1, n) = SubSeq(s, 1, n)
<1>1. Len(s) \in Nat /\ Append(s, b) = s \o <<b>> /\ <<b>> \in Seq(S)
  BY AppendIsConcat
<1>2. CASE n = 0
  BY <1>2, SubSeqEmpty
<1>3. CASE n # 0
  BY <1>1, <1>3, SubSeqOfConcat1
<1> QED BY <1>2, <1>3

-----------------------------------------------------------------------------
(* Types                                                                   *)

\* What the assumptions on the constants come to, as the proofs use it.
LEMMA HelloConstants ==
  MaxRecord \in Nat /\ MaxSent \in Nat /\ MaxRecord <= MaxSent /\ Zero \in Byte
BY BoundsType DEF Byte, Zero

\* The bytes a client may send next, and what they are.
LEMMA NthType ==
  ASSUME NEW i \in 1..MaxSent
  PROVE  /\ Nth(i) \subseteq Byte
         /\ \A b \in Nth(2) : b.value \in 0..MaxRecord
BY HelloConstants DEF Nth, Byte, Handshake

\* What is read of the record begins with what was sent: its header says at
\* most MaxRecord.
LEMMA RecordLenType ==
  ASSUME TypeOK, SentOK, buf \o wire = sent, Len(buf) >= HdrLen
  PROVE  /\ buf[2] = sent[2] /\ buf[1] = sent[1] /\ Len(sent) >= HdrLen
         /\ RecordLen(buf) = RecordLen(sent)
         /\ RecordLen(buf) \in HdrLen..HdrLen + MaxRecord
<1>1. /\ Len(sent) = Len(buf) + Len(wire) /\ Len(wire) \in Nat /\ Len(buf) \in Nat
      /\ \A i \in 1..Len(buf) : sent[i] = buf[i]
  <2>1. buf \in Seq(Byte) /\ wire \in Seq(Byte)
    BY DEF TypeOK
  <2>2. /\ Len(buf \o wire) = Len(buf) + Len(wire) /\ Len(wire) \in Nat /\ Len(buf) \in Nat
        /\ \A i \in 1..Len(buf) + Len(wire) :
             (buf \o wire)[i] = IF i <= Len(buf) THEN buf[i] ELSE wire[i - Len(buf)]
    BY <2>1, ConcatProperties
  <2> QED BY <2>2
<1>2. buf[2] = sent[2] /\ buf[1] = sent[1] /\ Len(sent) >= HdrLen /\ 2 \in 1..Len(sent)
  BY <1>1 DEF HdrLen
<1>3. sent[2].value \in 0..MaxRecord
  BY <1>2, HelloConstants, NthType DEF SentOK
<1> QED BY <1>2, <1>3, HelloConstants DEF RecordLen, HdrLen

\* Where a stream is cut does not matter.
LEMMA Regroup == \A s, t, u \in Seq(Byte) : (s \o t) \o u = s \o (t \o u)
BY ConcatAssociative

HelloInv == TypeOK /\ StreamInv

\* The streams are sequences of bytes.
LEMMA StreamTypes ==
  ASSUME TypeOK
  PROVE  /\ wire \in Seq(Byte) /\ buf \in Seq(Byte) /\ prefix \in Seq(Byte)
         /\ hello \in Seq(Byte) /\ chunk \in Seq(Byte) /\ sent \in Seq(Byte)
         /\ delivered \in Seq(Byte) /\ stored \in Seq(Seq(Byte)) /\ <<>> \in Seq(Byte)
         /\ Len(wire) \in Nat /\ Len(buf) \in Nat /\ Len(prefix) \in Nat /\ Len(sent) \in Nat
<1>1. /\ wire \in Seq(Byte) /\ buf \in Seq(Byte) /\ prefix \in Seq(Byte)
      /\ hello \in Seq(Byte) /\ chunk \in Seq(Byte) /\ sent \in Seq(Byte)
      /\ delivered \in Seq(Byte) /\ stored \in Seq(Seq(Byte))
  BY DEF TypeOK
<1> QED BY <1>1, LenProperties, EmptySeq

\* While the record is read, what is read and what is on the wire were sent.
LEMMA ReadingStream ==
  ASSUME HelloInv, pc \in {"header", "fragment"}
  PROVE  /\ buf \o wire = sent
         /\ Needed \in Nat /\ Needed <= HdrLen + MaxRecord
<1>1. buf \o wire = sent
  <2>1. delivered = <<>> /\ chunk = <<>> /\ ((delivered \o chunk) \o buf) \o wire = sent
    BY DEF HelloInv, StreamInv, ReadingInv, NothingLost
  <2>2. buf \in Seq(Byte) /\ <<>> \in Seq(Byte)
    BY StreamTypes DEF HelloInv
  <2> QED BY <2>1, <2>2, ConcatEmptySeq
<1>2. Needed \in Nat /\ Needed <= HdrLen + MaxRecord
  <2>1. CASE pc = "header"
    BY <2>1, HelloConstants DEF Needed, HdrLen
  <2>2. CASE pc = "fragment"
    <3>1. Len(buf) >= HdrLen
      BY <2>2 DEF HelloInv, StreamInv, ReadingInv
    <3> QED BY <1>1, <2>2, <3>1, RecordLenType, HelloConstants
            DEF HelloInv, StreamInv, Needed, HdrLen
  <2> QED BY <2>1, <2>2
<1> QED BY <1>1, <1>2

\* Nothing sent, nothing buffered.
LEMMA InitStream == Init => HelloInv
<1> SUFFICES ASSUME Init PROVE HelloInv
  OBVIOUS
<1>1. <<>> \in Seq(Byte) /\ <<>> \in Seq(Seq(Byte)) /\ Len(<<>>) = 0 /\ <<>> \o <<>> = <<>>
  BY EmptySeq, ConcatEmptySeq
<1>2. TypeOK
  <2>1. Len(<<>>) <= HdrLen + MaxRecord
    BY <1>1, HelloConstants DEF HdrLen
  <2> QED BY <1>1, <2>1 DEF Init, TypeOK
<1>3. StreamInv
  BY <1>1, HelloConstants DEF Init, StreamInv, SentOK, ReadingInv, FailedInv, StoredInv,
     NothingLost, Needed, HdrLen
<1> QED BY <1>2, <1>3 DEF HelloInv

-----------------------------------------------------------------------------
(* The client                                                              *)

\* The client sends a byte.
LEMMA SendStep == HelloInv /\ Send => HelloInv'
<1> SUFFICES ASSUME HelloInv, Send PROVE HelloInv'
  OBVIOUS
<1> USE DEF HelloInv
<1>0. /\ wire \in Seq(Byte) /\ buf \in Seq(Byte) /\ prefix \in Seq(Byte) /\ sent \in Seq(Byte)
      /\ chunk \in Seq(Byte) /\ delivered \in Seq(Byte) /\ Len(sent) \in Nat
  BY StreamTypes
<1>1. PICK b \in Nth(Len(sent) + 1) : sent' = Append(sent, b) /\ wire' = Append(wire, b)
  BY DEF Send
<1>2. /\ Len(sent) + 1 \in 1..MaxSent /\ ended = "no" /\ ended' = ended /\ pc' = pc
      /\ buf' = buf /\ prefix' = prefix /\ hello' = hello /\ capErr' = capErr
      /\ chunk' = chunk /\ stored' = stored /\ delivered' = delivered
  BY <1>0, HelloConstants DEF Send
<1>3. b \in Byte
  BY <1>2, NthType
<1>4. /\ sent' \in Seq(Byte) /\ wire' \in Seq(Byte) /\ Len(sent') = Len(sent) + 1
      /\ \A i \in 1..Len(sent) : sent'[i] = sent[i]
      /\ sent'[Len(sent) + 1] = b
  BY <1>0, <1>1, <1>3, AppendProperties
<1>5. ~capErr
  BY <1>2 DEF StreamInv, FailedInv
<1>6. TypeOK'
  BY <1>2, <1>4 DEF TypeOK
<1>7. SentOK'
  BY <1>0, <1>1, <1>2, <1>4 DEF StreamInv, SentOK
<1>8. ReadingInv'
  BY <1>2 DEF StreamInv, ReadingInv, Needed, RecordLen
<1>9. StoredInv'
  <2>1. stored' = <<>> \/ (hello' # <<>> /\ stored' = <<hello'>>)
    BY <1>2 DEF StreamInv, StoredInv
  <2>2. ASSUME hello # <<>>
        PROVE  /\ Len(sent') >= HdrLen /\ Len(sent') >= RecordLen(sent')
               /\ hello = SubSeq(sent', 1, RecordLen(sent'))
    <3>1. Len(sent) >= HdrLen /\ Len(sent) >= RecordLen(sent)
          /\ hello = SubSeq(sent, 1, RecordLen(sent))
      BY <2>2 DEF StreamInv, StoredInv
    <3>2. sent'[2] = sent[2] /\ 2 \in 1..Len(sent)
      BY <1>0, <1>4, <3>1 DEF HdrLen
    <3>3. sent[2].value \in 0..MaxRecord
      BY <1>2, <3>2, NthType DEF StreamInv, SentOK
    <3>4. RecordLen(sent') = RecordLen(sent) /\ RecordLen(sent) \in 0..Len(sent)
      <4>1. RecordLen(sent') = RecordLen(sent)
        BY <3>2 DEF RecordLen
      <4>2. RecordLen(sent) \in Nat
        BY <3>3, HelloConstants DEF RecordLen, HdrLen
      <4> QED BY <1>0, <3>1, <4>1, <4>2
    <3>5. SubSeq(sent', 1, RecordLen(sent)) = SubSeq(sent, 1, RecordLen(sent))
      BY <1>0, <1>1, <1>3, <3>4, BeginningStays
    <3> QED BY <1>0, <1>4, <3>1, <3>4, <3>5 DEF HdrLen
  <2> QED BY <1>2, <2>1, <2>2 DEF StreamInv, StoredInv
<1>10. NothingLost'
  <2> DEFINE got == delivered \o chunk \o (IF pc \in {"header", "fragment"} THEN buf ELSE prefix)
  <2>1. got \in Seq(Byte)
    BY <1>0, ConcatProperties
  <2>2. got \o wire = sent
    BY <1>5 DEF StreamInv, NothingLost
  <2>3. NothingLost' <=> (~capErr => got \o wire' = sent')
    BY <1>2 DEF NothingLost
  <2> HIDE DEF got
  <2>4. got \o Append(wire, b) = Append(got \o wire, b)
    <3>1. wire \in Seq(Byte) /\ b \in Byte
      BY <1>0, <1>3
    <3> QED BY <2>1, <3>1, AppendToEnd
  <2> QED BY <1>1, <2>2, <2>3, <2>4
<1> QED BY <1>2, <1>5, <1>6, <1>7, <1>8, <1>9, <1>10 DEF StreamInv, FailedInv

\* The client hangs up, or the deadline passes.
LEMMA EndStep == HelloInv /\ End => HelloInv'
<1> SUFFICES ASSUME HelloInv, End PROVE HelloInv'
  OBVIOUS
<1> USE DEF HelloInv, End
<1>1. ~capErr
  BY DEF StreamInv, FailedInv
<1>2. TypeOK' /\ SentOK' /\ StoredInv' /\ NothingLost'
  BY DEF TypeOK, StreamInv, SentOK, StoredInv, NothingLost, RecordLen
<1>3. ReadingInv'
  BY DEF StreamInv, ReadingInv, Needed, RecordLen
<1> QED BY <1>1, <1>2, <1>3 DEF StreamInv, FailedInv

-----------------------------------------------------------------------------
(* Reading the record                                                      *)

\* What there is to read is on the wire.
LEMMA ReadableIsWire ==
  ASSUME TypeOK, NEW n \in 1..Len(Readable)
  PROVE  /\ Readable = wire /\ ended # "deadline" /\ n \in 0..Len(wire) /\ n \in Nat /\ n > 0
         /\ SubSeq(wire, 1, n) \in Seq(Byte) /\ Len(SubSeq(wire, 1, n)) = n
         /\ SubSeq(wire, n + 1, Len(wire)) \in Seq(Byte)
         /\ SubSeq(wire, 1, n) \o SubSeq(wire, n + 1, Len(wire)) = wire
<1>1. wire \in Seq(Byte) /\ Len(wire) \in Nat
  BY StreamTypes
<1>2. ended # "deadline" /\ Readable = wire
  <2>1. Len(<<>>) = 0
    BY EmptySeq
  <2> QED BY <2>1 DEF Readable
<1>3. n \in 0..Len(wire) /\ n \in Nat /\ n > 0
  BY <1>1, <1>2
<1> QED BY <1>1, <1>2, <1>3, Cut

\* A step that leaves what was sent, the hello, and what is stored alone keeps
\* what is said of them.
LEMMA SentAndStoredStay ==
  ASSUME HelloInv, UNCHANGED <<hello, stored, sent, delivered>>
  PROVE  SentOK' /\ StoredInv'
BY DEF HelloInv, StreamInv, SentOK, StoredInv, RecordLen

\* While the record is read, all that StreamInv says of the streams is this.
LEMMA StillReading ==
  ASSUME HelloInv, pc \in {"header", "fragment"}, pc' \in {"header", "fragment"},
         UNCHANGED <<prefix, hello, capErr, chunk, stored, sent, delivered>>,
         buf' \in Seq(Byte), buf' \o wire' = sent, ReadingInv'
  PROVE  StreamInv'
<1>1. ~capErr /\ delivered = <<>> /\ chunk = <<>>
  BY DEF HelloInv, StreamInv, ReadingInv
<1>2. SentOK' /\ StoredInv'
  BY SentAndStoredStay
<1>3. <<>> \in Seq(Byte)
  BY EmptySeq
<1>4. (<<>> \o <<>>) \o buf' = buf'
  BY <1>3, ConcatEmptySeq
<1>5. NothingLost'
  BY <1>1, <1>4 DEF NothingLost
<1> QED BY <1>1, <1>2, <1>5 DEF StreamInv, FailedInv

\* A Read of the handshake goes to the connection underneath.
LEMMA ReadMoreStep == HelloInv /\ ReadMore => HelloInv'
<1> SUFFICES ASSUME HelloInv, ReadMore PROVE HelloInv'
  OBVIOUS
<1> USE DEF HelloInv
<1>1. PICK n \in 1..Len(Readable) :
        /\ Len(buf) + n <= Needed
        /\ buf' = buf \o SubSeq(wire, 1, n)
        /\ wire' = SubSeq(wire, n + 1, Len(wire))
  BY DEF ReadMore
<1>2. /\ pc \in {"header", "fragment"} /\ pc' = pc /\ ended' = ended
      /\ UNCHANGED <<prefix, hello, capErr, chunk, stored, sent, delivered>>
  BY DEF ReadMore
<1>3. /\ buf \in Seq(Byte) /\ wire \in Seq(Byte) /\ Len(buf) \in Nat
      /\ SubSeq(wire, 1, n) \in Seq(Byte) /\ Len(SubSeq(wire, 1, n)) = n /\ n \in Nat
      /\ wire' \in Seq(Byte) /\ SubSeq(wire, 1, n) \o wire' = wire
  BY <1>1, StreamTypes, ReadableIsWire
<1>4. /\ buf' \in Seq(Byte) /\ Len(buf') = Len(buf) + n
      /\ \A i \in 1..Len(buf) : buf'[i] = buf[i]
  BY <1>1, <1>3, ConcatProperties
<1>5. buf' \o wire' = sent
  <2>1. buf \o wire = sent
    BY <1>2, ReadingStream
  <2> DEFINE first == SubSeq(wire, 1, n)
  <2>2. first \in Seq(Byte) /\ first \o wire' = wire /\ buf' = buf \o first
    BY <1>1, <1>3
  <2> HIDE DEF first
  <2>3. buf \in Seq(Byte) /\ wire' \in Seq(Byte)
    BY <1>3
  <2>4. (buf \o first) \o wire' = buf \o (first \o wire')
    BY <2>2, <2>3, Regroup, Zenon
  <2> QED BY <2>1, <2>2, <2>4
<1>6. TypeOK'
  <2>1. Len(buf') <= HdrLen + MaxRecord
    <3>1. Needed \in Nat /\ Needed <= HdrLen + MaxRecord
      BY <1>2, ReadingStream
    <3> QED BY <1>1, <1>3, <1>4, <3>1, HelloConstants DEF HdrLen
  <2> QED BY <1>2, <1>3, <1>4, <2>1 DEF TypeOK
<1>7. ReadingInv'
  <2>1. /\ ~capErr /\ delivered = <<>> /\ chunk = <<>> /\ prefix = <<>> /\ hello = <<>>
        /\ pc = "fragment" => Len(buf) >= HdrLen /\ buf[1].value = Handshake
    BY <1>2 DEF StreamInv, ReadingInv
  <2>2. pc = "fragment" => buf'[1] = buf[1] /\ buf'[2] = buf[2] /\ Len(buf') >= HdrLen
    BY <1>3, <1>4, <2>1 DEF HdrLen
  <2>3. Needed' = Needed
    BY <1>2, <2>2 DEF Needed, RecordLen
  <2>4. Len(buf') <= Needed'
    BY <1>1, <1>4, <2>3
  <2> QED BY <1>2, <2>1, <2>2, <2>4 DEF ReadingInv
<1> QED BY <1>2, <1>4, <1>5, <1>6, <1>7, StillReading

\* Once the record is in, whole or not of interest, it is the prefix.
LEMMA NowReady ==
  ASSUME HelloInv, pc \in {"header", "fragment"}, pc' = "ready",
         UNCHANGED <<wire, buf, capErr, chunk, sent, delivered>>,
         prefix' = buf
  PROVE  ReadingInv' /\ FailedInv' /\ NothingLost' /\ chunk' = <<>>
<1>1. ~capErr /\ delivered = <<>> /\ chunk = <<>>
  BY DEF HelloInv, StreamInv, ReadingInv
<1>2. buf \o wire = sent
  BY ReadingStream
<1>3. (<<>> \o <<>>) \o buf = buf
  BY StreamTypes, ConcatEmptySeq DEF HelloInv
<1> QED BY <1>1, <1>2, <1>3 DEF ReadingInv, FailedInv, NothingLost

\* The five bytes of a record header are complete.
LEMMA HeaderReadStep == HelloInv /\ HeaderRead => HelloInv'
<1> SUFFICES ASSUME HelloInv, HeaderRead PROVE HelloInv'
  OBVIOUS
<1> USE DEF HelloInv
<1>1. /\ pc = "header" /\ Len(buf) = HdrLen
      /\ UNCHANGED <<wire, ended, buf, hello, capErr, chunk, stored, sent, delivered>>
  BY DEF HeaderRead
<1>2. buf \o wire = sent
  BY <1>1, ReadingStream
<1>3. buf \in Seq(Byte) /\ Len(buf) \in Nat
  BY StreamTypes
<1>4. CASE buf[1].value = Handshake
  <2>1. pc' = "fragment" /\ prefix' = prefix
    BY <1>4 DEF HeaderRead
  <2>2. RecordLen(buf) \in HdrLen..HdrLen + MaxRecord
    BY <1>1, <1>2, <1>3, RecordLenType DEF StreamInv, HdrLen
  <2>3. ReadingInv'
    <3>1. ~capErr /\ delivered = <<>> /\ chunk = <<>> /\ prefix = <<>> /\ hello = <<>>
      BY <1>1 DEF StreamInv, ReadingInv
    <3>2. Needed' = RecordLen(buf)
      BY <1>1, <2>1 DEF Needed, RecordLen
    <3>3. Len(buf) <= RecordLen(buf) /\ Len(buf) >= HdrLen
      BY <1>1, <2>2, HelloConstants DEF HdrLen
    <3> QED BY <1>1, <1>4, <2>1, <3>1, <3>2, <3>3 DEF ReadingInv
  <2>4. StreamInv'
    BY <1>1, <1>2, <1>3, <2>1, <2>3, StillReading
  <2> QED BY <1>1, <2>1, <2>4 DEF TypeOK
<1>5. CASE buf[1].value # Handshake
  <2>1. pc' = "ready" /\ prefix' = buf
    BY <1>5 DEF HeaderRead
  <2>2. ReadingInv' /\ FailedInv' /\ NothingLost' /\ chunk' = <<>>
    BY <1>1, <2>1, NowReady
  <2>3. SentOK' /\ StoredInv'
    BY <1>1, SentAndStoredStay
  <2> QED BY <1>1, <2>1, <2>2, <2>3 DEF TypeOK, StreamInv
<1> QED BY <1>4, <1>5

\* The body of the record is complete: the hello is stored.
LEMMA RecordReadStep == HelloInv /\ RecordRead => HelloInv'
<1> SUFFICES ASSUME HelloInv, RecordRead PROVE HelloInv'
  OBVIOUS
<1> USE DEF HelloInv
<1>1. /\ pc = "fragment" /\ Len(buf) >= RecordLen(buf) /\ pc' = "ready" /\ hello' = buf
      /\ UNCHANGED <<wire, ended, buf, capErr, chunk, stored, sent, delivered>>
  BY DEF RecordRead
<1>2. /\ buf \in Seq(Byte) /\ wire \in Seq(Byte) /\ Len(buf) \in Nat /\ Len(wire) \in Nat
      /\ Len(sent) \in Nat
  BY StreamTypes
<1>3. prefix' = buf
  BY <1>2, ConcatEmptySeq DEF RecordRead, Replay
<1>4. buf \o wire = sent /\ Len(buf) <= RecordLen(buf) /\ Len(buf) >= HdrLen
      /\ hello = <<>> /\ delivered = <<>>
  BY <1>1, ReadingStream DEF StreamInv, ReadingInv, Needed
<1>5. /\ RecordLen(buf) = RecordLen(sent) /\ RecordLen(buf) \in HdrLen..HdrLen + MaxRecord
      /\ Len(sent) >= HdrLen
  BY <1>4, RecordLenType DEF StreamInv
<1>6. Len(buf) = RecordLen(sent) /\ Len(buf) > 0
  BY <1>1, <1>2, <1>4, <1>5, HelloConstants DEF HdrLen
<1>7. StoredInv'
  <2>1. stored = <<>>
    BY <1>4 DEF StreamInv, StoredInv
  <2>2. Len(sent) >= RecordLen(sent)
    BY <1>2, <1>4, <1>6, ConcatProperties
  <2>3. buf = SubSeq(sent, 1, RecordLen(sent))
    BY <1>2, <1>4, <1>6, BeginningOf
  <2> QED BY <1>1, <1>4, <1>5, <2>1, <2>2, <2>3 DEF StoredInv, RecordLen
<1>8. ReadingInv' /\ FailedInv' /\ NothingLost' /\ chunk' = <<>>
  BY <1>1, <1>3, NowReady
<1>9. SentOK'
  BY <1>1 DEF StreamInv, SentOK
<1>10. TypeOK'
  BY <1>1, <1>2, <1>3 DEF TypeOK
<1> QED BY <1>7, <1>8, <1>9, <1>10 DEF StreamInv

\* Reading the record fails: whatever was on the wire cannot be read any more.
LEMMA ReadFailsStep == HelloInv /\ ReadFails => HelloInv'
<1> SUFFICES ASSUME HelloInv, ReadFails PROVE HelloInv'
  OBVIOUS
<1> USE DEF HelloInv
<1>1. /\ pc \in {"header", "fragment"} /\ Readable = <<>> /\ ended # "no" /\ Len(buf) < Needed
      /\ pc' = "ready" /\ capErr' = TRUE
      /\ prefix' = IF pc = "header" THEN <<>> ELSE PaddedFragment(buf)
      /\ UNCHANGED <<wire, ended, buf, hello, chunk, stored, sent, delivered>>
  BY DEF ReadFails
<1>2. buf \in Seq(Byte) /\ Len(buf) \in Nat /\ <<>> \in Seq(Byte)
  BY StreamTypes
<1>3. /\ buf \o wire = sent /\ hello = <<>> /\ delivered = <<>> /\ chunk = <<>>
      /\ pc = "fragment" => Len(buf) >= HdrLen
  BY <1>1, ReadingStream DEF StreamInv, ReadingInv
<1>4. pc = "header" => Len(buf) < HdrLen
  BY <1>1 DEF Needed
<1>5. prefix' = IF Len(buf) < HdrLen THEN <<>> ELSE PaddedFragment(buf)
  BY <1>1, <1>2, <1>3, <1>4 DEF HdrLen
<1>6. prefix' \in Seq(Byte)
  <2>1. CASE Len(buf) < HdrLen
    BY <1>2, <1>5, <2>1
  <2>2. CASE ~(Len(buf) < HdrLen)
    <3>1. RecordLen(buf) \in Nat
      BY <1>2, <1>3, <2>2, RecordLenType, HelloConstants DEF StreamInv, HdrLen
    <3>2. pc = "fragment" /\ RecordLen(buf) - Len(buf) \in Nat
      BY <1>1, <1>2, <1>4, <2>2, <3>1 DEF Needed
    <3>3. [i \in 1..RecordLen(buf) - Len(buf) |-> Zero] \in Seq(Byte)
      BY <3>2, HelloConstants
    <3> QED BY <1>2, <1>5, <2>2, <3>3, ConcatProperties DEF PaddedFragment
  <2> QED BY <2>1, <2>2
<1>7. FailedInv'
  <2>1. (<<>> \o <<>>) \o prefix' = prefix'
    BY <1>2, <1>6, ConcatEmptySeq
  <2>2. Readable' = <<>>
    BY <1>1 DEF Readable
  <2> QED BY <1>1, <1>3, <1>5, <2>1, <2>2 DEF FailedInv, PaddedFragment, RecordLen
<1>8. SentOK' /\ StoredInv'
  BY <1>1, SentAndStoredStay
<1>9. TypeOK'
  BY <1>1, <1>6 DEF TypeOK
<1> QED BY <1>1, <1>3, <1>7, <1>8, <1>9 DEF StreamInv, ReadingInv, NothingLost

-----------------------------------------------------------------------------
(* Read                                                                    *)

\* A Read is served from the bytes taken ahead.
LEMMA ReadPrefixStep == HelloInv /\ ReadPrefix => HelloInv'
<1> SUFFICES ASSUME HelloInv, ReadPrefix PROVE HelloInv'
  OBVIOUS
<1> USE DEF HelloInv
<1>1. PICK n \in 1..Len(prefix) :
        chunk' = SubSeq(prefix, 1, n) /\ prefix' = SubSeq(prefix, n + 1, Len(prefix))
  BY DEF ReadPrefix
<1>2. /\ pc = "ready" /\ pc' = "return" /\ chunk = <<>>
      /\ UNCHANGED <<wire, ended, buf, hello, capErr, stored, sent, delivered>>
  BY DEF ReadPrefix, StreamInv
<1>3. /\ prefix \in Seq(Byte) /\ Len(prefix) \in Nat /\ delivered \in Seq(Byte)
      /\ wire \in Seq(Byte)
  BY StreamTypes
<1>4. chunk' \in Seq(Byte) /\ prefix' \in Seq(Byte) /\ chunk' \o prefix' = prefix
  <2>1. n \in 0..Len(prefix)
    BY <1>3
  <2>2. /\ SubSeq(prefix, 1, n) \in Seq(Byte) /\ SubSeq(prefix, n + 1, Len(prefix)) \in Seq(Byte)
        /\ SubSeq(prefix, 1, n) \o SubSeq(prefix, n + 1, Len(prefix)) = prefix
    BY <1>3, <2>1, Cut
  <2> QED BY <1>1, <2>2
<1>5. (delivered \o chunk') \o prefix' = (delivered \o chunk) \o prefix
  <2>1. (delivered \o chunk') \o prefix' = delivered \o (chunk' \o prefix')
    <3>1. delivered \in Seq(Byte) /\ chunk' \in Seq(Byte) /\ prefix' \in Seq(Byte)
      BY <1>3, <1>4
    <3> QED BY <3>1, Regroup, Zenon
  <2>2. delivered \o chunk = delivered
    BY <1>2, <1>3, ConcatEmptySeq
  <2> QED BY <1>4, <2>1, <2>2
<1>6. NothingLost'
  BY <1>2, <1>5 DEF StreamInv, NothingLost
<1>7. FailedInv'
  BY <1>2, <1>5 DEF StreamInv, FailedInv, Readable, PaddedFragment, RecordLen
<1>8. SentOK' /\ StoredInv'
  BY <1>2, SentAndStoredStay
<1>9. TypeOK'
  BY <1>2, <1>4 DEF TypeOK
<1> QED BY <1>2, <1>6, <1>7, <1>8, <1>9 DEF StreamInv, ReadingInv

\* A Read is served by the connection itself.
LEMMA ReadConnStep == HelloInv /\ ReadConn => HelloInv'
<1> SUFFICES ASSUME HelloInv, ReadConn PROVE HelloInv'
  OBVIOUS
<1> USE DEF HelloInv
<1>1. PICK n \in 1..Len(Readable) :
        chunk' = SubSeq(wire, 1, n) /\ wire' = SubSeq(wire, n + 1, Len(wire))
  BY DEF ReadConn
<1>2. /\ pc = "ready" /\ pc' = "return" /\ chunk = <<>> /\ prefix = <<>>
      /\ UNCHANGED <<ended, buf, prefix, hello, capErr, stored, sent, delivered>>
  BY DEF ReadConn, PrefixUsedUp, StreamInv
<1>3. delivered \in Seq(Byte) /\ wire \in Seq(Byte)
  BY StreamTypes
<1>4. chunk' \in Seq(Byte) /\ wire' \in Seq(Byte) /\ chunk' \o wire' = wire
  BY <1>1, ReadableIsWire
<1>5. ~capErr
  <2>1. Len(<<>>) = 0
    BY EmptySeq
  <2>2. Readable # <<>>
    BY <1>1, <2>1
  <2> QED BY <2>2 DEF StreamInv, FailedInv
<1>6. NothingLost'
  <2>1. delivered \o chunk = delivered /\ delivered \o prefix = delivered
    BY <1>2, <1>3, ConcatEmptySeq
  <2>2. delivered \o wire = sent
    BY <1>2, <1>5, <2>1 DEF StreamInv, NothingLost
  <2>3. (delivered \o chunk') \o wire' = delivered \o (chunk' \o wire')
    <3>1. delivered \in Seq(Byte) /\ chunk' \in Seq(Byte) /\ wire' \in Seq(Byte)
      BY <1>3, <1>4
    <3> QED BY <3>1, Regroup, Zenon
  <2>4. (delivered \o chunk') \o prefix = delivered \o chunk'
    <3>1. delivered \o chunk' \in Seq(Byte)
      BY <1>3, <1>4, ConcatProperties
    <3> QED BY <1>2, <3>1, ConcatEmptySeq
  <2>5. NothingLost' <=> (~capErr => (delivered \o chunk') \o prefix \o wire' = sent)
    BY <1>2 DEF NothingLost
  <2> QED BY <1>4, <2>2, <2>3, <2>4, <2>5
<1>7. SentOK' /\ StoredInv'
  BY <1>2, SentAndStoredStay
<1>8. TypeOK'
  BY <1>2, <1>4 DEF TypeOK
<1> QED BY <1>2, <1>5, <1>6, <1>7, <1>8 DEF StreamInv, ReadingInv, FailedInv

\* A Read returns what it has, and the hello may be stored.
LEMMA ReturnStep == HelloInv /\ Return => HelloInv'
<1> SUFFICES ASSUME HelloInv, Return PROVE HelloInv'
  OBVIOUS
<1> USE DEF HelloInv
<1>1. /\ pc = "return" /\ pc' = "ready" /\ chunk' = <<>> /\ delivered' = delivered \o chunk
      /\ UNCHANGED <<wire, ended, buf, prefix, hello, capErr, sent>>
  BY DEF Return
<1>2. /\ prefix \in Seq(Byte) /\ delivered \in Seq(Byte) /\ chunk \in Seq(Byte)
      /\ wire \in Seq(Byte) /\ <<>> \in Seq(Byte) /\ hello \in Seq(Byte)
      /\ stored \in Seq(Seq(Byte))
  BY StreamTypes
<1>3. stored' = (IF stored = <<>> /\ hello # <<>> THEN <<hello>> ELSE stored)
  <2>1. hello \in Seq(Byte) /\ Append(<<>>, hello) = <<>> \o <<hello>>
    BY <1>2, EmptySeq, AppendIsConcat
  <2>2. Append(<<>>, hello) = <<hello>>
    BY <1>2
  <2> QED BY <2>2 DEF Return, MayStore
<1>4. delivered' \in Seq(Byte) /\ delivered' \o chunk' = delivered \o chunk
  BY <1>1, <1>2, ConcatProperties, ConcatEmptySeq
<1>5. NothingLost'
  BY <1>1, <1>4 DEF StreamInv, NothingLost
<1>6. FailedInv'
  BY <1>1, <1>4 DEF StreamInv, FailedInv, Readable, PaddedFragment, RecordLen
<1>7. StoredInv'
  BY <1>1, <1>3 DEF StreamInv, StoredInv, RecordLen
<1>8. TypeOK'
  <2>1. stored' \in Seq(Seq(Byte))
    BY <1>2, <1>3
  <2> QED BY <1>1, <1>2, <1>4, <2>1 DEF TypeOK
<1> QED BY <1>1, <1>5, <1>6, <1>7, <1>8 DEF StreamInv, SentOK, ReadingInv

-----------------------------------------------------------------------------
(* Theorems                                                                *)

\* Every step keeps the whole invariant.
LEMMA HelloStep == HelloInv /\ [Next]_vars => HelloInv'
<1> SUFFICES ASSUME HelloInv, [Next]_vars PROVE HelloInv'
  OBVIOUS
<1>1. CASE UNCHANGED vars
  BY <1>1 DEF vars, HelloInv, TypeOK, StreamInv, SentOK, ReadingInv, FailedInv, StoredInv,
     NothingLost, Needed, RecordLen, Readable, PaddedFragment
<1> QED BY <1>1, SendStep, EndStep, ReadMoreStep, HeaderReadStep, RecordReadStep,
           ReadFailsStep, ReadPrefixStep, ReadConnStep, ReturnStep DEF Next, Capture

\* The invariant of the connection.
LEMMA HelloInvariant == Spec => []HelloInv
BY InitStream, HelloStep, PTL DEF Spec

\* Every variable keeps its type; no more than a record of the greatest length
\* is ever read ahead.
THEOREM HelloTypeCorrect == Spec => []TypeOK
<1>1. HelloInv => TypeOK
  BY DEF HelloInv
<1> QED BY <1>1, HelloInvariant, PTL

\* Capturing the hello loses, repeats and reorders nothing of the stream,
\* whatever the lengths and the sizes of the reads below and above.
THEOREM NothingLostHolds == Spec => []NothingLost
<1>1. HelloInv => NothingLost
  BY DEF HelloInv, StreamInv
<1> QED BY <1>1, HelloInvariant, PTL

\* The hello stored is the client's first record, stored once and before the
\* TLS stack has any of it.
THEOREM StoredIsFirstRecordHolds == Spec => []StoredIsFirstRecord
<1>1. HelloInv => StoredIsFirstRecord
  <2> SUFFICES ASSUME HelloInv PROVE StoredIsFirstRecord
    OBVIOUS
  <2>1. stored = <<>> \/ (hello # <<>> /\ stored = <<hello>>)
    BY DEF HelloInv, StreamInv, StoredInv
  <2>2. Len(stored) <= 1
    <3>1. Len(<<>>) = 0 /\ Len(<<hello>>) = 1
      OBVIOUS
    <3>2. CASE stored = <<>>
      BY <3>1, <3>2
    <3>3. CASE stored = <<hello>>
      <4>1. Len(stored) = 1
        BY <3>1, <3>3, Zenon
      <4> QED BY <4>1
    <3> QED BY <2>1, <3>2, <3>3
  <2> QED BY <2>2 DEF HelloInv, StreamInv, StoredInv, StoredIsFirstRecord
<1> QED BY <1>1, HelloInvariant, PTL

-----------------------------------------------------------------------------
(* The refinement of ReplayedStream.                                       *)

\* A Read that returns bytes of the client delivers the next bytes sent.
LEMMA ReturnDelivers ==
  ASSUME HelloInv, Return, ~capErr, chunk # <<>>
  PROVE  Stream!Deliver
<1> USE DEF HelloInv
<1>1. /\ delivered' = delivered \o chunk /\ sent' = sent /\ ended' = ended /\ pc = "return"
  BY DEF Return
<1>2. /\ prefix \in Seq(Byte) /\ delivered \in Seq(Byte) /\ chunk \in Seq(Byte)
      /\ wire \in Seq(Byte)
  BY StreamTypes
<1>3. delivered' # delivered
  BY <1>1, <1>2, ConcatEqualIffEmpty
<1>4. IsPrefix(delivered, delivered')
  BY <1>1, <1>2, BeginningOf
<1>5. IsPrefix(delivered', sent)
  <2> DEFINE d == delivered \o chunk
  <2>1. d \in Seq(Byte)
    BY <1>2, ConcatProperties
  <2>2. (d \o prefix) \o wire = sent
    BY <1>1 DEF StreamInv, NothingLost
  <2>3. d = delivered'
    BY <1>1
  <2> HIDE DEF d
  <2>4. (d \o prefix) \o wire = d \o (prefix \o wire) /\ prefix \o wire \in Seq(Byte)
    BY <1>2, <2>1, Regroup, ConcatProperties
  <2>5. IsPrefix(d, d \o (prefix \o wire))
    BY <2>1, <2>4, BeginningOf
  <2> QED BY <2>2, <2>3, <2>4, <2>5
<1> QED BY <1>1, <1>3, <1>4, <1>5 DEF Stream!Deliver, Stream!IsPrefix, IsPrefix

\* A Read that returns bytes of a record that failed delivers what the client
\* sent of it, and zeros after that.
LEMMA ReturnDeliversPadded ==
  ASSUME HelloInv, Return, capErr, chunk # <<>>
  PROVE  Stream!DeliverPadded
<1> USE DEF HelloInv
<1>1. /\ delivered' = delivered \o chunk /\ sent' = sent /\ ended' = ended
  BY DEF Return
<1>2. /\ prefix \in Seq(Byte) /\ delivered \in Seq(Byte) /\ chunk \in Seq(Byte)
      /\ wire \in Seq(Byte) /\ buf \in Seq(Byte) /\ sent \in Seq(Byte)
      /\ Len(buf) \in Nat /\ Len(sent) \in Nat
  BY StreamTypes
<1>3. /\ ended # "no" /\ buf \o wire = sent
      /\ (delivered \o chunk) \o prefix =
           IF Len(buf) < HdrLen THEN <<>> ELSE PaddedFragment(buf)
  BY DEF StreamInv, FailedInv
<1> DEFINE d == delivered \o chunk
           k == RecordLen(buf) - Len(buf)
           zeros == [i \in 1..k |-> Zero]
<1>4. d \in Seq(Byte) /\ Len(d) \in Nat /\ d # delivered /\ d # <<>> /\ IsPrefix(delivered, d)
  BY <1>2, ConcatProperties, ConcatEqualIffEmpty, BeginningOf
<1> HIDE DEF d
<1>5. ~(Len(buf) < HdrLen)
  <2>1. d \o prefix # <<>>
    BY <1>2, <1>4, ConcatEqualIffEmpty
  <2> QED BY <1>3, <2>1 DEF d
<1>6. d \o prefix = buf \o zeros
  BY <1>3, <1>5 DEF d, PaddedFragment
<1>7. k \in Int
  BY <1>2, <1>3, <1>5, RecordLenType, HelloConstants DEF StreamInv, HdrLen
<1> HIDE DEF k
<1>8. zeros \in Seq(Byte) /\ \A i \in 1..Len(zeros) : zeros[i] = Zero
  <2>1. CASE k >= 0
    BY <1>7, <2>1, HelloConstants
  <2>2. CASE ~(k >= 0)
    <3>1. 1..k = {}
      BY <1>7, <2>2
    <3>2. zeros = <<>>
      BY <3>1
    <3>3. Len(zeros) = 0 /\ zeros \in Seq(Byte)
      BY <3>2, EmptySeq
    <3> HIDE DEF zeros
    <3> QED BY <3>3
  <2> QED BY <2>1, <2>2
<1> HIDE DEF zeros
\* Position by position: what is delivered is what is read, then zeros.
<1>9. /\ Len(d) <= Len(buf) + Len(zeros) /\ Len(zeros) \in Nat
      /\ \A i \in 1..Len(d) : d[i] = IF i <= Len(buf) THEN buf[i] ELSE Zero
  <2>1. /\ Len(d \o prefix) = Len(d) + Len(prefix) /\ Len(prefix) \in Nat
        /\ \A i \in 1..Len(d) : (d \o prefix)[i] = d[i]
    BY <1>2, <1>4, ConcatProperties, LenProperties
  <2>2. /\ Len(buf \o zeros) = Len(buf) + Len(zeros) /\ Len(zeros) \in Nat
        /\ \A i \in 1..Len(buf) + Len(zeros) :
             (buf \o zeros)[i] = IF i <= Len(buf) THEN buf[i] ELSE zeros[i - Len(buf)]
    BY <1>2, <1>8, ConcatProperties, LenProperties
  <2>3. Len(d) <= Len(buf) + Len(zeros)
    BY <1>4, <1>6, <2>1, <2>2
  <2>4. ASSUME NEW i \in 1..Len(d) PROVE d[i] = IF i <= Len(buf) THEN buf[i] ELSE Zero
    <3>1. i \in 1..Len(buf) + Len(zeros)
      BY <1>2, <1>4, <2>2, <2>3
    <3>2. d[i] = IF i <= Len(buf) THEN buf[i] ELSE zeros[i - Len(buf)]
      BY <1>6, <2>1, <2>2, <3>1
    <3>3. ~(i <= Len(buf)) => i - Len(buf) \in 1..Len(zeros)
      BY <1>2, <2>2, <3>1
    <3> QED BY <1>8, <3>2, <3>3
  <2> QED BY <2>2, <2>3, <2>4
<1>10. Len(buf) <= Len(sent) /\ \A i \in 1..Len(buf) : sent[i] = buf[i]
  <2>1. /\ Len(buf \o wire) = Len(buf) + Len(wire) /\ Len(wire) \in Nat
        /\ \A i \in 1..Len(buf) : (buf \o wire)[i] = buf[i]
    BY <1>2, ConcatProperties, LenProperties
  <2> QED BY <1>2, <1>3, <2>1
<1>11. PICK n \in 0..Len(d) : n <= Len(buf) /\ (n = Len(d) \/ n = Len(buf))
  <2>1. CASE Len(d) <= Len(buf)
    <3>1. Len(d) \in 0..Len(d)
      BY <1>4
    <3> QED BY <2>1, <3>1
  <2>2. CASE ~(Len(d) <= Len(buf))
    <3>1. Len(buf) \in 0..Len(d) /\ Len(buf) <= Len(buf)
      BY <1>2, <1>4, <2>2
    <3> QED BY <3>1
  <2> QED BY <2>1, <2>2
<1>12. IsPrefix(SubSeq(d, 1, n), sent)
  <2> DEFINE s == SubSeq(d, 1, n)
             t == SubSeq(sent, 1, n)
  <2>1. n \in Nat /\ n <= Len(sent) /\ n \in Int
    BY <1>2, <1>10, <1>11
  <2>2. s \in Seq(Byte) /\ Len(s) = n /\ \A i \in 1..n : s[i] = d[i]
    BY <1>4, <2>1, SubSeqProperties, ElementOfSeq
  <2>3. t \in Seq(Byte) /\ Len(t) = n /\ \A i \in 1..n : t[i] = sent[i]
    BY <1>2, <2>1, SubSeqProperties, ElementOfSeq
  <2>4. \A i \in 1..n : d[i] = sent[i]
    <3> SUFFICES ASSUME NEW i \in 1..n PROVE d[i] = sent[i]
      OBVIOUS
    <3>1. i \in 1..Len(d) /\ i \in 1..Len(buf) /\ i <= Len(buf)
      BY <1>2, <1>4, <1>11
    <3>2. d[i] = buf[i]
      BY <1>9, <3>1
    <3>3. sent[i] = buf[i]
      BY <1>10, <3>1
    <3> QED BY <3>2, <3>3
  <2> HIDE DEF s, t
  <2>5. s = t
    BY <2>1, <2>2, <2>3, <2>4, SeqEqual
  <2>6. SubSeq(s, 1, Len(s)) = s
    BY <2>2, SubSeqFull
  <2> QED BY <2>1, <2>2, <2>5, <2>6 DEF IsPrefix, s, t
<1>13. Stream!Padding(SubSeq(d, n + 1, Len(d)))
  <2> DEFINE z == SubSeq(d, n + 1, Len(d))
  <2>1. n \in Int /\ Len(d) \in Int
    BY <1>4, <1>11
  <2>2. \A i \in n + 1..Len(d) : d[i] \in Byte
    BY <1>4, <1>11, ElementOfSeq
  <2>3. /\ z \in Seq(Byte) /\ Len(z) = (IF n + 1 <= Len(d) THEN Len(d) - (n + 1) + 1 ELSE 0)
        /\ \A i \in 1..Len(d) - (n + 1) + 1 : z[i] = d[n + 1 + i - 1]
    BY <2>1, <2>2, SubSeqProperties
  <2> HIDE DEF z
  <2>4. DOMAIN z = 1..Len(z)
    BY <2>3, LenProperties
  <2>5. ASSUME NEW i \in DOMAIN z PROVE z[i] = Zero
    <3>1. i \in 1..Len(d) - (n + 1) + 1 /\ n + 1 + i - 1 \in 1..Len(d)
      BY <1>4, <1>11, <2>1, <2>3, <2>4
    <3>2. n < Len(d)
      BY <1>4, <1>11, <3>1
    <3>3. n = Len(buf)
      BY <1>11, <3>2
    <3>4. d[n + 1 + i - 1] = Zero
      BY <1>2, <1>9, <3>1, <3>3
    <3> QED BY <2>3, <3>1, <3>4
  <2> QED BY <2>5 DEF Stream!Padding, z
<1>14. delivered' = d
  BY <1>1 DEF d
<1> QED BY <1>1, <1>3, <1>4, <1>11, <1>12, <1>13, <1>14
        DEF Stream!DeliverPadded, Stream!IsPrefix, IsPrefix

\* The initial states are those of the replayed stream.
LEMMA RefinedInit == Init => Stream!Init
BY DEF Init, Stream!Init

\* Each step is a step of the stream or leaves it alone.
LEMMA RefinedStep ==
  HelloInv /\ [Next]_vars => [Stream!Next]_<<sent, delivered, ended # "no">>
<1> SUFFICES ASSUME HelloInv, [Next]_vars
             PROVE  Stream!Next \/ UNCHANGED <<sent, delivered, ended>>
  OBVIOUS
<1>1. CASE Send
  <2>1. PICK b \in Nth(Len(sent) + 1) : sent' = Append(sent, b)
    BY <1>1 DEF Send
  <2>2. Len(sent) + 1 \in 1..MaxSent
    BY <1>1, StreamTypes, HelloConstants DEF Send, HelloInv
  <2>3. b \in Byte
    BY <2>2, NthType
  <2> QED BY <1>1, <2>1, <2>3 DEF Send, Stream!Send, Stream!Next
<1>2. CASE End
  BY <1>2 DEF End, Stream!End, Stream!Next
<1>3. CASE Return
  <2>1. CASE chunk = <<>>
    <3>1. delivered \in Seq(Byte)
      BY StreamTypes DEF HelloInv
    <3> QED BY <1>3, <2>1, <3>1, ConcatEmptySeq DEF Return
  <2> QED BY <1>3, <2>1, ReturnDelivers, ReturnDeliversPadded DEF Stream!Next
<1>4. CASE Capture \/ ReadPrefix \/ ReadConn
  BY <1>4 DEF Capture, ReadMore, HeaderRead, RecordRead, ReadFails, ReadPrefix, ReadConn
<1>5. CASE UNCHANGED vars
  BY <1>5 DEF vars
<1> QED BY <1>1, <1>2, <1>3, <1>4, <1>5 DEF Next

\* HelloCaptureConn is, to the TLS stack above it, the client's stream, or the
\* record that the client did not finish made up with zeros.
THEOREM RefinementHolds == Spec => RefinesReplayedStream
BY RefinedInit, RefinedStep, HelloInvariant, PTL
   DEF Spec, RefinesReplayedStream, Stream!Spec
=============================================================================
