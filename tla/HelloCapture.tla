---------------------------- MODULE HelloCapture ----------------------------
(***************************************************************************)
(* HelloCaptureConn and helloTrackedConn: one TCP connection whose first   *)
(* TLS record is read whole before the TLS stack sees a byte of it, kept   *)
(* as the ClientHello, handed to storeHello once, and replayed.            *)
(*                                                                         *)
(* A stream is a sequence of bytes; a record header is its type and its    *)
(* length (the version bytes are left out, HdrLen is 2 instead of 5).      *)
(* Every other byte is told apart by its position in the stream.           *)
(***************************************************************************)
EXTENDS Integers, Sequences, SequencesExt

CONSTANTS
  MaxRecord,    \* bound: the length of the first record's fragment
  MaxSent       \* bound: the bytes a client sends

ASSUME BoundsType == MaxRecord \in Nat /\ MaxSent \in Nat /\ MaxRecord <= MaxSent

HdrLen == 2
Handshake == 22
Byte == [field : {"type", "length", "data"}, value : 0..MaxSent \cup {Handshake}]
Zero == [field |-> "data", value |-> 0]

VARIABLES
  wire,         \* bytes the client sent and nobody has read
  ended,        \* whether the client hung up or the read deadline has passed
  pc,           \* the goroutine reading the connection
  buf,          \* what readFirstTLSRecord has read
  prefix,       \* HelloCaptureConn.prefix
  hello,        \* HelloCaptureConn.hello; <<>> is nil
  capErr,       \* HelloCaptureConn.capErr # nil
  chunk,        \* what HelloCaptureConn.Read has copied and not yet returned
  stored,       \* the records given to storeHello
  sent, delivered   \* history: everything sent, everything the TLS stack read

vars == <<wire, ended, pc, buf, prefix, hello, capErr, chunk, stored, sent, delivered>>

TypeOK ==
  /\ wire \in Seq(Byte) /\ buf \in Seq(Byte) /\ prefix \in Seq(Byte)
  /\ hello \in Seq(Byte) /\ chunk \in Seq(Byte)
  /\ sent \in Seq(Byte) /\ delivered \in Seq(Byte)
  /\ ended \in {"no", "hung up", "deadline"} /\ capErr \in BOOLEAN
  /\ pc \in {"header", "fragment", "ready", "return"}
  /\ stored \in Seq(Seq(Byte))
  /\ Len(buf) <= HdrLen + MaxRecord

Init ==
  /\ wire = <<>> /\ ended = "no"
  /\ pc = "header" /\ buf = <<>> /\ prefix = <<>> /\ hello = <<>>
  /\ capErr = FALSE /\ chunk = <<>> /\ stored = <<>>
  /\ sent = <<>> /\ delivered = <<>>

-----------------------------------------------------------------------------
(* The client and its connection.                                          *)

Nth(i) ==
  CASE i = 1 -> [field : {"type"}, value : {0, Handshake}]
    [] i = 2 -> [field : {"length"}, value : 0..MaxRecord]
    [] OTHER -> [field : {"data"}, value : {i}]

Send ==
  /\ ended = "no"
  /\ Len(sent) < MaxSent
  /\ \E b \in Nth(Len(sent) + 1) :
       sent' = Append(sent, b) /\ wire' = Append(wire, b)
  /\ UNCHANGED <<ended, pc, buf, prefix, hello, capErr, chunk, stored, delivered>>

End ==
  /\ ended = "no"
  /\ ended' \in {"hung up", "deadline"}
  /\ UNCHANGED <<wire, pc, buf, prefix, hello, capErr, chunk, stored, sent, delivered>>

-----------------------------------------------------------------------------
(* ensure and readFirstTLSRecord, run by the first Read.                   *)

\* mutant: the length is taken to count the header
RecordLenWithHeader(h) == h[2].value

\* A record's length with its header.
RecordLen(h) == HdrLen + h[2].value

\* mutant: one byte of the next record is read too
NeededAndOneMore == IF pc = "header" THEN HdrLen ELSE RecordLen(buf) + 1

Needed == IF pc = "header" THEN HdrLen ELSE RecordLen(buf)

\* What Conn.Read can return: nothing once the deadline has passed, and the
\* bytes already there when the client has hung up.
Readable == IF ended = "deadline" THEN <<>> ELSE wire

\* io.ReadFull reads what is there, and goes on while it is short.
ReadMore ==
  /\ pc \in {"header", "fragment"}
  /\ \E n \in 1..Len(Readable) :
       /\ Len(buf) + n <= Needed
       /\ buf' = buf \o SubSeq(wire, 1, n)
       /\ wire' = SubSeq(wire, n + 1, Len(wire))
  /\ UNCHANGED <<ended, pc, prefix, hello, capErr, chunk, stored, sent, delivered>>

\* The header is read.
HeaderRead ==
  /\ pc = "header" /\ Len(buf) = HdrLen
  /\ IF buf[1].value = Handshake
     THEN pc' = "fragment" /\ UNCHANGED prefix
     ELSE pc' = "ready" /\ prefix' = buf
  /\ UNCHANGED <<wire, ended, buf, hello, capErr, chunk, stored, sent, delivered>>

\* mutant: only what follows the record is replayed
ReplayRest(record, rest) == rest

\* append(hello, rest...)
Replay(record, rest) == record \o rest

\* The record is whole; readFirstTLSRecord reads nothing after it.
RecordRead ==
  /\ pc = "fragment" /\ Len(buf) >= RecordLen(buf)
  /\ pc' = "ready"
  /\ hello' = buf /\ prefix' = Replay(buf, <<>>)
  /\ UNCHANGED <<wire, ended, buf, capErr, chunk, stored, sent, delivered>>

\* append(hdr, frag...): frag has its full length, read or not.
PaddedFragment(b) == b \o [i \in 1..(RecordLen(b) - Len(b)) |-> Zero]

\* io.ReadFull fails: a short header is dropped, a short fragment made up.
ReadFails ==
  /\ pc \in {"header", "fragment"} /\ Readable = <<>> /\ ended # "no"
  /\ Len(buf) < Needed
  /\ pc' = "ready"
  /\ capErr' = TRUE
  /\ prefix' = IF pc = "header" THEN <<>> ELSE PaddedFragment(buf)
  /\ UNCHANGED <<wire, ended, buf, hello, chunk, stored, sent, delivered>>

-----------------------------------------------------------------------------
(* Read                                                                    *)

\* HelloCaptureConn.Read with a buffer of any length: what is left of the
\* prefix, else the connection.
ReadPrefix ==
  /\ pc = "ready" /\ prefix # <<>>
  /\ \E n \in 1..Len(prefix) :
       chunk' = SubSeq(prefix, 1, n) /\ prefix' = SubSeq(prefix, n + 1, Len(prefix))
  /\ pc' = "return"
  /\ UNCHANGED <<wire, ended, buf, hello, capErr, stored, sent, delivered>>

\* mutant: the connection is read while there is a prefix
PrefixIgnored == TRUE

PrefixUsedUp == prefix = <<>>

ReadConn ==
  /\ pc = "ready" /\ PrefixUsedUp
  /\ \E n \in 1..Len(Readable) :
       chunk' = SubSeq(wire, 1, n) /\ wire' = SubSeq(wire, n + 1, Len(wire))
  /\ pc' = "return"
  /\ UNCHANGED <<ended, buf, prefix, hello, capErr, stored, sent, delivered>>

\* mutant: every Read stores the hello
StoreAlways == hello # <<>>

\* maybeStore: c.stored is still false and there is a hello.
MayStore == stored = <<>> /\ hello # <<>>

\* helloTrackedConn.Read: maybeStore, then the bytes go to the TLS stack.
Return ==
  /\ pc = "return"
  /\ IF MayStore THEN stored' = Append(stored, hello) ELSE UNCHANGED stored
  /\ delivered' = delivered \o chunk
  /\ chunk' = <<>>
  /\ pc' = "ready"
  /\ UNCHANGED <<wire, ended, buf, prefix, hello, capErr, sent>>

Capture == ReadMore \/ HeaderRead \/ RecordRead \/ ReadFails
Next == Send \/ End \/ Capture \/ ReadPrefix \/ ReadConn \/ Return

Spec == Init /\ [][Next]_vars

-----------------------------------------------------------------------------

\* The client's first record is a handshake record, and all of it was sent.
WholeRecord == Len(sent) >= HdrLen /\ sent[1].value = Handshake /\ Len(sent) >= RecordLen(sent)
RecordDelivered == Len(delivered) >= RecordLen(sent)

\* crypto/tls reads until it has the first record; nothing is assumed of the
\* client, of the deadline, or of reads after that.
FairSpec ==
  /\ Spec
  /\ WF_vars(Capture)
  /\ WF_vars(~(WholeRecord /\ RecordDelivered) /\ (ReadPrefix \/ ReadConn))
  /\ WF_vars(Return)

Stream == INSTANCE ReplayedStream WITH ended <- ended # "no"

\* The TLS stack reads the client's stream as if nothing had been captured;
\* see ReplayedStream for the exception.
RefinesReplayedStream == Stream!Spec

\* Unless the capture failed, nothing is lost, duplicated or reordered on the
\* way, whatever the sizes of the reads below and above.
NothingLost ==
  ~capErr =>
    delivered \o chunk \o (IF pc \in {"header", "fragment"} THEN buf ELSE prefix) \o wire = sent

\* The hello stored is the first record the client sent, whole, stored once
\* and before the TLS stack has any of it.
StoredIsFirstRecord ==
  /\ Len(stored) <= 1
  /\ hello # <<>> =>
       /\ hello = SubSeq(sent, 1, RecordLen(sent))
       /\ delivered # <<>> => stored = <<hello>>

\* What makes these inductive.  Each byte sent is one that Send may send.
SentOK == Len(sent) <= MaxSent /\ \A i \in 1..Len(sent) : sent[i] \in Nth(i)

\* While the record is being read, nothing else has happened, and there is no
\* more of it than its header asks for.
ReadingInv ==
  pc \in {"header", "fragment"} =>
    /\ ~capErr /\ delivered = <<>> /\ chunk = <<>> /\ prefix = <<>> /\ hello = <<>>
    /\ Len(buf) <= Needed
    /\ pc = "fragment" => Len(buf) >= HdrLen /\ buf[1].value = Handshake

\* A capture that failed reads nothing any more: all that is or will be
\* delivered is the record made up with zeros, or nothing of it.
FailedInv ==
  capErr =>
    /\ pc \in {"ready", "return"} /\ ended # "no" /\ Readable = <<>> /\ hello = <<>>
    /\ buf \o wire = sent
    /\ delivered \o chunk \o prefix = IF Len(buf) < HdrLen THEN <<>> ELSE PaddedFragment(buf)

\* What is stored is the hello, and it is stored before anything is delivered.
StoredInv ==
  /\ stored = <<>> \/ (hello # <<>> /\ stored = <<hello>>)
  /\ hello # <<>> => /\ Len(sent) >= HdrLen /\ Len(sent) >= RecordLen(sent)
                     /\ hello = SubSeq(sent, 1, RecordLen(sent))
                     /\ delivered # <<>> => stored = <<hello>>

StreamInv ==
  /\ SentOK /\ ReadingInv /\ FailedInv /\ StoredInv /\ NothingLost
  /\ pc # "return" => chunk = <<>>

\* A handshake record that was sent whole is stored, and delivered whole,
\* unless the deadline passes before it has been read.
HelloReachesTLS ==
  WholeRecord ~> \/ stored # <<>> /\ RecordDelivered
                 \/ ended = "deadline" /\ hello = <<>>
=============================================================================
