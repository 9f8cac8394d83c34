-------------------------- MODULE H3ControlProofs --------------------------
(***************************************************************************)
(* H3Control for any connections, control streams, requests and number of  *)
(* failing writes: its type invariant, and what the files of the reader of *)
(* the control stream hold when it is done.                                *)
(***************************************************************************)
EXTENDS H3Control, TLAPS

\* The actions of the connection leave the request alone, and of the units
\* they only let more arrive.
LEMMA ConnStepType ==
  ASSUME TypeOK, NEW c \in Conns,
         \/ AcceptConn(c) \/ ClientSends(c) \/ ClientEndsStream(c) \/ ClientLeaves(c)
         \/ CaptureTimeout(c) \/ HandlerEnds(c)
  PROVE  TypeOK'
<1> USE DEF TypeOK
<1>1. ConnTypes'
  BY DEF ConnTypes, AcceptConn, ClientSends, ClientEndsStream, ClientLeaves, CaptureTimeout, HandlerEnds
<1>2. ReaderTypes' /\ RequestTypes'
  BY DEF ReaderTypes, RequestTypes, ctrlvars, filevars, reqvars,
         AcceptConn, ClientSends, ClientEndsStream, ClientLeaves, CaptureTimeout, HandlerEnds
<1>3. UnitTypes'
  <2>1. CASE ClientSends(c)
    BY <2>1, ControlFramesType DEF ClientSends, ctrlvars, filevars, UnitTypes, Units
  <2>2. CASE UNCHANGED <<sent, body, newest, written>>
    BY <2>2 DEF UnitTypes
  <2> QED
    BY <2>1, <2>2 DEF AcceptConn, ClientEndsStream, ClientLeaves, CaptureTimeout, HandlerEnds,
                      ctrlvars, filevars
<1> QED BY <1>1, <1>2, <1>3

\* The reader and its clock.
LEMMA ReaderStepType ==
  ASSUME TypeOK, NEW c \in Conns,
         AcceptControl(c) \/ Deadline(c) \/ ReaderStep(c) \/ WriteFails(c)
  PROVE  TypeOK'
<1> USE DEF TypeOK
<1>1. ConnTypes' /\ RequestTypes'
  BY DEF ConnTypes, RequestTypes, ctrlvars, filevars, reqvars, AcceptControl, Deadline,
         ReaderStep, LoopHead, Read, Parse, CreateFile, FillFile, WriteFails
<1>2. ReaderTypes'
  <2> USE DEF ReaderTypes, ReaderPCs
  <2>1. CASE AcceptControl(c) \/ Deadline(c) \/ Parse(c) \/ CreateFile(c) \/ FillFile(c)
    BY <2>1 DEF AcceptControl, Deadline, Parse, CreateFile, FillFile, AfterWrite, ctrlvars,
                filevars
  <2>2. CASE LoopHead(c) \/ Read(c)
    BY <2>2 DEF LoopHead, Read, AfterError, LastWrite, filevars
  <2>3. CASE WriteFails(c)
    BY <2>3, MaxFailuresType DEF WriteFails, AfterWrite
  <2> QED BY <2>1, <2>2, <2>3 DEF ReaderStep
<1>3. UnitTypes'
  <2>1. CASE Read(c)
    BY <2>1 DEF Read, Appended, UnitTypes, filevars
  <2>2. CASE CreateFile(c) \/ FillFile(c)
    BY <2>2 DEF CreateFile, FillFile, UnitTypes
  <2>3. CASE UNCHANGED <<sent, body, newest, written>>
    BY <2>3 DEF UnitTypes
  <2>4. CASE AcceptControl(c) \/ Deadline(c)
    BY <2>4, <2>3 DEF AcceptControl, Deadline, ctrlvars, filevars
  <2>5. CASE LoopHead(c) \/ Parse(c)
    BY <2>5, <2>3 DEF LoopHead, Parse, filevars
  <2>6. CASE WriteFails(c)
    <3>1. PICK n \in Nat : n <= body[c] /\ newest' \in {newest, [newest EXCEPT ![c] = n]}
      BY <2>6 DEF WriteFails, UnitTypes
    <3>2. UNCHANGED <<sent, body, written>>
      BY <2>6 DEF WriteFails
    <3> QED BY <3>1, <3>2 DEF UnitTypes
  <2> QED BY <2>1, <2>2, <2>4, <2>5, <2>6 DEF ReaderStep
<1> QED BY <1>1, <1>2, <1>3

\* Every path has a body.
LEMMA BodyType == ASSUME NEW path PROVE h3ProbeBody(path) \in Bodies
BY DEF h3ProbeBody, Bodies

\* What is written of an answer is an answer.
LEMMA WriteType ==
  ASSUME RequestTypes, NEW c \in Conns, NEW part \in {"head", "whole"}, Write(c, part)
  PROVE  answer' \in [Conns -> Bodies \X {"none", "head", "whole"}]
<1>1. answer[c][1] \in Bodies
  BY DEF RequestTypes
<1> QED BY <1>1 DEF RequestTypes, Write

\* The request touches nothing but its own variables.
LEMMA RequestStepType ==
  ASSUME TypeOK, NEW c \in Conns,
         ClientRequests(c) \/ AcceptRequest(c) \/ RequestStep(c)
  PROVE  TypeOK'
<1> USE DEF TypeOK
<1>1. UNCHANGED <<conn, sent, stream, handler, capDone, late, ctrlvars>>
  BY DEF ClientRequests, AcceptRequest, RequestStep, ReadRequest, AnswerHead, Answer
<1>2. ConnTypes' /\ ReaderTypes' /\ UnitTypes'
  BY <1>1 DEF ConnTypes, ReaderTypes, UnitTypes, Units, ctrlvars, filevars
<1>3. RequestTypes'
  <2>1. CASE ClientRequests(c) \/ AcceptRequest(c)
    BY <2>1 DEF ClientRequests, AcceptRequest, RequestTypes
  <2>2. CASE ReadRequest(c)
    <3> DEFINE path(n) == h3RequestPathHint(c, n)
    <3>1. PICK n \in 0..reqSent[c] :
            /\ \E w \in {0, n} : reqFile' = [reqFile EXCEPT ![c] = w]
            /\ answer' = [answer EXCEPT ![c] = <<h3ProbeBody(path(n)), "none">>]
            /\ request' = [request EXCEPT ![c] = IF IsHeld(path(n)) THEN "held" ELSE "answer"]
      BY <2>2 DEF ReadRequest
    <3>2. n \in 0..2
      BY DEF RequestTypes
    <3>3. h3ProbeBody(path(n)) \in Bodies
      BY BodyType
    <3> HIDE DEF path
    <3>4. reqSent' = reqSent
      BY <2>2 DEF ReadRequest
    <3> QED BY <3>1, <3>2, <3>3, <3>4 DEF RequestTypes
  <2>3. CASE AnswerHead(c) \/ Answer(c)
    BY <2>3, WriteType DEF AnswerHead, Answer, RequestTypes
  <2> QED BY <2>1, <2>2, <2>3 DEF RequestStep
<1> QED BY <1>2, <1>3

\* Before anything arrives, every variable has its type.
LEMMA H3InitType == Init => TypeOK
<1> SUFFICES ASSUME Init PROVE TypeOK
  OBVIOUS
<1>1. ConnTypes /\ ReaderTypes
  BY MaxFailuresType DEF Init, ConnTypes, ReaderTypes, ReaderPCs
<1>2. RequestTypes
  BY DEF Init, RequestTypes, Bodies
<1>3. UnitTypes
  BY ControlFramesType DEF Init, UnitTypes, Units
<1> QED BY <1>1, <1>2, <1>3 DEF TypeOK

\* Every step of a connection, a reader or a request keeps the types.
LEMMA H3NextType == TypeOK /\ [Next]_h3vars => TypeOK'
<1> SUFFICES ASSUME TypeOK, [Next]_h3vars PROVE TypeOK'
  OBVIOUS
<1>1. CASE Next
  BY <1>1, ConnStepType, ReaderStepType, RequestStepType DEF Next
<1>2. CASE UNCHANGED h3vars
  BY <1>2 DEF h3vars, ctrlvars, filevars, reqvars, TypeOK, ConnTypes, ReaderTypes, RequestTypes,
     UnitTypes, Units
<1> QED BY <1>1, <1>2

\* Every variable keeps its type: a reader is never ahead of what has arrived,
\* nor a file of it ahead of the reader, and every answer is one of the bodies.
THEOREM H3TypeCorrect == Spec => []TypeOK
BY H3InitType, H3NextType, PTL DEF Spec

-----------------------------------------------------------------------------
(* What the reader has read is in its files.                               *)

\* Whether a PRIORITY_UPDATE is seen depends on what has been read alone.
LEMMA SeenInBody ==
  ASSUME NEW c \in Conns, body'[c] = body[c]
  PROVE  SeesPriorityUpdate(c)' <=> SeesPriorityUpdate(c)
BY DEF SeesPriorityUpdate, ControlBytes

\* FileInv of one reader.
FileOf(c) ==
  /\ reader[c] \in {"none", "loop", "read", "parse"} => ~final[c]
  /\ reader[c] \notin {"create", "fill"} => newest[c] = body[c] \/ failed[c]
  /\ reader[c] # "done" /\ failures[c] = 0 /\ written[c] # body[c] =>
       reader[c] \in {"create", "fill"} /\ ~final[c]
  /\ reader[c] = "done" /\ failures[c] <= 1 /\ ~SeesPriorityUpdate(c) => written[c] = body[c]

\* FileInv speaks of one connection at a time.
LEMMA FileInvIsFileOf == FileInv <=> \A c \in Conns : FileOf(c)
BY DEF FileInv, FileOf, ControlFileIsWhole

\* A reader that does not move keeps its part of the invariant.
LEMMA FileKept ==
  ASSUME NEW c \in Conns, FileOf(c),
         reader'[c] = reader[c], final'[c] = final[c], failures'[c] = failures[c],
         newest'[c] = newest[c], written'[c] = written[c], failed'[c] = failed[c],
         body'[c] = body[c]
  PROVE  FileOf(c)'
BY SeenInBody DEF FileOf

\* A step of one reader moves no other.
LEMMA OthersStand ==
  ASSUME TypeOK, NEW c \in Conns, NEW d \in Conns, c # d,
         AcceptControl(c) \/ ReaderStep(c) \/ WriteFails(c)
  PROVE  /\ reader'[d] = reader[d] /\ final'[d] = final[d] /\ failures'[d] = failures[d]
         /\ newest'[d] = newest[d] /\ written'[d] = written[d] /\ failed'[d] = failed[d]
         /\ body'[d] = body[d]
<1> USE DEF TypeOK, ReaderTypes, UnitTypes, filevars
<1>1. CASE AcceptControl(c) \/ Parse(c) \/ CreateFile(c) \/ FillFile(c) \/ WriteFails(c)
  BY <1>1 DEF AcceptControl, Parse, CreateFile, FillFile, WriteFails
<1>2. CASE LoopHead(c)
  BY <1>2 DEF LoopHead
<1>3. CASE Read(c)
  BY <1>3 DEF Read, AfterError
<1> QED BY <1>1, <1>2, <1>3 DEF ReaderStep

\* A step of the reader keeps its part: it goes to the last write only from
\* the loop, where the file is whole if no write has failed yet.
LEMMA ReaderStepFile ==
  ASSUME TypeOK, NEW c \in Conns, FileOf(c),
         AcceptControl(c) \/ ReaderStep(c) \/ WriteFails(c)
  PROVE  FileOf(c)'
<1> USE DEF TypeOK, ReaderTypes, filevars
<1>0. /\ body[c] \in Nat /\ newest[c] \in Nat /\ newest[c] <= body[c]
      /\ written[c] \in Nat /\ written[c] <= body[c] /\ failures[c] \in Nat
  BY MaxFailuresType DEF UnitTypes
<1>1. CASE AcceptControl(c)
  BY <1>1 DEF AcceptControl, FileOf
<1>2. CASE LoopHead(c)
  BY <1>0, <1>2 DEF LoopHead, LastWrite, FileOf
<1>3. CASE Read(c)
  <2>1. CASE body' = body
    BY <1>0, <1>3, <2>1 DEF Read, AfterError, LastWrite, FileOf
  <2>2. CASE body' # body
    BY <1>3, <2>2 DEF Read, FileOf
  <2> QED BY <2>1, <2>2
<1>4. CASE Parse(c)
  <2>1. SeesPriorityUpdate(c)' <=> SeesPriorityUpdate(c)
    BY <1>4, SeenInBody DEF Parse
  <2> QED BY <1>4, <2>1 DEF Parse, FileOf
<1>5. CASE CreateFile(c)
  BY <1>5 DEF CreateFile, FileOf
<1>6. CASE FillFile(c)
  BY <1>6 DEF FillFile, AfterWrite, UnitTypes, FileOf
<1>7. CASE WriteFails(c)
  BY <1>0, <1>7 DEF WriteFails, AfterWrite, FileOf
<1> QED BY <1>1, <1>2, <1>3, <1>4, <1>5, <1>6, <1>7 DEF ReaderStep

\* Every step keeps what is known of the control files.
LEMMA NextFile == TypeOK /\ FileInv /\ [Next]_h3vars => FileInv'
<1> SUFFICES ASSUME TypeOK, FileInv, [Next]_h3vars PROVE FileInv'
  OBVIOUS
<1>0. \A d \in Conns : FileOf(d)
  BY FileInvIsFileOf
<1>1. ASSUME UNCHANGED ctrlvars PROVE \A d \in Conns : FileOf(d)'
  BY <1>0, <1>1, FileKept DEF ctrlvars, filevars
<1>2. ASSUME NEW c \in Conns, AcceptControl(c) \/ ReaderStep(c) \/ WriteFails(c)
      PROVE  \A d \in Conns : FileOf(d)'
  BY <1>0, <1>2, FileKept, OthersStand, ReaderStepFile
<1>3. ASSUME NEW c \in Conns,
             \/ AcceptConn(c) \/ ClientSends(c) \/ ClientEndsStream(c) \/ ClientLeaves(c)
             \/ CaptureTimeout(c) \/ HandlerEnds(c) \/ Deadline(c)
             \/ ClientRequests(c) \/ AcceptRequest(c) \/ RequestStep(c)
      PROVE  UNCHANGED ctrlvars
  BY <1>3 DEF AcceptConn, ClientSends, ClientEndsStream, ClientLeaves, CaptureTimeout, HandlerEnds,
     Deadline,
     ClientRequests, AcceptRequest, RequestStep, ReadRequest, AnswerHead, Answer
<1>4. \A d \in Conns : FileOf(d)'
  <2>1. CASE Next
    BY <2>1, <1>1, <1>2, <1>3 DEF Next
  <2>2. CASE UNCHANGED h3vars
    BY <2>2, <1>1 DEF h3vars
  <2> QED BY <2>1, <2>2
<1> QED BY <1>4 DEF FileInv, FileOf, ControlFileIsWhole

\* No file, and nothing read.
LEMMA InitFile == Init => FileInv
BY DEF Init, FileInv, ControlFileIsWhole

\* Whatever ended the reader, its newest file is the whole of what it has read
\* unless its very last write failed, and a single failure anywhere leaves the
\* whole in some file, but after a PRIORITY_UPDATE.
THEOREM ControlFileIsWholeHolds == Spec => []ControlFileIsWhole
<1>1. Init => TypeOK /\ FileInv
  BY H3InitType, InitFile
<1>2. (TypeOK /\ FileInv) /\ [Next]_h3vars => (TypeOK /\ FileInv)'
  BY H3NextType, NextFile
<1>3. FileInv => ControlFileIsWhole
  BY DEF FileInv
<1> QED BY <1>1, <1>2, <1>3, PTL DEF Spec
=============================================================================
