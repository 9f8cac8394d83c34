----------------------------- MODULE H3Control -----------------------------
(***************************************************************************)
(* The HTTP/3 side of internal/probe: a goroutine per QUIC connection, one *)
(* that reads the client's control stream and writes what it has so far to *)
(* CaptureDir after every read, one that answers a request, and the clocks *)
(* they run under: the deadline of a read, the deadline of the loop, and   *)
(* the context of the connection.                                          *)
(*                                                                         *)
(* The control stream is a sequence of frames, each of two units, so that  *)
(* a read may end inside a frame.  A client opens one request stream, and  *)
(* sends on it a HEADERS frame and then the end of the stream.             *)
(***************************************************************************)
EXTENDS QuicWire

CONSTANTS
  Conns,         \* QUIC connections whose handshake completes
  ControlFrames, \* the frames on the control stream of each
  RequestText,   \* the paths whose text is found in the request of each that makes one
  Hold,          \* COHERENCELAB_H3_HOLD is set
  MaxFailures    \* bound: how often os.WriteFile fails

ASSUME ControlFramesType ==
  DOMAIN ControlFrames = Conns /\ \A c \in Conns : Len(ControlFrames[c]) \in Nat
ASSUME RequestTextType == DOMAIN RequestText \subseteq Conns /\ Hold \in BOOLEAN
ASSUME MaxFailuresType == MaxFailures \in Nat

VARIABLES
  conn,     \* "none", "open", "closed", "idle" (timed out in the QUIC stack)
  sent,     \* units of the control stream that have arrived
  stream,   \* the control stream: "open", "fin" (ended) or "reset" by the client
  handler,  \* handleH3ConnManual: the accept loops run until it has ended
  capDone,  \* capCtx is done
  late,     \* the reader's deadline has passed
  reader,   \* where the reader of the control stream stands
  body,     \* the units it has read
  final,    \* whether it is writing for the last time
  newest,   \* the units in its newest file, 0: that is empty, or there is none
  written,  \* the units in the last file written to its end, 0: there is none
  failed,   \* whether its last write failed
  failures, \* how many of its writes did
  request,  \* where the goroutine of the request stands
  reqSent,  \* what the client has sent: 1 its HEADERS, 2 the end as well
  reqFile,  \* what the file of the request holds; 0: there is none
  answer    \* the path answered, and how much of the answer is written

filevars == <<newest, written, failed, failures>>
ctrlvars == <<reader, body, final, filevars>>
reqvars  == <<request, reqSent, reqFile, answer>>
h3vars   == <<conn, sent, stream, handler, capDone, late, ctrlvars, reqvars>>

Assets == {"/asset/a.css", "/asset/a.js", "/asset/a.png", "/asset/frame.html"}

Bodies == {"none", "page-a", "page-b"} \cup Assets

ReaderPCs == {"none", "loop", "read", "create", "fill", "parse", "done"}

Units(c) == 0..(2 * Len(ControlFrames[c]))

ConnTypes ==
  /\ conn \in [Conns -> {"none", "open", "closed", "idle"}]
  /\ stream \in [Conns -> {"open", "fin", "reset"}]
  /\ handler \in [Conns -> {"none", "running", "ended"}]
  /\ capDone \in [Conns -> BOOLEAN] /\ late \in [Conns -> BOOLEAN]

ReaderTypes ==
  /\ reader \in [Conns -> ReaderPCs]
  /\ final \in [Conns -> BOOLEAN] /\ failed \in [Conns -> BOOLEAN]
  /\ failures \in [Conns -> 0..MaxFailures]

RequestTypes ==
  /\ request \in [Conns -> {"none", "read", "answer", "held", "done"}]
  /\ reqSent \in [Conns -> 0..2] /\ reqFile \in [Conns -> 0..2]
  /\ answer \in [Conns -> Bodies \X {"none", "head", "whole"}]

\* The reader is not ahead of the client, nor a file of the reader.
UnitTypes ==
  /\ sent \in [Conns -> Nat] /\ body \in [Conns -> Nat]
  /\ newest \in [Conns -> Nat] /\ written \in [Conns -> Nat]
  /\ \A c \in Conns : /\ sent[c] \in Units(c) /\ body[c] <= sent[c]
                      /\ newest[c] <= body[c] /\ written[c] <= body[c]

TypeOK == ConnTypes /\ ReaderTypes /\ RequestTypes /\ UnitTypes

Init ==
  /\ conn = [c \in Conns |-> "none"]
  /\ sent = [c \in Conns |-> 0]
  /\ stream = [c \in Conns |-> "open"]
  /\ handler = [c \in Conns |-> "none"]
  /\ capDone = [c \in Conns |-> FALSE]
  /\ late = [c \in Conns |-> FALSE]
  /\ reader = [c \in Conns |-> "none"]
  /\ body = [c \in Conns |-> 0]
  /\ final = [c \in Conns |-> FALSE]
  /\ newest = [c \in Conns |-> 0]
  /\ written = [c \in Conns |-> 0]
  /\ failed = [c \in Conns |-> FALSE]
  /\ failures = [c \in Conns |-> 0]
  /\ request = [c \in Conns |-> "none"]
  /\ reqSent = [c \in Conns |-> 0]
  /\ reqFile = [c \in Conns |-> 0]
  /\ answer = [c \in Conns |-> <<"none", "none">>]

\* The bytes of the control stream up to some unit.
ControlBytes(c, units) ==
  [frames |-> SubSeq(ControlFrames[c], 1, units \div 2), cut |-> units % 2 = 1]

-----------------------------------------------------------------------------
(* The connection                                                          *)

\* quicAcceptLoop, handleH3Conn: Accept returns a connection, and
\* handleH3ConnManual opens its own control stream, or fails to and closes.
AcceptConn(c) ==
  /\ conn[c] = "none"
  /\ \/ /\ conn' = [conn EXCEPT ![c] = "open"]
        /\ handler' = [handler EXCEPT ![c] = "running"]
     \/ /\ conn' = [conn EXCEPT ![c] = "closed"]
        /\ handler' = [handler EXCEPT ![c] = "ended"]
  /\ UNCHANGED <<sent, stream, capDone, late, ctrlvars, reqvars>>

\* The client sends, or leaves, or is not heard of any more.
ClientSends(c) ==
  /\ conn[c] = "open" /\ stream[c] = "open" /\ sent[c] + 1 \in Units(c)
  /\ sent' = [sent EXCEPT ![c] = @ + 1]
  /\ UNCHANGED <<conn, stream, handler, capDone, late, ctrlvars, reqvars>>

\* Or it ends its control stream, or resets it, against RFC 9114.
ClientEndsStream(c) ==
  /\ conn[c] = "open" /\ stream[c] = "open" /\ sent[c] > 0
  /\ \E how \in {"fin", "reset"} : stream' = [stream EXCEPT ![c] = how]
  /\ UNCHANGED <<conn, sent, handler, capDone, late, ctrlvars, reqvars>>

ClientLeaves(c) ==
  /\ conn[c] = "open"
  /\ \E how \in {"closed", "idle"} : conn' = [conn EXCEPT ![c] = how]
  /\ UNCHANGED <<sent, stream, handler, capDone, late, ctrlvars, reqvars>>

\* capCtx: 35 seconds after the handshake.
CaptureTimeout(c) ==
  /\ handler[c] = "running" /\ ~capDone[c]
  /\ capDone' = [capDone EXCEPT ![c] = TRUE]
  /\ UNCHANGED <<conn, sent, stream, handler, late, ctrlvars, reqvars>>

\* Both accept loops return once the context is done or the connection gone;
\* handleH3ConnManual then cancels the context and closes the connection.  It
\* does not wait for the reader.
HandlerEnds(c) ==
  /\ handler[c] = "running" /\ (capDone[c] \/ conn[c] # "open")
  /\ handler' = [handler EXCEPT ![c] = "ended"]
  /\ capDone' = [capDone EXCEPT ![c] = TRUE]
  /\ conn' = [conn EXCEPT ![c] = IF @ = "open" THEN "closed" ELSE @]
  /\ UNCHANGED <<sent, stream, late, ctrlvars, reqvars>>

-----------------------------------------------------------------------------
(* captureH3ControlStream: the reader of the control stream                *)

\* AcceptUniStream returns the stream and its type is read; the goroutine of a
\* stream that is reset before that ends without having read anything.
AcceptControl(c) ==
  /\ handler[c] = "running" /\ conn[c] = "open" /\ stream[c] # "reset"
  /\ sent[c] > 0 /\ reader[c] = "none"
  /\ reader' = [reader EXCEPT ![c] = "loop"]
  /\ UNCHANGED <<conn, sent, stream, handler, capDone, late, body, final, filevars, reqvars>>

\* 30 seconds after it was accepted.
Deadline(c) ==
  /\ reader[c] \notin {"none", "done"} /\ ~late[c]
  /\ late' = [late EXCEPT ![c] = TRUE]
  /\ UNCHANGED <<conn, sent, stream, handler, capDone, ctrlvars, reqvars>>

\* mutant: the last write is thought superfluous
NoLastWrite(c) == "done"

\* What is left to do at the end: to write once more what there is.
LastWrite(c) == IF body[c] > 0 THEN "create" ELSE "done"

\* The head of the loop.
LoopHead(c) ==
  /\ reader[c] = "loop"
  /\ IF late[c] \/ capDone[c]
     THEN /\ final' = [final EXCEPT ![c] = TRUE]
          /\ reader' = [reader EXCEPT ![c] = LastWrite(c)]
     ELSE /\ reader' = [reader EXCEPT ![c] = "read"]
          /\ UNCHANGED final
  /\ UNCHANGED <<conn, sent, stream, handler, capDone, late, body, filevars, reqvars>>

\* mutant: a read that times out ends the capture
NoRetry(e) == FALSE

\* A timeout is not the end, even if it is that of the connection.
Retries(e) == e = "timeout"

\* The rest of a turn of the loop that read nothing new: go on after a
\* timeout, else leave the loop.
AfterError(c, e) ==
  IF Retries(e)
  THEN reader' = [reader EXCEPT ![c] = "loop"] /\ UNCHANGED final
  ELSE /\ final' = [final EXCEPT ![c] = TRUE]
       /\ reader' = [reader EXCEPT ![c] = LastWrite(c)]

\* There is nothing left to read, or never will be.
Drained(c) == conn[c] # "open" \/ stream[c] = "reset" \/ sent[c] = body[c]

\* What the QUIC stack then says: the client is waited for, or has ended or
\* reset the stream, or the connection is gone.
ReadErrors(c) ==
  {e \in {"timeout", "other"} :
     \/ e = "timeout" /\ (conn[c] = "idle" \/ (conn[c] = "open" /\ stream[c] = "open"))
     \/ e = "other" /\ (conn[c] = "closed" \/ stream[c] # "open")}

\* mutant: what was read before is forgotten
OnlyTheNew(c, n) == n

Appended(c, n) == body[c] + n

\* str.Read: some of what has arrived, or an error.  An EOF that comes with the
\* last bytes is as one of the next turn: either way all is written once more.
Read(c) ==
  /\ reader[c] = "read"
  /\ \/ \E n \in 1..(sent[c] - body[c]) :
          /\ conn[c] = "open"
          /\ body' = [body EXCEPT ![c] = Appended(c, n)]
          /\ reader' = [reader EXCEPT ![c] = "create"]
          /\ UNCHANGED final
     \/ /\ Drained(c)
        /\ \E e \in ReadErrors(c) : AfterError(c, e)
        /\ UNCHANGED body
  /\ UNCHANGED <<conn, sent, stream, handler, capDone, late, filevars, reqvars>>

AfterWrite(c) == IF final[c] THEN "done" ELSE "parse"

\* persistH3Control: os.WriteFile of a new file, empty at first; what it returns
\* is not looked at.
CreateFile(c) ==
  /\ reader[c] = "create"
  /\ reader' = [reader EXCEPT ![c] = "fill"]
  /\ newest' = [newest EXCEPT ![c] = 0]
  /\ UNCHANGED <<conn, sent, stream, handler, capDone, late, body, final,
                 written, failed, failures, reqvars>>

FillFile(c) ==
  /\ reader[c] = "fill"
  /\ reader' = [reader EXCEPT ![c] = AfterWrite(c)]
  /\ newest' = [newest EXCEPT ![c] = body[c]]
  /\ written' = [written EXCEPT ![c] = body[c]]
  /\ failed' = [failed EXCEPT ![c] = FALSE]
  /\ UNCHANGED <<conn, sent, stream, handler, capDone, late, body, final, failures, reqvars>>

\* The file cannot be created, or stays with a part of what it should hold.
WriteFails(c) ==
  /\ failures[c] < MaxFailures
  /\ \/ reader[c] = "create" /\ UNCHANGED newest
     \/ /\ reader[c] = "fill"
        /\ \E n \in 0..body[c] : newest' = [newest EXCEPT ![c] = n]
  /\ reader' = [reader EXCEPT ![c] = AfterWrite(c)]
  /\ failed' = [failed EXCEPT ![c] = TRUE]
  /\ failures' = [failures EXCEPT ![c] = @ + 1]
  /\ UNCHANGED <<conn, sent, stream, handler, capDone, late, body, final, written, reqvars>>

\* A PRIORITY_UPDATE is looked for in what parses.
SeesPriorityUpdate(c) ==
  LET s == ParseH3(ControlBytes(c, body[c]))
  IN s.ok /\ \E i \in DOMAIN s.Frames : IsPriorityUpdate(s.Frames[i])

\* After a read that brought something: done if all that is wanted is there.
Parse(c) ==
  /\ reader[c] = "parse"
  /\ reader' = [reader EXCEPT ![c] = IF SeesPriorityUpdate(c) THEN "done" ELSE "loop"]
  /\ UNCHANGED <<conn, sent, stream, handler, capDone, late, body, final, filevars, reqvars>>

-----------------------------------------------------------------------------
(* serveH3Requests: the request of the connection                          *)

\* The client opens a request stream and sends on it.
ClientRequests(c) ==
  /\ c \in DOMAIN RequestText /\ conn[c] = "open" /\ reqSent[c] < 2
  /\ reqSent' = [reqSent EXCEPT ![c] = @ + 1]
  /\ UNCHANGED <<conn, sent, stream, handler, capDone, late, ctrlvars, request, reqFile, answer>>

AcceptRequest(c) ==
  /\ handler[c] = "running" /\ conn[c] = "open" /\ reqSent[c] > 0 /\ request[c] = "none"
  /\ request' = [request EXCEPT ![c] = "read"]
  /\ UNCHANGED <<conn, sent, stream, handler, capDone, late, ctrlvars, reqSent, reqFile, answer>>

\* mutant: a request is read to the end of the stream
NoReadDeadline(c) == reqSent[c] = 2

\* Reading ends with the stream, the connection, or after 8 seconds.
RequestReadEnds(c) == TRUE

ProbePaths == <<"/asset/a.css", "/asset/a.js", "/asset/a.png", "/asset/frame.html",
                "/page2", "/page", "/probe", "/">>

\* The first path of the list whose text is in the request.
h3RequestPathHint(c, read) ==
  LET found == {i \in DOMAIN ProbePaths : read > 0 /\ ProbePaths[i] \in RequestText[c]}
  IN IF found = {} THEN "/probe" ELSE ProbePaths[Min(found)]

\* h3ProbeBody: the assets have bodies of their own, /page2 page-b, and all
\* other paths page-a.
h3ProbeBody(path) ==
  CASE path \in Assets -> path
    [] path = "/page2" -> "page-b"
    [] OTHER -> "page-a"

IsHeld(path) == Hold /\ path \in {"/page", "/page2", "/probe", "/"}

\* The request is in, and written to a file of its own if there is any of it.
ReadRequest(c) ==
  /\ request[c] = "read" /\ (conn[c] = "open" => RequestReadEnds(c))
  /\ \E n \in 0..reqSent[c] :
       /\ conn[c] = "open" => n = reqSent[c]
       /\ \E w \in {0, n} : reqFile' = [reqFile EXCEPT ![c] = w]
       /\ answer' = [answer EXCEPT ![c] = <<h3ProbeBody(h3RequestPathHint(c, n)), "none">>]
       /\ request' = [request EXCEPT ![c] =
            IF IsHeld(h3RequestPathHint(c, n)) THEN "held" ELSE "answer"]
  /\ UNCHANGED <<conn, sent, stream, handler, capDone, late, ctrlvars, reqSent>>

\* Writing fails once the connection is gone; nobody looks.
Write(c, part) ==
  answer' = [answer EXCEPT ![c] = IF conn[c] = "open" THEN <<@[1], part>> ELSE @]

\* The head of the answer is sent, and the rest 18 seconds later or when the
\* context of the connection is done.
AnswerHead(c) ==
  /\ request[c] = "held"
  /\ Write(c, "head")
  /\ request' = [request EXCEPT ![c] = "answer"]
  /\ UNCHANGED <<conn, sent, stream, handler, capDone, late, ctrlvars, reqSent, reqFile>>

Answer(c) ==
  /\ request[c] = "answer"
  /\ Write(c, "whole")
  /\ request' = [request EXCEPT ![c] = "done"]
  /\ UNCHANGED <<conn, sent, stream, handler, capDone, late, ctrlvars, reqSent, reqFile>>

-----------------------------------------------------------------------------

ReaderStep(c) == LoopHead(c) \/ Read(c) \/ Parse(c) \/ CreateFile(c) \/ FillFile(c)

RequestStep(c) == ReadRequest(c) \/ AnswerHead(c) \/ Answer(c)

Next ==
  \E c \in Conns :
    \/ AcceptConn(c) \/ ClientSends(c) \/ ClientEndsStream(c) \/ ClientLeaves(c)
    \/ CaptureTimeout(c) \/ HandlerEnds(c) \/ AcceptControl(c) \/ Deadline(c)
    \/ ReaderStep(c) \/ WriteFails(c)
    \/ ClientRequests(c) \/ AcceptRequest(c) \/ RequestStep(c)

Spec == Init /\ [][Next]_h3vars

\* Goroutines run: the accept loops return what has come, reads return at the
\* latest by their deadline, and writes end.
FairSpec ==
  Spec /\ \A c \in Conns : WF_h3vars(ReaderStep(c)) /\ WF_h3vars(RequestStep(c))
                         /\ WF_h3vars(AcceptRequest(c))

-----------------------------------------------------------------------------

\* When the reader is done, whichever clock, error or close ended it, its newest
\* file, which LoadCaptureDir takes, holds all it has read, unless the very last
\* write failed: that leaves the file before, or an empty or a partial one.  A
\* single failure, wherever it is, still leaves all in some file, since every
\* write repeats the whole and there is one more at the end; but not after a
\* PRIORITY_UPDATE.
ControlFileIsWhole ==
  \A c \in Conns : reader[c] = "done" =>
    /\ newest[c] = body[c] \/ failed[c]
    /\ failures[c] <= 1 /\ ~SeesPriorityUpdate(c) => written[c] = body[c]

\* What makes it inductive: between two writes the newest file is as whole as
\* the last write left it, and while none has failed only a reader about to
\* write has more than the files; it will read and write again after that.
FileInv ==
  /\ \A c \in Conns :
       /\ reader[c] \in {"none", "loop", "read", "parse"} => ~final[c]
       /\ reader[c] \notin {"create", "fill"} => newest[c] = body[c] \/ failed[c]
       /\ reader[c] # "done" /\ failures[c] = 0 /\ written[c] # body[c] =>
            reader[c] \in {"create", "fill"} /\ ~final[c]
  /\ ControlFileIsWhole

\* Firefox sends its PRIORITY_UPDATE only after a later change of tabs: once
\* the control stream is accepted, all that the client sends on it gets into
\* the newest file, unless a clock runs out, the client leaves or resets the
\* stream, or a write fails.
LateUpdateIsKept ==
  \A c \in Conns :
    LET all == 2 * Len(ControlFrames[c]) IN
    (reader[c] # "none" /\ sent[c] = all)
      ~> \/ newest[c] = all
         \/ late[c] \/ capDone[c] \/ conn[c] # "open" \/ stream[c] = "reset"
         \/ failures[c] > 0

\* A request is answered in full while the connection is open, whether or not
\* the client ever ends its stream and whether or not the answer is held back.
RequestIsAnswered ==
  \A c \in Conns :
    (request[c] = "read") ~> (answer[c][2] = "whole" \/ conn[c] # "open")
=============================================================================
