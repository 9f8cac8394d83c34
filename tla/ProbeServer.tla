---------------------------- MODULE ProbeServer ----------------------------
(***************************************************************************)
(* The TCP side of internal/probe: the accept loop, the goroutine that     *)
(* serves each connection, and the HTTP handlers, all sharing one          *)
(* probe.Server.  Every step below is what one goroutine does between two  *)
(* points where another can run: a lock released, a blocking read, a file  *)
(* written, a sleep.                                                       *)
(*                                                                         *)
(* Payloads are identified by where they came from: a ClientHello and a    *)
(* SETTINGS observation by the connection they were read on, a client      *)
(* flight by its connection and length, a log entry by its request.        *)
(***************************************************************************)
EXTENDS Integers, Sequences

CONSTANTS
  Conns,            \* TCP connections, each accepted at most once
  Reqs,             \* HTTP requests, each served at most once
  Addrs,            \* remote "ip:port" strings
  AddrOf,           \* the remote address of a connection (ports are reused)
  Kinds,            \* the handlers requested: a subset of RequestKinds
  EnableH2,         \* Server.EnableH2
  HasCaptureDir,    \* Server.CaptureDir # ""
  DiskMayFail,      \* os.WriteFile may return an error
  maxLogs,          \* Server.maxLogs
  MaxFlight,        \* bound: lengths of a client flight told apart
  None

RequestKinds == {"probe", "capture", "clienthello"}

ASSUME ConnsReqsDisjoint == Conns \cap Reqs = {} /\ None \notin Conns \cup Reqs
ASSUME AddrOfType == AddrOf \in [Conns -> Addrs]
ASSUME KindsType == Kinds \subseteq RequestKinds
ASSUME FlagsType == {EnableH2, HasCaptureDir, DiskMayFail} \subseteq BOOLEAN
ASSUME BoundsType == maxLogs \in Nat \ {0} /\ MaxFlight \in Nat

VARIABLES
  \* Server fields
  helloByAddr,      \* hellos stored and not yet taken, by remote address
  lastHello,        \* the most recently stored hello
  h2ByAddr,         \* observations of closed h2 connections, by address
  lastH2Raw,        \* the client flight kept: its connection and length
  logs,             \* the last maxLogs observations
  lastCapture,      \* the last capture recorded
  \* goroutines and connections
  pc,               \* where each connection goroutine and handler stands
  up,               \* connections whose remote address is still in use
  proto,            \* the ALPN protocol of a connection
  flight,           \* CaptureConn.raw: bytes of client flight seen so far
  raw,              \* the flight length a goroutine read for persistH2Raw
  req,              \* each request's connection, handler and what it got
  late,             \* requests whose body took longer than http.Server.ReadTimeout
  \* CaptureDir
  helloFiles,       \* connections whose hello is on disk
  h2Files,          \* the flights on disk, in the order the writes finished
  wrote,            \* files each /api/capture request wrote
  \* history
  helloSeq,         \* when each connection's hello was stored (0: it was not)
  helloCount,       \* how many hellos were stored
  logged            \* every request ever logged, in order

serverVars == <<helloByAddr, lastHello, h2ByAddr, lastH2Raw, logs, lastCapture>>
connVars   == <<up, proto, flight>>
diskVars   == <<helloFiles, h2Files, wrote>>
history    == <<helloSeq, helloCount, logged>>
vars == <<serverVars, connVars, pc, raw, req, late, diskVars, history>>

ConnPCs == {"new", "hello", "writeHello", "tls", "serving", "storeH2",
            "snap", "lock", "writeFlight", "closed"}
ReqPCs == {"idle", "body", "takeHello", "lastHello", "takeH2", "liveH2",
           "snap", "lock", "writeFlight", "log",
           "files", "record", "done"}
Files == {"json", "yaml", "hello"}

Request == [conn : Conns \cup {None}, kind : RequestKinds \cup {None},
            hello : Conns \cup {None}, src : {"none", "own", "last"},
            h2 : Conns \cup {None}, h2src : {"none", "taken", "live"}]
Flight == [conn : Conns \cup {None}, len : 0..MaxFlight]

ServerOK ==
  /\ helloByAddr \in [Addrs -> Conns \cup {None}]
  /\ lastHello \in Conns \cup {None}
  /\ h2ByAddr \in [Addrs -> Conns \cup {None}]
  /\ lastH2Raw \in Flight
  /\ logs \in Seq(Reqs) /\ Len(logs) <= maxLogs
  /\ lastCapture \in Reqs \cup {None}

PcOK ==
  /\ pc \in [Conns \cup Reqs -> ConnPCs \cup ReqPCs]
  /\ \A c \in Conns : pc[c] \in ConnPCs
  /\ \A r \in Reqs : pc[r] \in ReqPCs

ConnOK ==
  /\ up \subseteq Conns
  /\ proto \in [Conns -> {"none", "h1", "h2"}]
  /\ flight \in [Conns -> 0..MaxFlight]
  /\ raw \in [Conns \cup Reqs -> 0..MaxFlight]

ReqOK ==
  /\ req \in [Reqs -> Request]
  /\ \A r \in Reqs : pc[r] # "idle" => req[r].conn \in Conns

LateOK == late \subseteq Reqs

DiskOK ==
  /\ helloFiles \subseteq Conns
  /\ h2Files \in Seq(Flight)
  /\ wrote \in [Reqs -> SUBSET Files]

HistoryOK ==
  /\ helloSeq \in [Conns -> Nat]
  /\ helloCount \in Nat
  /\ logged \in Seq(Reqs)

TypeOK == ServerOK /\ PcOK /\ ConnOK /\ ReqOK /\ LateOK /\ DiskOK /\ HistoryOK

Init ==
  /\ helloByAddr = [a \in Addrs |-> None]
  /\ lastHello = None
  /\ h2ByAddr = [a \in Addrs |-> None]
  /\ lastH2Raw = [conn |-> None, len |-> 0]
  /\ logs = <<>>
  /\ lastCapture = None
  /\ pc = [g \in Conns \cup Reqs |-> IF g \in Conns THEN "new" ELSE "idle"]
  /\ up = {}
  /\ proto = [c \in Conns |-> "none"]
  /\ flight = [c \in Conns |-> 0]
  /\ raw = [g \in Conns \cup Reqs |-> 0]
  /\ req = [r \in Reqs |-> [conn |-> None, kind |-> None, hello |-> None,
                            src |-> "none", h2 |-> None, h2src |-> "none"]]
  /\ late = {}
  /\ helloFiles = {}
  /\ h2Files = <<>>
  /\ wrote = [r \in Reqs |-> {}]
  /\ helloSeq = [c \in Conns |-> 0]
  /\ helloCount = 0
  /\ logged = <<>>

Goto(g, label) == pc' = [pc EXCEPT ![g] = label]

-----------------------------------------------------------------------------
(* The connection goroutine, up to the request loop.                       *)

\* helloCaptureListener.Accept.  The kernel hands over a connection whose
\* remote address no connection still in use has; the goroutine of an
\* earlier connection from that address may not have finished.
Accept(c) ==
  /\ pc[c] = "new"
  /\ \A d \in up : AddrOf[d] # AddrOf[c]
  /\ Goto(c, "hello")
  /\ up' = up \cup {c}
  /\ UNCHANGED <<serverVars, proto, flight, raw, req, late, diskVars, history>>

\* The client goes away (FIN or RST): its port is free for another connection.
ClientLeaves(c) ==
  /\ c \in up
  /\ up' = up \ {c}
  /\ UNCHANGED <<serverVars, proto, flight, pc, raw, req, late, diskVars, history>>

\* The first record never completes, or is no handshake record.
HelloFails(c) ==
  /\ pc[c] = "hello"
  /\ Goto(c, "closed")
  /\ up' = up \ {c}
  /\ UNCHANGED <<serverVars, proto, flight, raw, req, late, diskVars, history>>

\* mutant: a hello still waiting for its address is kept
storeHelloKeepsWaiting(c) ==
  /\ helloByAddr' = [helloByAddr EXCEPT ![AddrOf[c]] = IF @ = None THEN c ELSE @]
  /\ lastHello' = c

\* storeHello's critical section, run by the first Read that has the record.
storeHello(c) ==
  /\ helloByAddr' = [helloByAddr EXCEPT ![AddrOf[c]] = c]
  /\ lastHello' = c

StoreHello(c) ==
  /\ pc[c] = "hello"
  /\ storeHello(c)
  /\ helloSeq' = [helloSeq EXCEPT ![c] = helloCount + 1]
  /\ helloCount' = helloCount + 1
  /\ Goto(c, IF HasCaptureDir THEN "writeHello" ELSE "tls")
  /\ UNCHANGED <<h2ByAddr, lastH2Raw, logs, lastCapture, connVars, raw, req, late,
                 diskVars, logged>>

\* mutant: the hello of a client that is gone is not written
WriteHelloIfConnected(c) ==
  /\ pc[c] = "writeHello"
  /\ helloFiles' = IF c \in up THEN helloFiles \cup {c} ELSE helloFiles
  /\ Goto(c, "tls")
  /\ UNCHANGED <<serverVars, connVars, raw, req, late, h2Files, wrote, history>>

\* storeHello after its unlock: the file, written whatever became of the client.
WriteHello(c) ==
  /\ pc[c] = "writeHello"
  /\ \/ helloFiles' = helloFiles \cup {c}
     \/ DiskMayFail /\ UNCHANGED helloFiles
  /\ Goto(c, "tls")
  /\ UNCHANGED <<serverVars, connVars, raw, req, late, h2Files, wrote, history>>

Handshake(c) ==
  /\ pc[c] = "tls"
  /\ c \in up
  /\ \E p \in IF EnableH2 THEN {"h1", "h2"} ELSE {"h1"} :
        proto' = [proto EXCEPT ![c] = p]
  /\ Goto(c, "serving")
  /\ UNCHANGED <<serverVars, up, flight, raw, req, late, diskVars, history>>

HandshakeFails(c) ==
  /\ pc[c] = "tls"
  /\ Goto(c, "closed")
  /\ up' = up \ {c}
  /\ UNCHANGED <<serverVars, proto, flight, raw, req, late, diskVars, history>>

\* CaptureConn.Read under http2's frame reader, a goroutine of its own that
\* may still hold the bytes of its last read when the serve loop has returned.
ReadFrames(c) ==
  /\ proto[c] = "h2"
  /\ flight[c] < MaxFlight
  /\ flight' = [flight EXCEPT ![c] = @ + 1]
  /\ UNCHANGED <<serverVars, up, proto, pc, raw, req, late, diskVars, history>>

-----------------------------------------------------------------------------
(* Request handlers.  HTTP/1.1 serves one request of a connection at a     *)
(* time; HTTP/2 starts a goroutine for each.                               *)

Serving(c) == {r \in Reqs : req[r].conn = c /\ pc[r] # "done"}

Started(q, c, k) == [q EXCEPT !.conn = c, !.kind = k]

\* Where a handler starts: two of them refuse other methods, and one reads the
\* body of the request.
FirstStep(k) ==
  CASE k = "probe"       -> {"takeHello"}
    [] k = "clienthello" -> {"takeHello", "done"}
    [] k = "capture"     -> {"body", "done"}

StartRequest(c, r, k) ==
  /\ pc[c] = "serving"
  /\ pc[r] = "idle"
  /\ IF proto[c] = "h1" THEN Serving(c) = {} ELSE flight[c] > 0
  /\ req' = [req EXCEPT ![r] = Started(req[r], c, k)]
  /\ \E next \in FirstStep(k) : Goto(r, next)
  /\ UNCHANGED <<serverVars, connVars, raw, late, diskVars, history>>

\* io.ReadAll has the whole body; it may be no JSON.
BodyArrives(r) ==
  /\ pc[r] = "body"
  /\ \E next \in {"takeH2", "done"} : Goto(r, next)
  /\ UNCHANGED <<serverVars, connVars, raw, req, late, diskVars, history>>

\* The clock of http.Server.ReadTimeout, for the body of one request.
ReadTimeout(r) ==
  /\ pc[r] = "body" /\ r \notin late
  /\ late' = late \cup {r}
  /\ UNCHANGED <<serverVars, connVars, pc, raw, req, diskVars, history>>

\* mutant: without a ReadTimeout only the client ends the read
BodyReadEndsWithClient(r) == req[r].conn \notin up

\* What makes a read of the body fail: the connection is gone, or it is late.
BodyReadEnds(r) == req[r].conn \notin up \/ r \in late

\* io.ReadAll returns an error: no observation and no hello is taken.
BodyReadFails(r) ==
  /\ pc[r] = "body" /\ BodyReadEnds(r)
  /\ Goto(r, "done")
  /\ UNCHANGED <<serverVars, connVars, raw, req, late, diskVars, history>>

\* What handleProbe, handleCaptureAPI and handleClientHello do next.
AfterHello(r) ==
  CASE req[r].kind = "probe" -> "takeH2"
    [] req[r].kind = "capture" -> IF HasCaptureDir THEN "files" ELSE "record"
    [] OTHER -> "done"

\* capture.ToProfile may reject the input, before any hello is taken.
AfterH2(r) ==
  IF req[r].kind = "capture" THEN {"takeHello", "done"}
  ELSE IF proto[req[r].conn] = "h2" THEN {"snap"} ELSE {"log"}

\* mutant: the entry stays
DeleteNothing(table, a) == table

\* delete(table, addr) after the lookup
Delete(table, a) == [table EXCEPT ![a] = None]

Take(table, a) == Delete(table, a)

GotHello(q, hello, src) == [q EXCEPT !.hello = hello, !.src = src]
GotH2(q, h2, src)       == [q EXCEPT !.h2 = h2, !.h2src = src]

\* takeHello: look up and delete under the lock.
TakeHello(r) ==
  LET a == AddrOf[req[r].conn] IN
  /\ pc[r] = "takeHello"
  /\ helloByAddr' = Take(helloByAddr, a)
  /\ IF helloByAddr[a] = None
     THEN Goto(r, "lastHello") /\ UNCHANGED req
     ELSE /\ Goto(r, AfterHello(r))
          /\ req' = [req EXCEPT ![r] = GotHello(req[r], helloByAddr[a], "own")]
  /\ UNCHANGED <<lastHello, h2ByAddr, lastH2Raw, logs, lastCapture, connVars, raw, late,
                 diskVars, history>>

\* helloFromRequest's fallback, and handleClientHello's repeat of it.
LastClientHello(r) ==
  /\ pc[r] = "lastHello"
  /\ req' = [req EXCEPT ![r] = GotHello(req[r], lastHello, "last")]
  /\ Goto(r, AfterHello(r))
  /\ UNCHANGED <<serverVars, connVars, raw, late, diskVars, history>>

\* h2FromRequest, first half: takeH2 by remote address.
TakeH2(r) ==
  LET a == AddrOf[req[r].conn] IN
  /\ pc[r] = "takeH2"
  /\ h2ByAddr' = Take(h2ByAddr, a)
  /\ IF h2ByAddr[a] = None
     THEN Goto(r, "liveH2") /\ UNCHANGED req
     ELSE /\ \E next \in AfterH2(r) : Goto(r, next)
          /\ req' = [req EXCEPT ![r] = GotH2(req[r], h2ByAddr[a], "taken")]
  /\ UNCHANGED <<helloByAddr, lastHello, lastH2Raw, logs, lastCapture, connVars, raw, late,
                 diskVars, history>>

\* h2FromRequest, second half: the connection's own CaptureConn, if it has one.
LiveH2(r) ==
  LET c == req[r].conn IN
  /\ pc[r] = "liveH2"
  /\ req' = [req EXCEPT ![r] = GotH2(req[r], IF flight[c] > 0 THEN c ELSE None, "live")]
  /\ \E next \in AfterH2(r) : Goto(r, next)
  /\ UNCHANGED <<serverVars, connVars, raw, late, diskVars, history>>

-----------------------------------------------------------------------------
(* RawClientFlight and persistH2Raw, run by handleProbe after its sleep    *)
(* and by h2TrackedConn.Close.                                             *)

ConnOf(g) == IF g \in Conns THEN g ELSE req[g].conn

AfterPersist(g) == IF g \in Conns THEN "closed" ELSE "log"

RawClientFlight(g) ==
  /\ pc[g] = "snap"
  /\ raw' = [raw EXCEPT ![g] = flight[ConnOf(g)]]
  /\ Goto(g, IF flight[ConnOf(g)] > 0 THEN "lock" ELSE AfterPersist(g))
  /\ UNCHANGED <<serverVars, connVars, req, late, diskVars, history>>

\* mutant: any new flight replaces the kept one
PreferLatest(new, kept) == TRUE

PreferLongest(new, kept) == new >= kept

\* persistH2Raw's critical section.
KeepFlight(g) ==
  /\ pc[g] = "lock"
  /\ IF PreferLongest(raw[g], lastH2Raw.len)
     THEN /\ lastH2Raw' = [conn |-> ConnOf(g), len |-> raw[g]]
          /\ Goto(g, IF HasCaptureDir THEN "writeFlight" ELSE AfterPersist(g))
     ELSE /\ Goto(g, AfterPersist(g))
          /\ UNCHANGED lastH2Raw
  /\ UNCHANGED <<helloByAddr, lastHello, h2ByAddr, logs, lastCapture, connVars, raw,
                 req, late, diskVars, history>>

\* persistH2Raw after its unlock: probe-<nanoseconds>.h2.bin.
WriteFlight(g) ==
  /\ pc[g] = "writeFlight"
  /\ \/ h2Files' = Append(h2Files, [conn |-> ConnOf(g), len |-> raw[g]])
     \/ DiskMayFail /\ UNCHANGED h2Files
  /\ Goto(g, AfterPersist(g))
  /\ UNCHANGED <<serverVars, connVars, raw, req, late, helloFiles, wrote, history>>

-----------------------------------------------------------------------------
(* The end of handleProbe and of handleCaptureAPI.                         *)

Newest(s, n) == SubSeq(s, Len(s) - n + 1, Len(s))

\* mutants: nothing is trimmed; the oldest entries are kept
TrimNever(s) == s
TrimKeepsOldest(s) == IF Len(s) > maxLogs THEN SubSeq(s, 1, maxLogs) ELSE s

Trim(s) == IF Len(s) > maxLogs THEN Newest(s, maxLogs) ELSE s

AppendLog(r) ==
  /\ pc[r] = "log"
  /\ logs' = Trim(Append(logs, r))
  /\ logged' = Append(logged, r)
  /\ Goto(r, "done")
  /\ UNCHANGED <<helloByAddr, lastHello, h2ByAddr, lastH2Raw, lastCapture, connVars,
                 raw, req, late, diskVars, helloSeq, helloCount>>

\* mutant: a failed write is logged and the handler goes on
AfterFailedWriteGoesOn(r) == "record"

\* writeJSONError and return
AfterFailedWrite(r) == "done"

\* The files of a capture, in the order they are written.
CaptureFiles(r) ==
  IF req[r].hello = None THEN <<"json", "yaml">> ELSE <<"json", "yaml", "hello">>

\* The first n writes succeed and the next one fails, or all succeed.
WriteCapture(r) ==
  LET files == CaptureFiles(r) IN
  /\ pc[r] = "files"
  /\ \E n \in IF DiskMayFail THEN 0..Len(files) ELSE {Len(files)} :
       /\ wrote' = [wrote EXCEPT ![r] = {files[i] : i \in 1..n}]
       /\ Goto(r, IF n = Len(files) THEN "record" ELSE AfterFailedWrite(r))
  /\ UNCHANGED <<serverVars, connVars, raw, req, late, helloFiles, h2Files, history>>

RecordCapture(r) ==
  /\ pc[r] = "record"
  /\ lastCapture' = r
  /\ Goto(r, "done")
  /\ UNCHANGED <<helloByAddr, lastHello, h2ByAddr, lastH2Raw, logs, connVars, raw, req, late,
                 diskVars, history>>

-----------------------------------------------------------------------------
(* The end of a connection.  An HTTP/1.1 goroutine ends between requests;  *)
(* ServeConn returns at any time and leaves its handlers running, having   *)
(* closed the socket before h2TrackedConn.Close runs.                      *)

\* mutant: no deferred Close
AfterServingNoClose(c) == "closed"

\* The deferred h2TrackedConn.Close of an h2 connection is still to run.
AfterServing(c) == IF proto[c] = "h1" THEN "closed" ELSE "storeH2"

EndServing(c) ==
  /\ pc[c] = "serving"
  /\ proto[c] = "h1" => Serving(c) = {}
  /\ Goto(c, AfterServing(c))
  /\ up' = up \ {c}
  /\ UNCHANGED <<serverVars, proto, flight, raw, req, late, diskVars, history>>

StoreH2(c) ==
  /\ pc[c] = "storeH2"
  /\ IF flight[c] > 0
     THEN h2ByAddr' = [h2ByAddr EXCEPT ![AddrOf[c]] = c]
     ELSE UNCHANGED h2ByAddr
  /\ Goto(c, "snap")
  /\ UNCHANGED <<helloByAddr, lastHello, lastH2Raw, logs, lastCapture, connVars, raw,
                 req, late, diskVars, history>>

-----------------------------------------------------------------------------

Persist(g) == RawClientFlight(g) \/ KeepFlight(g) \/ WriteFlight(g)

ConnStep(c) ==
  \/ HelloFails(c) \/ StoreHello(c) \/ WriteHello(c)
  \/ Handshake(c) \/ HandshakeFails(c)
  \/ StoreH2(c) \/ Persist(c)

ReqStep(r) ==
  \/ BodyReadFails(r) \/ TakeHello(r) \/ LastClientHello(r) \/ TakeH2(r) \/ LiveH2(r)
  \/ Persist(r) \/ AppendLog(r)
  \/ WriteCapture(r) \/ RecordCapture(r)

\* What clients and the operator do.
Environment ==
  \/ \E c \in Conns : Accept(c) \/ ClientLeaves(c) \/ ReadFrames(c)
  \/ \E c \in Conns, r \in Reqs, k \in Kinds : StartRequest(c, r, k)
  \/ \E r \in Reqs : BodyArrives(r)

\* Nothing is left to do; anything else that cannot move is a deadlock.
Quiescent ==
  /\ \A c \in Conns : pc[c] = "closed"
  /\ \A r \in Reqs : pc[r] \in {"idle", "done"}
  /\ UNCHANGED vars

Next ==
  \/ Environment
  \/ \E c \in Conns : ConnStep(c) \/ EndServing(c)
  \/ \E r \in Reqs : ReqStep(r) \/ ReadTimeout(r)
  \/ Quiescent

Spec == Init /\ [][Next]_vars

\* A goroutine that can run does run, and a clock that runs does run out; a
\* read of a connection the client has left returns.  Nothing makes a client
\* connect, send (a body neither) or leave.
Fairness ==
  /\ \A c \in Conns : WF_vars(ConnStep(c)) /\ WF_vars(c \notin up /\ EndServing(c))
  /\ \A r \in Reqs : WF_vars(ReqStep(r)) /\ WF_vars(ReadTimeout(r))

FairSpec == Spec /\ Fairness

-----------------------------------------------------------------------------
(* Safety.                                                                 *)

\* A request that asks for a ClientHello gets one, and never one stored before
\* its own connection's: the table's entry for its address and the fallback
\* are both at least as recent (helloFromRequest).  The 404 of
\* handleClientHello is out of reach of a served request.
NoOlderHello ==
  \A r \in Reqs : req[r].src # "none" =>
    /\ req[r].hello \in Conns
    /\ helloSeq[req[r].hello] >= helloSeq[req[r].conn]

\* The connection goroutine is past storeH2.
Ended(c) == pc[c] \in {"snap", "lock", "writeFlight", "closed"}

\* takeHello and takeH2 hand an entry to one request only, however the
\* handlers of one address interleave.
TakenOnce ==
  \A r, s \in Reqs : r # s =>
    /\ req[r].src = "own" /\ req[s].src = "own" => req[r].hello # req[s].hello
    /\ req[r].h2src = "taken" /\ req[s].h2src = "taken" => req[r].h2 # req[s].h2

\* Once a goroutine is through persistH2Raw, the flight kept is at least as
\* long as the one it brought, whoever else persisted meanwhile.
FlightKept ==
  \A g \in Conns \cup Reqs :
    pc[g] \in {"writeFlight", "log", "done", "closed"} => raw[g] <= lastH2Raw.len

\* The kept flight is in a file of CaptureDir or about to be, and no file
\* holds a longer one.
KeptFlightOnDisk ==
  HasCaptureDir =>
    /\ \A i \in DOMAIN h2Files : h2Files[i].len <= lastH2Raw.len
    /\ lastH2Raw.len > 0 /\ ~DiskMayFail =>
         \/ \E i \in DOMAIN h2Files : h2Files[i] = lastH2Raw
         \/ \E g \in Conns \cup Reqs :
               pc[g] = "writeFlight" /\ lastH2Raw = [conn |-> ConnOf(g), len |-> raw[g]]

\* The observations kept are the newest of all those ever made, in order.
LogsAreNewest ==
  logs = IF Len(logged) > maxLogs THEN Newest(logged, maxLogs) ELSE logged

\* LastCapture is a capture whose files are all on disk, although any of the
\* three writes may fail.
CaptureComplete ==
  lastCapture # None /\ HasCaptureDir =>
    /\ {"json", "yaml"} \subseteq wrote[lastCapture]
    /\ req[lastCapture].hello # None => "hello" \in wrote[lastCapture]

-----------------------------------------------------------------------------
(* What makes these invariants inductive; ProbeServerProofs uses it.       *)

\* The order in which hellos were stored, and what the table and the fallback
\* hold of it.
HelloInv ==
  /\ \A c \in Conns : helloSeq[c] <= helloCount
  /\ helloCount > 0 => lastHello \in Conns
  /\ lastHello \in Conns => helloSeq[lastHello] = helloCount
  /\ \A a \in Addrs : helloByAddr[a] \in Conns =>
       /\ AddrOf[helloByAddr[a]] = a
       /\ helloSeq[helloByAddr[a]] > 0
       /\ \A c \in Conns : AddrOf[c] = a => helloSeq[c] <= helloSeq[helloByAddr[a]]
  /\ \A c \in Conns : pc[c] \in {"new", "hello"} => helloSeq[c] = 0
  /\ \A c \in Conns : pc[c] \in {"tls", "writeHello", "serving"} => helloSeq[c] > 0
  /\ \A r \in Reqs : pc[r] # "idle" => helloSeq[req[r].conn] > 0
  /\ \A r \in Reqs : pc[r] = "idle" => req[r].src = "none" /\ req[r].h2src = "none"

\* Nothing taken is in its table any more, or can be stored again.
TakenInv ==
  /\ \A r \in Reqs : req[r].src = "own" =>
       /\ req[r].hello \in Conns
       /\ helloSeq[req[r].hello] > 0
       /\ \A a \in Addrs : helloByAddr[a] # req[r].hello
  /\ \A a \in Addrs : h2ByAddr[a] \in Conns =>
       AddrOf[h2ByAddr[a]] = a /\ Ended(h2ByAddr[a])
  /\ \A r \in Reqs : req[r].h2src = "taken" =>
       /\ req[r].h2 \in Conns
       /\ Ended(req[r].h2)
       /\ \A a \in Addrs : h2ByAddr[a] # req[r].h2

\* The files of a capture are on disk when it comes to be recorded, and a
\* request that is done writes no more.
CaptureInv ==
  /\ lastCapture # None => pc[lastCapture] = "done"
  /\ \A r \in Reqs : HasCaptureDir /\ (pc[r] = "record" \/ r = lastCapture) =>
       /\ {"json", "yaml"} \subseteq wrote[r]
       /\ req[r].hello # None => "hello" \in wrote[r]

\* Only a goroutine about to offer its flight may hold a longer one.
FlightInv ==
  \A g \in Conns \cup Reqs : pc[g] # "lock" => raw[g] <= lastH2Raw.len

-----------------------------------------------------------------------------
(* Liveness, under FairSpec.                                               *)

\* A hello reaches CaptureDir even if the client aborts the handshake
\* (the comment in storeHello on Firefox).
HelloReachesDisk ==
  \A c \in Conns : helloSeq[c] > 0 ~> c \in helloFiles

\* Every request ends, whatever becomes of its connection, and even if its
\* client stays and never sends the rest of the body it announced: no handler
\* waits for a client without a clock (handleCaptureAPI, Server.Start).
RequestsFinish == \A r \in Reqs : pc[r] # "idle" ~> pc[r] = "done"

\* What was read of an h2 client's flight before it left is kept, or something
\* longer is, even if it made no request to /probe.
FlightOutlivesClient ==
  \A c \in Conns, n \in 1..MaxFlight :
    (flight[c] = n /\ c \notin up /\ ~Ended(c)) ~> lastH2Raw.len >= n

-----------------------------------------------------------------------------
(* What a comment in the code says and the code does not do.               *)

\* persistH2Raw: "Prefer the longest client flight".  The file written last,
\* which LoadCaptureDir picks, is the longest.
NewestFlightIsLongest ==
  \A i \in DOMAIN h2Files : h2Files[i].len <= h2Files[Len(h2Files)].len
=============================================================================
