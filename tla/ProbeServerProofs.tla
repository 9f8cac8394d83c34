------------------------- MODULE ProbeServerProofs -------------------------
(***************************************************************************)
(* Proofs about ProbeServer for every set of connections, requests and     *)
(* addresses, every assignment of addresses to connections, every flight   *)
(* bound and every maxLogs.                                                *)
(***************************************************************************)
EXTENDS ProbeServer, SequenceTheorems, TLAPS

\* All but the clocks of the bodies; what they change is only when a read of
\* a body may fail.
butLate == <<serverVars, connVars, pc, raw, req, diskVars, history>>

\* Case split on a step: Next is a disjunction of these actions.
LEMMA StepCases ==
  ASSUME [Next]_vars
  PROVE \/ UNCHANGED butLate /\ (LateOK => LateOK')
        \/ \E c \in Conns : \/ Accept(c) \/ ClientLeaves(c) \/ ReadFrames(c)
                            \/ HelloFails(c) \/ StoreHello(c) \/ WriteHello(c)
                            \/ Handshake(c) \/ HandshakeFails(c)
                            \/ EndServing(c) \/ StoreH2(c)
        \/ \E c \in Conns, r \in Reqs, k \in Kinds : StartRequest(c, r, k)
        \/ \E r \in Reqs : \/ BodyArrives(r) \/ BodyReadFails(r)
                           \/ TakeHello(r) \/ LastClientHello(r) \/ TakeH2(r)
                           \/ LiveH2(r) \/ AppendLog(r) \/ WriteCapture(r)
                           \/ RecordCapture(r)
        \/ \E g \in Conns \cup Reqs : RawClientFlight(g) \/ KeepFlight(g) \/ WriteFlight(g)
BY DEF Next, Environment, ConnStep, ReqStep, Persist, Quiescent, ReadTimeout, LateOK, vars, butLate

\* The trimmed log is a log of at most maxLogs entries.
LEMMA TrimType ==
  ASSUME NEW s \in Seq(Reqs)
  PROVE Trim(s) \in Seq(Reqs) /\ Len(Trim(s)) <= maxLogs
<1> USE BoundsType
<1>1. CASE Len(s) > maxLogs
  <2>1. /\ Len(s) - maxLogs + 1 \in Nat
        /\ Len(s) - maxLogs + 1 >= 1
        /\ Len(s) \in Nat
    BY <1>1
  <2>2. \A i \in (Len(s) - maxLogs + 1)..Len(s) : s[i] \in Reqs
    BY <2>1
  <2>3. /\ SubSeq(s, Len(s) - maxLogs + 1, Len(s)) \in Seq(Reqs)
        /\ Len(SubSeq(s, Len(s) - maxLogs + 1, Len(s))) = maxLogs
    BY <2>1, <2>2
  <2>4. QED
    BY <1>1, <2>3 DEF Trim, Newest
<1>2. CASE ~(Len(s) > maxLogs)
  BY <1>2 DEF Trim
<1>3. QED
  BY <1>1, <1>2

-----------------------------------------------------------------------------
(* Program counters.                                                       *)

\* A connection goroutine moving to another label disturbs no other.
LEMMA ConnGoto ==
  ASSUME PcOK, NEW c \in Conns, NEW l \in ConnPCs, Goto(c, l)
  PROVE /\ PcOK'
        /\ pc'[c] = l
        /\ \A g \in Conns \cup Reqs : g # c => pc'[g] = pc[g]
        /\ \A r \in Reqs : pc'[r] = pc[r]
BY ConnsReqsDisjoint DEF PcOK, Goto

\* A handler moving to another label disturbs no other goroutine either.
LEMMA ReqGoto ==
  ASSUME PcOK, NEW r \in Reqs, NEW l \in ReqPCs, Goto(r, l)
  PROVE /\ PcOK'
        /\ pc'[r] = l
        /\ \A g \in Conns \cup Reqs : g # r => pc'[g] = pc[g]
        /\ \A c \in Conns : pc'[c] = pc[c]
BY ConnsReqsDisjoint DEF PcOK, Goto

\* Where a handler goes after the hello and after the h2 observation.
LEMMA AfterTypes ==
  ASSUME NEW r \in Reqs
  PROVE /\ AfterHello(r) \in {"takeH2", "files", "record", "done"}
        /\ AfterH2(r) \subseteq {"takeHello", "done", "snap", "log"}
BY DEF AfterHello, AfterH2

\* Where each action leaves the program counters.
LEMMA ConnMoves ==
  ASSUME PcOK, NEW c \in Conns,
         \/ Accept(c) \/ ClientLeaves(c) \/ ReadFrames(c)
         \/ HelloFails(c) \/ StoreHello(c) \/ WriteHello(c)
         \/ Handshake(c) \/ HandshakeFails(c)
         \/ EndServing(c) \/ StoreH2(c)
  PROVE /\ PcOK'
        /\ \A g \in Conns \cup Reqs : g # c => pc'[g] = pc[g]
        /\ \A r \in Reqs : pc'[r] = pc[r]
<1>1. CASE ClientLeaves(c) \/ ReadFrames(c)
  BY <1>1, ConnsReqsDisjoint DEF ClientLeaves, ReadFrames, PcOK
<1>2. CASE ~(ClientLeaves(c) \/ ReadFrames(c))
  <2>1. PICK l \in ConnPCs : Goto(c, l)
    BY <1>2 DEF Accept, HelloFails, StoreHello, WriteHello, Handshake, HandshakeFails,
                EndServing, AfterServing, StoreH2, ConnPCs
  <2>2. QED
    BY <2>1, ConnGoto
<1>3. QED
  BY <1>1, <1>2

\* The same of a handler's own steps.
LEMMA ReqMoves ==
  ASSUME PcOK, NEW r \in Reqs,
         \/ BodyArrives(r) \/ BodyReadFails(r)
         \/ TakeHello(r) \/ LastClientHello(r) \/ TakeH2(r) \/ LiveH2(r)
         \/ AppendLog(r) \/ WriteCapture(r) \/ RecordCapture(r)
  PROVE /\ PcOK'
        /\ pc[r] # "idle" /\ pc'[r] # "idle"
        /\ \A g \in Conns \cup Reqs : g # r => pc'[g] = pc[g]
        /\ \A c \in Conns : pc'[c] = pc[c]
<1>1. PICK l \in ReqPCs : Goto(r, l) /\ l # "idle"
  BY AfterTypes
     DEF BodyArrives, BodyReadFails,
         TakeHello, LastClientHello, TakeH2, LiveH2, AppendLog, WriteCapture,
         RecordCapture, AfterFailedWrite, ReqPCs
<1>2. pc[r] # "idle"
  BY DEF BodyArrives, BodyReadFails,
         TakeHello, LastClientHello, TakeH2, LiveH2, AppendLog, WriteCapture, RecordCapture
<1>3. QED
  BY <1>1, <1>2, ReqGoto

-----------------------------------------------------------------------------
(* Type correctness, one lemma per kind of step.                           *)

\* The steps of a connection goroutine preserve the types.
LEMMA ConnTypes ==
  ASSUME TypeOK, NEW c \in Conns,
         \/ Accept(c) \/ ClientLeaves(c) \/ ReadFrames(c)
         \/ HelloFails(c) \/ StoreHello(c) \/ WriteHello(c)
         \/ Handshake(c) \/ HandshakeFails(c)
         \/ EndServing(c) \/ StoreH2(c)
  PROVE TypeOK'
<1> USE DEF TypeOK
<1>1. PcOK' /\ \A r \in Reqs : pc'[r] = pc[r]
  BY ConnMoves
<1>2. ReqOK'
  <2>1. UNCHANGED req
    BY DEF Accept, ClientLeaves, ReadFrames, HelloFails, StoreHello, WriteHello,
           Handshake, HandshakeFails, EndServing, StoreH2
  <2>2. QED
    BY <1>1, <2>1 DEF ReqOK
<1>3. ServerOK'
  <2> USE AddrOfType DEF ServerOK, serverVars
  <2>1. CASE StoreHello(c)
    BY <2>1 DEF StoreHello, storeHello
  <2>2. CASE StoreH2(c)
    BY <2>2 DEF StoreH2
  <2>3. CASE ~(StoreHello(c) \/ StoreH2(c))
    <3>1. UNCHANGED serverVars
      BY <2>3 DEF Accept, ClientLeaves, ReadFrames, HelloFails, WriteHello,
                  Handshake, HandshakeFails, EndServing
    <3>2. QED
      BY <3>1
  <2>4. QED
    BY <2>1, <2>2, <2>3
<1>4. ConnOK'
  <2> USE DEF ConnOK, connVars
  <2>1. CASE ReadFrames(c)
    BY <2>1, BoundsType DEF ReadFrames
  <2>2. CASE Handshake(c)
    BY <2>2 DEF Handshake
  <2>3. CASE ~(ReadFrames(c) \/ Handshake(c))
    <3>1. UNCHANGED <<proto, flight, raw>> /\ up' \subseteq Conns
      BY <2>3 DEF Accept, ClientLeaves, HelloFails, StoreHello, WriteHello,
                  HandshakeFails, EndServing, StoreH2
    <3>2. QED
      BY <3>1
  <2>4. QED
    BY <2>1, <2>2, <2>3
<1>5. DiskOK'
  BY DEF DiskOK, diskVars, Accept, ClientLeaves, ReadFrames, HelloFails, StoreHello,
         WriteHello, Handshake, HandshakeFails, EndServing, StoreH2
<1>6. HistoryOK'
  BY DEF HistoryOK, history, Accept, ClientLeaves, ReadFrames, HelloFails, StoreHello,
         WriteHello, Handshake, HandshakeFails, EndServing, StoreH2
<1>7. LateOK'
  BY DEF LateOK, Accept, ClientLeaves, ReadFrames, HelloFails, StoreHello, WriteHello,
         Handshake, HandshakeFails, EndServing, StoreH2
<1>8. QED
  BY <1>1, <1>2, <1>3, <1>4, <1>5, <1>6, <1>7

\* Filling in what a request got leaves the rest of its record.
LEMMA HelloFields ==
  ASSUME NEW q \in Request, NEW d \in Conns \cup {None}, NEW src \in {"own", "last"}
  PROVE LET p == GotHello(q, d, src) IN
        /\ p \in Request
        /\ p.conn = q.conn /\ p.kind = q.kind /\ p.h2 = q.h2 /\ p.h2src = q.h2src
        /\ p.hello = d /\ p.src = src
BY DEF Request, GotHello

\* Likewise for the observation.
LEMMA H2Fields ==
  ASSUME NEW q \in Request, NEW d \in Conns \cup {None}, NEW src \in {"taken", "live"}
  PROVE LET p == GotH2(q, d, src) IN
        /\ p \in Request
        /\ p.conn = q.conn /\ p.kind = q.kind /\ p.hello = q.hello /\ p.src = q.src
        /\ p.h2 = d /\ p.h2src = src
BY DEF Request, GotH2

\* Likewise for the connection and the handler.
LEMMA StartFields ==
  ASSUME NEW q \in Request, NEW c \in Conns, NEW k \in RequestKinds
  PROVE LET p == Started(q, c, k) IN
        /\ p \in Request
        /\ p.conn = c /\ p.kind = k
        /\ p.hello = q.hello /\ p.src = q.src /\ p.h2 = q.h2 /\ p.h2src = q.h2src
BY DEF Request, Started

\* Only the entry put changes.
LEMMA PutRequest ==
  ASSUME req \in [Reqs -> Request], NEW r \in Reqs, NEW p \in Request,
         req' = [req EXCEPT ![r] = p]
  PROVE /\ req' \in [Reqs -> Request]
        /\ req'[r] = p
        /\ \A s \in Reqs : s # r => req'[s] = req[s]
OBVIOUS

\* A handler keeps the connection it serves.
LEMMA ReqConnKept ==
  ASSUME TypeOK, NEW r \in Reqs,
         \/ BodyArrives(r) \/ BodyReadFails(r)
         \/ TakeHello(r) \/ LastClientHello(r) \/ TakeH2(r) \/ LiveH2(r)
         \/ AppendLog(r) \/ WriteCapture(r) \/ RecordCapture(r)
  PROVE /\ req[r].conn \in Conns /\ AddrOf[req[r].conn] \in Addrs
        /\ req' \in [Reqs -> Request]
        /\ \A s \in Reqs : s # r => req'[s] = req[s]
        /\ req'[r].conn = req[r].conn /\ req'[r].kind = req[r].kind
<1>1. req[r].conn \in Conns /\ AddrOf[req[r].conn] \in Addrs
  BY ReqMoves, AddrOfType DEF TypeOK, ReqOK
<1>2. req \in [Reqs -> Request] /\ req[r] \in Request
  BY DEF TypeOK, ReqOK
<1> DEFINE a == AddrOf[req[r].conn]
           live == IF flight[req[r].conn] > 0 THEN req[r].conn ELSE None
<1>3. /\ helloByAddr[a] \in Conns \cup {None}
      /\ h2ByAddr[a] \in Conns \cup {None}
      /\ lastHello \in Conns \cup {None}
      /\ live \in Conns \cup {None}
  BY <1>1 DEF TypeOK, ServerOK
<1>4. CASE UNCHANGED req
  BY <1>1, <1>2, <1>4
<1>5. CASE req' = [req EXCEPT ![r] = GotHello(req[r], helloByAddr[a], "own")]
  <2> DEFINE p == GotHello(req[r], helloByAddr[a], "own")
  <2>1. p \in Request /\ p.conn = req[r].conn /\ p.kind = req[r].kind
    <3> HIDE DEF a, live
    <3>1. req[r] \in Request /\ helloByAddr[a] \in Conns \cup {None}
      BY <1>2, <1>3
    <3> QED BY <3>1, HelloFields
  <2>2. req' = [req EXCEPT ![r] = p]
    BY <1>5
  <2> HIDE DEF p
  <2>3. QED
    BY <1>1, <1>2, <2>1, <2>2, PutRequest
<1>6. CASE req' = [req EXCEPT ![r] = GotHello(req[r], lastHello, "last")]
  <2> DEFINE p == GotHello(req[r], lastHello, "last")
  <2>1. p \in Request /\ p.conn = req[r].conn /\ p.kind = req[r].kind
    <3> HIDE DEF a, live
    <3>1. req[r] \in Request /\ lastHello \in Conns \cup {None}
      BY <1>2, <1>3
    <3> QED BY <3>1, HelloFields
  <2>2. req' = [req EXCEPT ![r] = p]
    BY <1>6
  <2> HIDE DEF p
  <2>3. QED
    BY <1>1, <1>2, <2>1, <2>2, PutRequest
<1>7. CASE req' = [req EXCEPT ![r] = GotH2(req[r], h2ByAddr[a], "taken")]
  <2> DEFINE p == GotH2(req[r], h2ByAddr[a], "taken")
  <2>1. p \in Request /\ p.conn = req[r].conn /\ p.kind = req[r].kind
    <3> HIDE DEF a, live
    <3>1. req[r] \in Request /\ h2ByAddr[a] \in Conns \cup {None}
      BY <1>2, <1>3
    <3> QED BY <3>1, H2Fields
  <2>2. req' = [req EXCEPT ![r] = p]
    BY <1>7
  <2> HIDE DEF p
  <2>3. QED
    BY <1>1, <1>2, <2>1, <2>2, PutRequest
<1>8. CASE req' = [req EXCEPT ![r] = GotH2(req[r], live, "live")]
  <2> DEFINE p == GotH2(req[r], live, "live")
  <2>1. p \in Request /\ p.conn = req[r].conn /\ p.kind = req[r].kind
    <3> HIDE DEF a, live
    <3>1. req[r] \in Request /\ live \in Conns \cup {None}
      BY <1>2, <1>3
    <3> QED BY <3>1, H2Fields
  <2>2. req' = [req EXCEPT ![r] = p]
    BY <1>8
  <2> HIDE DEF p
  <2>3. QED
    BY <1>1, <1>2, <2>1, <2>2, PutRequest
<1>9. QED
  BY <1>4, <1>5, <1>6, <1>7, <1>8
     DEF BodyArrives, BodyReadFails,
         TakeHello, LastClientHello, TakeH2, LiveH2, AppendLog, WriteCapture, RecordCapture

\* The steps of a handler preserve the types.
LEMMA ReqTypes ==
  ASSUME TypeOK, NEW r \in Reqs,
         \/ BodyArrives(r) \/ BodyReadFails(r)
         \/ TakeHello(r) \/ LastClientHello(r) \/ TakeH2(r) \/ LiveH2(r)
         \/ AppendLog(r) \/ WriteCapture(r) \/ RecordCapture(r)
  PROVE TypeOK'
<1>1. /\ PcOK'
      /\ \A s \in Reqs : s # r => pc'[s] = pc[s]
  BY ReqMoves DEF TypeOK
<1>2. ReqOK'
  <2>1. \A s \in Reqs : req'[s].conn = req[s].conn
    BY ReqConnKept
  <2>2. QED
    BY <1>1, <2>1, ReqConnKept DEF TypeOK, ReqOK
<1>3. ServerOK'
  <2> USE DEF TypeOK, ServerOK
  <2>1. CASE TakeHello(r)
    BY <2>1, ReqConnKept DEF TakeHello, Take, Delete
  <2>2. CASE TakeH2(r)
    BY <2>2, ReqConnKept DEF TakeH2, Take, Delete
  <2>3. CASE AppendLog(r)
    <3>1. Append(logs, r) \in Seq(Reqs)
      OBVIOUS
    <3>2. Trim(Append(logs, r)) \in Seq(Reqs) /\ Len(Trim(Append(logs, r))) <= maxLogs
      BY <3>1, TrimType
    <3>3. QED
      BY <2>3, <3>2 DEF AppendLog
  <2>4. CASE RecordCapture(r)
    BY <2>4 DEF RecordCapture
  <2>5. CASE BodyArrives(r) \/ BodyReadFails(r) \/ LastClientHello(r) \/ LiveH2(r) \/ WriteCapture(r)
    BY <2>5 DEF BodyArrives, BodyReadFails, LastClientHello, LiveH2, WriteCapture, serverVars
  <2>6. QED
    BY <2>1, <2>2, <2>3, <2>4, <2>5
<1>4. ConnOK'
  <2>1. UNCHANGED <<up, proto, flight, raw>>
    BY DEF BodyArrives, BodyReadFails,
           TakeHello, LastClientHello, TakeH2, LiveH2, AppendLog, WriteCapture,
           RecordCapture, connVars
  <2>2. QED
    BY <2>1 DEF TypeOK, ConnOK
<1>5. DiskOK'
  <2>1. CASE WriteCapture(r)
    <3>1. wrote' \in [Reqs -> SUBSET Files]
      BY <2>1 DEF WriteCapture, CaptureFiles, Files, TypeOK, DiskOK
    <3>2. QED
      BY <2>1, <3>1 DEF WriteCapture, TypeOK, DiskOK
  <2>2. CASE ~WriteCapture(r)
    <3>1. UNCHANGED diskVars
      BY <2>2 DEF BodyArrives, BodyReadFails,
                  TakeHello, LastClientHello, TakeH2, LiveH2, AppendLog, RecordCapture
    <3>2. QED
      BY <3>1 DEF diskVars, TypeOK, DiskOK
  <2>3. QED
    BY <2>1, <2>2
<1>6. HistoryOK'
  BY DEF TypeOK, HistoryOK, history, BodyArrives, BodyReadFails,
                                     TakeHello, LastClientHello, TakeH2, LiveH2,
         AppendLog, WriteCapture, RecordCapture
<1>7. LateOK'
  BY DEF TypeOK, LateOK, BodyArrives, BodyReadFails, TakeHello, LastClientHello, TakeH2,
         LiveH2, AppendLog, WriteCapture, RecordCapture
<1>8. QED
  BY <1>1, <1>2, <1>3, <1>4, <1>5, <1>6, <1>7 DEF TypeOK

\* A request starts well typed and moves nothing but its own handler.
LEMMA StartTypes ==
  ASSUME TypeOK, NEW c \in Conns, NEW r \in Reqs, NEW k \in Kinds, StartRequest(c, r, k)
  PROVE /\ TypeOK'
        /\ req'[r] = Started(req[r], c, k)
        /\ \A s \in Reqs : s # r => req'[s] = req[s]
        /\ pc'[r] # "idle"
        /\ \A g \in Conns \cup Reqs : g # r => pc'[g] = pc[g]
        /\ \A d \in Conns : pc'[d] = pc[d]
<1>1. /\ req' \in [Reqs -> Request]
      /\ req'[r] = Started(req[r], c, k)
      /\ req'[r].conn = c
      /\ \A s \in Reqs : s # r => req'[s] = req[s]
  <2>1. req \in [Reqs -> Request] /\ req[r] \in Request /\ k \in RequestKinds
    BY KindsType DEF TypeOK, ReqOK
  <2>2. req' = [req EXCEPT ![r] = Started(req[r], c, k)]
    BY DEF StartRequest
  <2>3. QED
    BY <2>1, <2>2, StartFields, PutRequest
<1>2. /\ PcOK'
      /\ pc'[r] # "idle"
      /\ \A g \in Conns \cup Reqs : g # r => pc'[g] = pc[g]
      /\ \A d \in Conns : pc'[d] = pc[d]
  <2>1. PICK l \in ReqPCs : Goto(r, l) /\ l # "idle"
    BY KindsType DEF StartRequest, FirstStep, RequestKinds, ReqPCs
  <2>2. QED
    BY <2>1, ReqGoto DEF TypeOK
<1>3. ReqOK'
  BY <1>1, <1>2 DEF TypeOK, ReqOK
<1>4. UNCHANGED <<serverVars, connVars, raw, late, diskVars, history>>
  BY DEF StartRequest
<1>5. QED
  BY <1>1, <1>2, <1>3, <1>4
     DEF TypeOK, ServerOK, ConnOK, LateOK, DiskOK, HistoryOK,
         serverVars, connVars, diskVars, history

\* The steps of persistH2Raw preserve the types and touch no request.
LEMMA PersistTypes ==
  ASSUME TypeOK, NEW g \in Conns \cup Reqs,
         RawClientFlight(g) \/ KeepFlight(g) \/ WriteFlight(g)
  PROVE /\ TypeOK'
        /\ UNCHANGED req
        /\ pc'[g] # "idle"
        /\ \A h \in Conns \cup Reqs : h # g => pc'[h] = pc[h]
<1>1. /\ pc[g] \in {"snap", "lock", "writeFlight"}
      /\ UNCHANGED req
  BY DEF RawClientFlight, KeepFlight, WriteFlight
<1>2. /\ ConnOf(g) \in Conns
      /\ g \in Conns => AfterPersist(g) = "closed"
      /\ g \in Reqs => AfterPersist(g) = "log"
  BY <1>1, ConnsReqsDisjoint DEF ConnOf, AfterPersist, TypeOK, ReqOK
<1>3. [conn |-> ConnOf(g), len |-> raw[g]] \in Flight
  BY <1>2 DEF Flight, TypeOK, ConnOK
<1>4. PICK l \in {"lock", "writeFlight", AfterPersist(g)} : Goto(g, l)
  BY DEF RawClientFlight, KeepFlight, WriteFlight
<1>5. /\ PcOK'
      /\ pc'[g] # "idle"
      /\ \A h \in Conns \cup Reqs : h # g => pc'[h] = pc[h]
  <2>1. CASE g \in Conns
    <3>1. l \in ConnPCs /\ l # "idle"
      BY <1>2, <1>4, <2>1 DEF ConnPCs
    <3>2. QED
      BY <1>4, <2>1, <3>1, ConnGoto DEF TypeOK
  <2>2. CASE g \in Reqs
    <3>1. l \in ReqPCs /\ l # "idle"
      BY <1>2, <1>4, <2>2 DEF ReqPCs
    <3>2. QED
      BY <1>4, <2>2, <3>1, ReqGoto DEF TypeOK
  <2>3. QED
    BY <2>1, <2>2
<1>6. ReqOK'
  BY <1>1, <1>5, ConnsReqsDisjoint DEF TypeOK, ReqOK
<1>7. ServerOK'
  BY <1>3 DEF TypeOK, ServerOK, serverVars, RawClientFlight, KeepFlight, WriteFlight
<1>8. ConnOK'
  BY <1>2 DEF TypeOK, ConnOK, connVars, RawClientFlight, KeepFlight, WriteFlight
<1>9. DiskOK'
  <2>1. CASE WriteFlight(g)
    <3>1. h2Files' \in Seq(Flight)
      BY <1>3, <2>1 DEF WriteFlight, TypeOK, DiskOK
    <3>2. QED
      BY <2>1, <3>1 DEF WriteFlight, TypeOK, DiskOK
  <2>2. CASE RawClientFlight(g) \/ KeepFlight(g)
    BY <2>2 DEF RawClientFlight, KeepFlight, TypeOK, DiskOK, diskVars
  <2>3. QED
    BY <2>1, <2>2
<1>10. HistoryOK'
  BY DEF TypeOK, HistoryOK, history, RawClientFlight, KeepFlight, WriteFlight
<1>11. LateOK'
  BY DEF TypeOK, LateOK, RawClientFlight, KeepFlight, WriteFlight
<1>12. QED
  BY <1>1, <1>5, <1>6, <1>7, <1>8, <1>9, <1>10, <1>11 DEF TypeOK

\* Every variable keeps its type, and a running request has a connection.
THEOREM TypeCorrect == Spec => []TypeOK
<1>1. Init => TypeOK
  <2> SUFFICES ASSUME Init
               PROVE TypeOK
    OBVIOUS
  <2>1. PcOK
    BY ConnsReqsDisjoint DEF Init, PcOK, ConnPCs, ReqPCs
  <2>2. ServerOK
    BY BoundsType DEF Init, ServerOK, Flight
  <2>3. ConnOK
    BY BoundsType DEF Init, ConnOK
  <2>4. ReqOK
    BY ConnsReqsDisjoint DEF Init, ReqOK, Request
  <2>5. LateOK /\ DiskOK /\ HistoryOK
    BY DEF Init, LateOK, DiskOK, HistoryOK
  <2>6. QED
    BY <2>1, <2>2, <2>3, <2>4, <2>5 DEF TypeOK
<1>2. TypeOK /\ [Next]_vars => TypeOK'
  <2> SUFFICES ASSUME TypeOK, [Next]_vars
               PROVE TypeOK'
    OBVIOUS
  <2>1. CASE UNCHANGED butLate /\ LateOK'
    BY <2>1 DEF TypeOK, ServerOK, PcOK, ConnOK, ReqOK, DiskOK, HistoryOK,
                butLate, serverVars, connVars, diskVars, history
  <2>2. QED
    BY <2>1, StepCases, ConnTypes, ReqTypes, StartTypes, PersistTypes DEF TypeOK
<1>3. QED
  BY <1>1, <1>2, PTL DEF Spec

-----------------------------------------------------------------------------
(* A request never gets a hello older than its own connection's.           *)

\* Steps that leave hellos alone.
LEMMA HelloConnStutter ==
  ASSUME TypeOK, HelloInv, NoOlderHello, NEW c \in Conns,
         \/ Accept(c) \/ ClientLeaves(c) \/ ReadFrames(c)
         \/ HelloFails(c) \/ WriteHello(c)
         \/ Handshake(c) \/ HandshakeFails(c)
         \/ EndServing(c) \/ StoreH2(c)
  PROVE HelloInv' /\ NoOlderHello'
<1>1. UNCHANGED <<helloByAddr, lastHello, helloSeq, helloCount, req>>
  BY DEF Accept, ClientLeaves, ReadFrames, HelloFails, WriteHello, Handshake,
         HandshakeFails, EndServing, StoreH2, serverVars, history
<1>2. /\ pc'[c] \in {"new", "hello"} => pc[c] \in {"new", "hello"}
      /\ pc'[c] \in {"tls", "writeHello", "serving"} =>
           pc[c] \in {"tls", "writeHello", "serving"}
  BY DEF Accept, ClientLeaves, ReadFrames, HelloFails, WriteHello, Handshake,
         HandshakeFails, EndServing, AfterServing, StoreH2, Goto, TypeOK, PcOK
<1>3. /\ \A d \in Conns : d # c => pc'[d] = pc[d]
      /\ \A r \in Reqs : pc'[r] = pc[r]
  BY ConnMoves DEF TypeOK
<1>4. QED
  BY <1>1, <1>2, <1>3 DEF HelloInv, NoOlderHello

\* Storing a hello makes it the most recent.
LEMMA HelloStored ==
  ASSUME TypeOK, HelloInv, NoOlderHello, NEW c \in Conns, StoreHello(c)
  PROVE HelloInv' /\ NoOlderHello'
<1>1. /\ helloByAddr' = [helloByAddr EXCEPT ![AddrOf[c]] = c]
      /\ lastHello' = c
      /\ helloSeq' = [helloSeq EXCEPT ![c] = helloCount + 1]
      /\ helloCount' = helloCount + 1
      /\ UNCHANGED req
      /\ pc[c] = "hello"
  BY DEF StoreHello, storeHello
<1>2. /\ pc'[c] \in {"writeHello", "tls"}
      /\ \A d \in Conns : d # c => pc'[d] = pc[d]
      /\ \A r \in Reqs : pc'[r] = pc[r]
  BY ConnMoves DEF StoreHello, Goto, TypeOK, PcOK
<1>3. /\ AddrOf[c] \in Addrs
      /\ helloByAddr \in [Addrs -> Conns \cup {None}]
      /\ helloSeq \in [Conns -> Nat] /\ helloCount \in Nat
  BY AddrOfType DEF TypeOK, ServerOK, HistoryOK
<1>4. /\ helloSeq[c] = 0
      /\ helloSeq'[c] = helloCount + 1
      /\ \A d \in Conns : d # c => helloSeq'[d] = helloSeq[d]
      /\ \A d \in Conns : helloSeq[d] <= helloCount
      /\ \A d \in Conns : helloSeq'[d] >= helloSeq[d] /\ helloSeq'[d] <= helloCount + 1
  BY <1>1, <1>3 DEF HelloInv
<1>5. \A a \in Addrs : helloByAddr'[a] \in Conns =>
        /\ AddrOf[helloByAddr'[a]] = a
        /\ helloSeq'[helloByAddr'[a]] > 0
        /\ \A d \in Conns : AddrOf[d] = a => helloSeq'[d] <= helloSeq'[helloByAddr'[a]]
  <2> SUFFICES ASSUME NEW a \in Addrs, helloByAddr'[a] \in Conns
               PROVE /\ AddrOf[helloByAddr'[a]] = a
                     /\ helloSeq'[helloByAddr'[a]] > 0
                     /\ \A d \in Conns : AddrOf[d] = a =>
                          helloSeq'[d] <= helloSeq'[helloByAddr'[a]]
    OBVIOUS
  <2>1. CASE a = AddrOf[c]
    <3>1. helloByAddr'[a] = c
      BY <1>1, <1>3, <2>1
    <3>2. QED
      BY <1>3, <1>4, <2>1, <3>1
  <2>2. CASE a # AddrOf[c]
    <3>1. helloByAddr'[a] = helloByAddr[a] /\ helloByAddr[a] # c
      BY <1>1, <1>3, <2>2 DEF HelloInv
    <3>2. QED
      BY <1>3, <1>4, <2>2, <3>1 DEF HelloInv
  <2>3. QED
    BY <2>1, <2>2
<1>6. HelloInv'
  BY <1>1, <1>2, <1>3, <1>4, <1>5 DEF HelloInv
<1>7. NoOlderHello'
  <2> SUFFICES ASSUME NEW r \in Reqs, req[r].src # "none"
               PROVE /\ req[r].hello \in Conns
                     /\ helloSeq'[req[r].hello] >= helloSeq'[req[r].conn]
    BY <1>1 DEF NoOlderHello
  <2>1. req[r].conn \in Conns /\ helloSeq[req[r].conn] > 0
    BY DEF HelloInv, TypeOK, ReqOK
  <2>2. req[r].conn # c
    BY <1>4, <2>1
  <2>3. QED
    BY <1>3, <1>4, <2>1, <2>2 DEF NoOlderHello
<1>8. QED
  BY <1>6, <1>7

\* A handler gets its address's entry or the most recent hello.
LEMMA HelloHanded ==
  ASSUME TypeOK, HelloInv, NoOlderHello, NEW r \in Reqs,
         \/ BodyArrives(r) \/ BodyReadFails(r)
         \/ TakeHello(r) \/ LastClientHello(r) \/ TakeH2(r) \/ LiveH2(r)
         \/ AppendLog(r) \/ WriteCapture(r) \/ RecordCapture(r)
  PROVE HelloInv' /\ NoOlderHello'
<1> DEFINE c == req[r].conn
           a == AddrOf[c]
<1>1. /\ c \in Conns /\ a \in Addrs
      /\ helloSeq[c] > 0
      /\ helloSeq \in [Conns -> Nat] /\ helloCount \in Nat
      /\ req \in [Reqs -> Request] /\ req[r] \in Request
      /\ helloByAddr \in [Addrs -> Conns \cup {None}]
      /\ lastHello \in Conns \cup {None}
  BY ReqConnKept, ReqMoves DEF HelloInv, TypeOK, ReqOK, HistoryOK, ServerOK
<1>2. UNCHANGED <<lastHello, helloSeq, helloCount>>
  BY DEF BodyArrives, BodyReadFails,
         TakeHello, LastClientHello, TakeH2, LiveH2, AppendLog, WriteCapture,
         RecordCapture, serverVars, history
<1>3. /\ \A d \in Conns : pc'[d] = pc[d]
      /\ \A s \in Reqs : s # r => pc'[s] = pc[s] /\ req'[s] = req[s]
      /\ pc'[r] # "idle"
      /\ req'[r].conn = c
  BY ReqMoves, ReqConnKept DEF TypeOK
<1>4. \A b \in Addrs : helloByAddr'[b] \in {helloByAddr[b], None}
  BY <1>1 DEF BodyArrives, BodyReadFails,
              TakeHello, LastClientHello, TakeH2, LiveH2, AppendLog, WriteCapture,
              RecordCapture, serverVars, Take, Delete
<1>5. HelloInv'
  BY <1>1, <1>2, <1>3, <1>4, ConnsReqsDisjoint DEF HelloInv
<1>6. req'[r].src # "none" =>
        req'[r].hello \in Conns /\ helloSeq[req'[r].hello] >= helloSeq[c]
  <2>1. CASE TakeHello(r)
    <3>1. CASE helloByAddr[a] = None
      BY <2>1, <3>1 DEF TakeHello, NoOlderHello
    <3>2. CASE helloByAddr[a] # None
      <4>1. /\ helloByAddr[a] \in Conns
            /\ helloSeq[helloByAddr[a]] >= helloSeq[c]
        BY <1>1, <3>2 DEF HelloInv
      <4>2. req'[r] = GotHello(req[r], helloByAddr[a], "own")
        BY <1>1, <2>1, <3>2 DEF TakeHello
      <4>3. GotHello(req[r], helloByAddr[a], "own").hello = helloByAddr[a]
        BY <1>1 DEF GotHello, Request
      <4>4. QED
        BY <4>1, <4>2, <4>3
    <3>3. QED
      BY <3>1, <3>2
  <2>2. CASE LastClientHello(r)
    <3>1. /\ lastHello \in Conns
          /\ helloSeq[lastHello] >= helloSeq[c]
      BY <1>1 DEF HelloInv
    <3>2. req'[r] = GotHello(req[r], lastHello, "last")
      BY <1>1, <2>2 DEF LastClientHello
    <3>3. req'[r].hello = lastHello
      BY <1>1, <3>1, <3>2, HelloFields
    <3>4. QED
      BY <3>1, <3>3
  <2>3. CASE TakeH2(r) \/ LiveH2(r)
    <3>1. UNCHANGED req \/ \E d \in Conns \cup {None}, src \in {"taken", "live"} :
                            req'[r] = GotH2(req[r], d, src)
      <4>1. h2ByAddr[a] \in Conns \cup {None}
        BY <1>1 DEF TypeOK, ServerOK
      <4>2. (IF flight[c] > 0 THEN c ELSE None) \in Conns \cup {None}
        BY <1>1
      <4>3. QED
        BY <1>1, <2>3, <4>1, <4>2 DEF TakeH2, LiveH2
    <3>2. ASSUME NEW d \in Conns \cup {None}, NEW src \in {"taken", "live"}
          PROVE /\ GotH2(req[r], d, src).hello = req[r].hello
                /\ GotH2(req[r], d, src).src = req[r].src
      BY <1>1 DEF GotH2, Request
    <3>3. req'[r].hello = req[r].hello /\ req'[r].src = req[r].src
      BY <3>1, <3>2
    <3>4. QED
      BY <3>3 DEF NoOlderHello
  <2>4. CASE \/ BodyArrives(r) \/ BodyReadFails(r) \/ AppendLog(r)
             \/ WriteCapture(r) \/ RecordCapture(r)
    BY <2>4 DEF BodyArrives, BodyReadFails, AppendLog, WriteCapture, RecordCapture, NoOlderHello
  <2>5. QED
    BY <2>1, <2>2, <2>3, <2>4
<1>7. NoOlderHello'
  BY <1>2, <1>3, <1>6 DEF NoOlderHello
<1>8. QED
  BY <1>5, <1>7

\* Starting a request and persisting a flight touch no hello.
LEMMA HelloOther ==
  ASSUME TypeOK, HelloInv, NoOlderHello,
         \/ \E c \in Conns, r \in Reqs, k \in Kinds : StartRequest(c, r, k)
         \/ \E g \in Conns \cup Reqs : RawClientFlight(g) \/ KeepFlight(g) \/ WriteFlight(g)
  PROVE HelloInv' /\ NoOlderHello'
<1>1. CASE \E c \in Conns, r \in Reqs, k \in Kinds : StartRequest(c, r, k)
  <2>1. PICK c \in Conns, r \in Reqs, k \in Kinds : StartRequest(c, r, k)
    BY <1>1
  <2>2. /\ UNCHANGED <<helloByAddr, lastHello, helloSeq, helloCount>>
        /\ pc[c] = "serving" /\ pc[r] = "idle"
    BY <2>1 DEF StartRequest, serverVars, history
  <2>3. /\ req'[r] = Started(req[r], c, k)
        /\ \A s \in Reqs : s # r => req'[s] = req[s]
        /\ pc'[r] # "idle"
        /\ \A g \in Conns \cup Reqs : g # r => pc'[g] = pc[g]
        /\ \A d \in Conns : pc'[d] = pc[d]
    BY <2>1, StartTypes
  <2>4. req'[r].conn = c /\ req'[r].src = "none" /\ helloSeq[c] > 0
    BY <2>2, <2>3, StartFields, KindsType DEF HelloInv, TypeOK, ReqOK
  <2>5. QED
    BY <2>2, <2>3, <2>4, ConnsReqsDisjoint DEF HelloInv, NoOlderHello
<1>2. CASE \E g \in Conns \cup Reqs : RawClientFlight(g) \/ KeepFlight(g) \/ WriteFlight(g)
  <2>1. PICK g \in Conns \cup Reqs : RawClientFlight(g) \/ KeepFlight(g) \/ WriteFlight(g)
    BY <1>2
  <2>2. /\ UNCHANGED <<helloByAddr, lastHello, helloSeq, helloCount, req>>
        /\ pc[g] \in {"snap", "lock", "writeFlight"}
        /\ pc'[g] \in {"lock", "writeFlight", "closed", "log"}
    BY <2>1 DEF RawClientFlight, KeepFlight, WriteFlight, serverVars, history, Goto,
                AfterPersist, TypeOK, PcOK
  <2>3. \A h \in Conns \cup Reqs : h # g => pc'[h] = pc[h]
    BY <2>1, PersistTypes
  <2>4. QED
    BY <2>2, <2>3 DEF HelloInv, NoOlderHello
<1>3. QED
  BY <1>1, <1>2

\* helloFromRequest never answers with a hello older than the one its own
\* connection sent, and always has one to answer with.
THEOREM NoOlderHelloHolds == Spec => []NoOlderHello
<1>1. Init => HelloInv /\ NoOlderHello
  BY ConnsReqsDisjoint DEF Init, HelloInv, NoOlderHello
<1>2. TypeOK /\ HelloInv /\ NoOlderHello /\ [Next]_vars => HelloInv' /\ NoOlderHello'
  <2> SUFFICES ASSUME TypeOK, HelloInv, NoOlderHello, [Next]_vars
               PROVE HelloInv' /\ NoOlderHello'
    OBVIOUS
  <2>1. CASE UNCHANGED butLate
    BY <2>1 DEF HelloInv, NoOlderHello, butLate, serverVars, history
  <2>2. QED
    BY <2>1, StepCases, HelloConnStutter, HelloStored, HelloHanded, HelloOther
<1>3. QED
  BY <1>1, <1>2, TypeCorrect, PTL DEF Spec

-----------------------------------------------------------------------------
(* The longest flight offered is the one kept.                             *)

\* Steps outside persistH2Raw neither offer a flight nor change the kept one.
LEMMA FlightStutter ==
  ASSUME TypeOK, FlightInv, UNCHANGED <<raw, lastH2Raw>>,
         \A g \in Conns \cup Reqs : pc'[g] # "lock" => pc[g] # "lock"
  PROVE FlightInv'
BY DEF FlightInv

\* No step of a connection goroutine outside persistH2Raw enters or leaves "lock".
LEMMA FlightConn ==
  ASSUME TypeOK, FlightInv, NEW c \in Conns,
         \/ Accept(c) \/ ClientLeaves(c) \/ ReadFrames(c)
         \/ HelloFails(c) \/ StoreHello(c) \/ WriteHello(c)
         \/ Handshake(c) \/ HandshakeFails(c)
         \/ EndServing(c) \/ StoreH2(c)
  PROVE FlightInv'
<1>1. UNCHANGED <<raw, lastH2Raw>>
  BY DEF Accept, ClientLeaves, ReadFrames, HelloFails, StoreHello, WriteHello, Handshake,
         HandshakeFails, EndServing, StoreH2, serverVars
<1>2. pc'[c] # "lock" => pc[c] # "lock"
  BY DEF Accept, ClientLeaves, ReadFrames, HelloFails, StoreHello, WriteHello, Handshake,
         HandshakeFails, EndServing, AfterServing, StoreH2
<1>3. QED
  BY <1>1, <1>2, ConnMoves, FlightStutter DEF TypeOK

\* Neither does a step of a handler.
LEMMA FlightReq ==
  ASSUME TypeOK, FlightInv, NEW r \in Reqs,
         \/ BodyArrives(r) \/ BodyReadFails(r)
         \/ TakeHello(r) \/ LastClientHello(r) \/ TakeH2(r) \/ LiveH2(r)
         \/ AppendLog(r) \/ WriteCapture(r) \/ RecordCapture(r)
  PROVE FlightInv'
<1>1. UNCHANGED <<raw, lastH2Raw>>
  BY DEF BodyArrives, BodyReadFails,
         TakeHello, LastClientHello, TakeH2, LiveH2, AppendLog, WriteCapture,
         RecordCapture, serverVars
<1>2. pc[r] # "lock"
  BY DEF BodyArrives, BodyReadFails,
         TakeHello, LastClientHello, TakeH2, LiveH2, AppendLog, WriteCapture, RecordCapture
<1>3. QED
  BY <1>1, <1>2, ReqMoves, FlightStutter DEF TypeOK

\* persistH2Raw leaves the critical section only with its flight or a longer one kept.
LEMMA FlightPersist ==
  ASSUME TypeOK, FlightInv, NEW g \in Conns \cup Reqs,
         RawClientFlight(g) \/ KeepFlight(g) \/ WriteFlight(g)
  PROVE FlightInv'
<1>1. /\ raw \in [Conns \cup Reqs -> 0..MaxFlight]
      /\ ConnOf(g) \in Conns
      /\ flight[ConnOf(g)] \in 0..MaxFlight
      /\ lastH2Raw.len \in 0..MaxFlight
      /\ pc \in [Conns \cup Reqs -> ConnPCs \cup ReqPCs]
  BY ConnsReqsDisjoint
     DEF TypeOK, ConnOK, ReqOK, PcOK, ServerOK, Flight, ConnOf, RawClientFlight, KeepFlight,
         WriteFlight
<1>2. \A h \in Conns \cup Reqs : h # g => pc'[h] = pc[h]
  BY PersistTypes
<1>3. CASE RawClientFlight(g)
  <2>1. /\ raw' = [raw EXCEPT ![g] = flight[ConnOf(g)]]
        /\ UNCHANGED lastH2Raw
        /\ pc'[g] # "lock" => flight[ConnOf(g)] = 0
    BY <1>1, <1>3, BoundsType DEF RawClientFlight, Goto, serverVars
  <2>2. QED
    BY <1>1, <1>2, <2>1, BoundsType DEF FlightInv
<1>4. CASE KeepFlight(g)
  <2>1. UNCHANGED raw /\ pc'[g] # "lock"
    BY <1>1, <1>4 DEF KeepFlight, Goto, AfterPersist
  <2>2. lastH2Raw.len <= lastH2Raw'.len /\ raw[g] <= lastH2Raw'.len
    BY <1>1, <1>4, BoundsType DEF KeepFlight, PreferLongest
  <2>3. lastH2Raw'.len \in 0..MaxFlight
    BY PersistTypes DEF TypeOK, ServerOK, Flight
  <2>4. QED
    BY <1>1, <1>2, <2>1, <2>2, <2>3, BoundsType DEF FlightInv
<1>5. CASE WriteFlight(g)
  <2>1. /\ UNCHANGED <<raw, lastH2Raw>>
        /\ pc[g] # "lock"
    BY <1>5 DEF WriteFlight, serverVars
  <2>2. QED
    BY <1>2, <2>1, FlightStutter
<1>6. QED
  BY <1>3, <1>4, <1>5

\* No step takes the kept flight away.
LEMMA FlightStep ==
  ASSUME TypeOK, FlightInv, [Next]_vars
  PROVE FlightInv'
<1>1. CASE UNCHANGED butLate
  BY <1>1 DEF FlightInv, butLate, serverVars
<1>2. CASE \E c \in Conns, r \in Reqs, k \in Kinds : StartRequest(c, r, k)
  <2>1. PICK c \in Conns, r \in Reqs, k \in Kinds : StartRequest(c, r, k)
    BY <1>2
  <2>2. UNCHANGED <<raw, lastH2Raw>> /\ pc[r] # "lock"
    BY <2>1 DEF StartRequest, serverVars
  <2>3. QED
    BY <2>1, <2>2, StartTypes, FlightStutter
<1>3. QED
  BY <1>1, <1>2, StepCases, FlightConn, FlightReq, FlightPersist

\* Whatever the goroutines offering flights do between each other's steps, a
\* goroutine that is through persistH2Raw finds its flight or a longer one kept.
THEOREM FlightKeptHolds == Spec => []FlightKept
<1>1. Init => FlightInv
  BY BoundsType DEF Init, FlightInv
<1>2. TypeOK /\ FlightInv /\ [Next]_vars => FlightInv'
  BY FlightStep
<1>3. TypeOK /\ FlightInv => FlightKept
  BY DEF FlightInv, FlightKept
<1>4. QED
  BY <1>1, <1>2, <1>3, TypeCorrect, PTL DEF Spec

-----------------------------------------------------------------------------
(* Nothing is handed out twice.                                            *)

\* A connection goroutine stores only what nobody has taken yet.
LEMMA TakenConn ==
  ASSUME TypeOK, HelloInv, TakenInv, NEW c \in Conns,
         \/ Accept(c) \/ ClientLeaves(c) \/ ReadFrames(c)
         \/ HelloFails(c) \/ StoreHello(c) \/ WriteHello(c)
         \/ Handshake(c) \/ HandshakeFails(c)
         \/ EndServing(c) \/ StoreH2(c)
  PROVE TakenInv' /\ UNCHANGED req
<1>1. UNCHANGED req
  BY DEF Accept, ClientLeaves, ReadFrames, HelloFails, StoreHello, WriteHello, Handshake,
         HandshakeFails, EndServing, StoreH2
<1>2. /\ helloByAddr \in [Addrs -> Conns \cup {None}]
      /\ h2ByAddr \in [Addrs -> Conns \cup {None}]
      /\ helloSeq \in [Conns -> Nat] /\ helloCount \in Nat
      /\ pc \in [Conns \cup Reqs -> ConnPCs \cup ReqPCs]
  BY DEF TypeOK, ServerOK, HistoryOK, PcOK
<1>3. \A d \in Conns : Ended(d) => Ended(d)'
  <2>1. Ended(c) => Ended(c)'
    BY DEF Ended, Accept, ClientLeaves, ReadFrames, HelloFails, StoreHello, WriteHello,
           Handshake, HandshakeFails, EndServing, AfterServing, StoreH2
  <2>2. \A d \in Conns : d # c => pc'[d] = pc[d]
    BY ConnMoves DEF TypeOK
  <2>3. QED
    BY <2>1, <2>2 DEF Ended
<1>4. CASE StoreHello(c)
  <2>1. /\ helloByAddr' = [helloByAddr EXCEPT ![AddrOf[c]] = c]
        /\ helloSeq' = [helloSeq EXCEPT ![c] = helloCount + 1]
        /\ UNCHANGED h2ByAddr
        /\ helloSeq[c] = 0
    BY <1>4 DEF StoreHello, storeHello, HelloInv
  <2>2. QED
    BY <1>1, <1>2, <1>3, <2>1 DEF TakenInv
<1>5. CASE StoreH2(c)
  <2>1. /\ UNCHANGED <<helloByAddr, helloSeq>>
        /\ h2ByAddr' = [h2ByAddr EXCEPT ![AddrOf[c]] = c] \/ UNCHANGED h2ByAddr
        /\ ~Ended(c)
        /\ Ended(c)'
    BY <1>2, <1>5 DEF StoreH2, Goto, Ended, history
  <2>2. QED
    BY <1>1, <1>2, <1>3, <2>1 DEF TakenInv
<1>6. CASE ~(StoreHello(c) \/ StoreH2(c))
  <2>1. UNCHANGED <<helloByAddr, h2ByAddr, helloSeq>>
    BY <1>6 DEF Accept, ClientLeaves, ReadFrames, HelloFails, WriteHello, Handshake,
                HandshakeFails, EndServing, serverVars, history
  <2>2. QED
    BY <1>1, <1>3, <2>1 DEF TakenInv
<1>7. QED
  BY <1>1, <1>4, <1>5, <1>6

\* A handler takes at most one entry, of its own address, out of each table.
LEMMA TakenReq ==
  ASSUME TypeOK, HelloInv, TakenInv, TakenOnce, NEW r \in Reqs,
         \/ BodyArrives(r) \/ BodyReadFails(r)
         \/ TakeHello(r) \/ LastClientHello(r) \/ TakeH2(r) \/ LiveH2(r)
         \/ AppendLog(r) \/ WriteCapture(r) \/ RecordCapture(r)
  PROVE TakenInv' /\ TakenOnce'
<1> DEFINE a == AddrOf[req[r].conn]
           live == IF flight[req[r].conn] > 0 THEN req[r].conn ELSE None
<1>1. /\ req[r].conn \in Conns /\ a \in Addrs
      /\ helloByAddr \in [Addrs -> Conns \cup {None}]
      /\ h2ByAddr \in [Addrs -> Conns \cup {None}]
      /\ req \in [Reqs -> Request] /\ req[r] \in Request
      /\ None \notin Conns
  BY ReqConnKept, ConnsReqsDisjoint DEF TypeOK, ServerOK, ReqOK
<1>2. /\ UNCHANGED helloSeq
      /\ \A c \in Conns : Ended(c)' = Ended(c)
  <2>1. \A c \in Conns : pc'[c] = pc[c]
    BY ReqMoves DEF TypeOK
  <2>2. QED
    BY <2>1 DEF Ended, BodyArrives, BodyReadFails,
                       TakeHello, LastClientHello, TakeH2, LiveH2, AppendLog, WriteCapture,
                RecordCapture, history
<1>3. \A s \in Reqs : s # r => req'[s] = req[s]
  BY ReqConnKept
<1>4. CASE TakeHello(r) /\ helloByAddr[a] # None
  <2>1. /\ helloByAddr' = [helloByAddr EXCEPT ![a] = None]
        /\ UNCHANGED h2ByAddr
        /\ req'[r] = GotHello(req[r], helloByAddr[a], "own")
    BY <1>1, <1>4 DEF TakeHello, Take, Delete
  <2>2. /\ req'[r].hello = helloByAddr[a] /\ req'[r].src = "own"
        /\ req'[r].h2 = req[r].h2 /\ req'[r].h2src = req[r].h2src
    BY <1>1, <2>1 DEF GotHello, Request
  <2>3. /\ helloByAddr[a] \in Conns
        /\ helloSeq[helloByAddr[a]] > 0
        /\ \A b \in Addrs : helloByAddr'[b] # helloByAddr[a]
    BY <1>1, <1>4, <2>1 DEF HelloInv
  <2>4. \A s \in Reqs : s # r /\ req[s].src = "own" => req[s].hello # helloByAddr[a]
    BY <1>1 DEF TakenInv
  <2>5. \A b \in Addrs : helloByAddr'[b] \in {helloByAddr[b], None}
    BY <1>1, <2>1
  <2>6. TakenInv'
    <3>1. \A s \in Reqs : req'[s].src = "own" =>
            /\ req'[s].hello \in Conns /\ helloSeq[req'[s].hello] > 0
            /\ \A b \in Addrs : helloByAddr'[b] # req'[s].hello
      BY <1>1, <1>3, <2>2, <2>3, <2>5 DEF TakenInv
    <3>2. \A b \in Addrs : h2ByAddr'[b] \in Conns =>
            AddrOf[h2ByAddr'[b]] = b /\ Ended(h2ByAddr'[b])
      BY <2>1 DEF TakenInv
    <3>3. \A s \in Reqs : req'[s].h2src = "taken" =>
            /\ req'[s].h2 \in Conns /\ Ended(req'[s].h2)
            /\ \A b \in Addrs : h2ByAddr'[b] # req'[s].h2
      BY <1>3, <2>1, <2>2 DEF TakenInv
    <3> HIDE DEF a, live
    <3>4. QED
      BY <1>2, <3>1, <3>2, <3>3 DEF TakenInv
  <2>7. TakenOnce'
    BY <1>3, <2>2, <2>4 DEF TakenOnce
  <2>8. QED
    BY <2>6, <2>7
<1>5. CASE TakeH2(r) /\ h2ByAddr[a] # None
  <2>1. /\ h2ByAddr' = [h2ByAddr EXCEPT ![a] = None]
        /\ UNCHANGED helloByAddr
        /\ req'[r] = GotH2(req[r], h2ByAddr[a], "taken")
    BY <1>1, <1>5 DEF TakeH2, Take, Delete
  <2>2. /\ req'[r].h2 = h2ByAddr[a] /\ req'[r].h2src = "taken"
        /\ req'[r].hello = req[r].hello /\ req'[r].src = req[r].src
    BY <1>1, <2>1 DEF GotH2, Request
  <2>3. /\ h2ByAddr[a] \in Conns
        /\ Ended(h2ByAddr[a])
        /\ \A b \in Addrs : h2ByAddr'[b] # h2ByAddr[a]
    BY <1>1, <1>5, <2>1 DEF TakenInv
  <2>4. \A s \in Reqs : s # r /\ req[s].h2src = "taken" => req[s].h2 # h2ByAddr[a]
    BY <1>1 DEF TakenInv
  <2>5. \A b \in Addrs : h2ByAddr'[b] \in {h2ByAddr[b], None}
    BY <1>1, <2>1
  <2>6. TakenInv'
    <3>1. \A s \in Reqs : req'[s].src = "own" =>
            /\ req'[s].hello \in Conns /\ helloSeq[req'[s].hello] > 0
            /\ \A b \in Addrs : helloByAddr'[b] # req'[s].hello
      BY <1>3, <2>1, <2>2 DEF TakenInv
    <3>2. \A b \in Addrs : h2ByAddr'[b] \in Conns =>
            AddrOf[h2ByAddr'[b]] = b /\ Ended(h2ByAddr'[b])
      BY <1>1, <2>5, <2>3 DEF TakenInv
    <3>3. \A s \in Reqs : req'[s].h2src = "taken" =>
            /\ req'[s].h2 \in Conns /\ Ended(req'[s].h2)
            /\ \A b \in Addrs : h2ByAddr'[b] # req'[s].h2
      BY <1>1, <1>3, <2>2, <2>3, <2>5 DEF TakenInv
    <3> HIDE DEF a, live
    <3>4. QED
      BY <1>2, <3>1, <3>2, <3>3 DEF TakenInv
  <2>7. TakenOnce'
    BY <1>3, <2>2, <2>4 DEF TakenOnce
  <2>8. QED
    BY <2>6, <2>7
<1>6. ASSUME UNCHANGED <<helloByAddr, h2ByAddr>>,
             req'[r].src # "own" \/ (req'[r].src = req[r].src /\ req'[r].hello = req[r].hello),
             req'[r].h2src # "taken" \/ (req'[r].h2src = req[r].h2src /\ req'[r].h2 = req[r].h2)
      PROVE TakenInv' /\ TakenOnce'
  BY <1>2, <1>3, <1>6 DEF TakenInv, TakenOnce
<1>7. CASE LastClientHello(r)
  <2>1. /\ UNCHANGED <<helloByAddr, h2ByAddr>>
        /\ req'[r] = GotHello(req[r], lastHello, "last")
    BY <1>1, <1>7 DEF LastClientHello, serverVars
  <2>2. /\ req'[r].src = "last"
        /\ req'[r].h2 = req[r].h2 /\ req'[r].h2src = req[r].h2src
    BY <1>1, <2>1 DEF GotHello, Request
  <2>3. QED
    BY <1>6, <2>1, <2>2
<1>8. CASE LiveH2(r)
  <2>1. /\ UNCHANGED <<helloByAddr, h2ByAddr>>
        /\ req'[r] = GotH2(req[r], live, "live")
    BY <1>1, <1>8 DEF LiveH2, serverVars
  <2>2. /\ req'[r].h2src = "live"
        /\ req'[r].hello = req[r].hello /\ req'[r].src = req[r].src
    BY <1>1, <2>1 DEF GotH2, Request
  <2>3. QED
    BY <1>6, <2>1, <2>2
<1>9. CASE \/ TakeHello(r) /\ helloByAddr[a] = None
           \/ TakeH2(r) /\ h2ByAddr[a] = None
           \/ BodyArrives(r) \/ BodyReadFails(r)
           \/ AppendLog(r) \/ WriteCapture(r) \/ RecordCapture(r)
  <2>1. UNCHANGED <<helloByAddr, h2ByAddr, req>>
    BY <1>1, <1>9 DEF BodyArrives, BodyReadFails, TakeHello, TakeH2, AppendLog, WriteCapture, RecordCapture, Take,
                      Delete, serverVars
  <2>2. QED
    BY <1>6, <2>1
<1>10. QED
  BY <1>4, <1>5, <1>7, <1>8, <1>9

\* Starting a request and persisting a flight hand nothing out.
LEMMA TakenOther ==
  ASSUME TypeOK, HelloInv, TakenInv, TakenOnce,
         \/ \E c \in Conns, r \in Reqs, k \in Kinds : StartRequest(c, r, k)
         \/ \E g \in Conns \cup Reqs : RawClientFlight(g) \/ KeepFlight(g) \/ WriteFlight(g)
  PROVE TakenInv' /\ TakenOnce'
<1>1. CASE \E c \in Conns, r \in Reqs, k \in Kinds : StartRequest(c, r, k)
  <2>1. PICK c \in Conns, r \in Reqs, k \in Kinds : StartRequest(c, r, k)
    BY <1>1
  <2>2. UNCHANGED <<helloByAddr, h2ByAddr, helloSeq>> /\ pc[r] = "idle"
    BY <2>1 DEF StartRequest, serverVars, history
  <2>3. /\ req'[r] = Started(req[r], c, k)
        /\ \A s \in Reqs : s # r => req'[s] = req[s]
        /\ \A d \in Conns : pc'[d] = pc[d]
    BY <2>1, StartTypes
  <2>4. req'[r].src = "none" /\ req'[r].h2src = "none"
    BY <2>2, <2>3, StartFields, KindsType DEF HelloInv, TypeOK, ReqOK
  <2>5. QED
    BY <2>2, <2>3, <2>4 DEF TakenInv, TakenOnce, Ended
<1>2. CASE \E g \in Conns \cup Reqs : RawClientFlight(g) \/ KeepFlight(g) \/ WriteFlight(g)
  <2>1. PICK g \in Conns \cup Reqs : RawClientFlight(g) \/ KeepFlight(g) \/ WriteFlight(g)
    BY <1>2
  <2>2. /\ UNCHANGED <<helloByAddr, h2ByAddr, helloSeq, req>>
        /\ g \in Conns => pc'[g] \in {"lock", "writeFlight", "closed"}
    BY <2>1 DEF RawClientFlight, KeepFlight, WriteFlight, serverVars, history, Goto,
                AfterPersist, TypeOK, PcOK
  <2>3. \A c \in Conns : Ended(c) => Ended(c)'
    BY <2>1, <2>2, PersistTypes DEF Ended
  <2>4. QED
    BY <2>2, <2>3 DEF TakenInv, TakenOnce
<1>3. QED
  BY <1>1, <1>2

\* takeHello and takeH2 give each stored hello and each stored observation to
\* one request at most.
THEOREM TakenOnceHolds == Spec => []TakenOnce
<1>1. Init => HelloInv /\ NoOlderHello /\ TakenInv /\ TakenOnce
  BY ConnsReqsDisjoint DEF Init, HelloInv, NoOlderHello, TakenInv, TakenOnce
<1>2. /\ TypeOK /\ HelloInv /\ NoOlderHello /\ TakenInv /\ TakenOnce
      /\ [Next]_vars
      => HelloInv' /\ NoOlderHello' /\ TakenInv' /\ TakenOnce'
  <2> SUFFICES ASSUME TypeOK, HelloInv, NoOlderHello, TakenInv, TakenOnce, [Next]_vars
               PROVE HelloInv' /\ NoOlderHello' /\ TakenInv' /\ TakenOnce'
    OBVIOUS
  <2>1. CASE UNCHANGED butLate
    BY <2>1 DEF HelloInv, NoOlderHello, TakenInv, TakenOnce, Ended, butLate, serverVars, history
  <2>2. ~UNCHANGED butLate => HelloInv' /\ NoOlderHello'
    BY StepCases, HelloConnStutter, HelloStored, HelloHanded, HelloOther
  <2>3. ASSUME NEW c \in Conns,
               \/ Accept(c) \/ ClientLeaves(c) \/ ReadFrames(c)
               \/ HelloFails(c) \/ StoreHello(c) \/ WriteHello(c)
               \/ Handshake(c) \/ HandshakeFails(c)
               \/ EndServing(c) \/ StoreH2(c)
        PROVE TakenInv' /\ TakenOnce'
    BY <2>3, TakenConn DEF TakenOnce
  <2>4. QED
    BY <2>1, <2>2, <2>3, StepCases, TakenReq, TakenOther
<1>3. QED
  BY <1>1, <1>2, TypeCorrect, PTL DEF Spec

-----------------------------------------------------------------------------
(* What the server keeps of its observations.                              *)

\* A log that is too long keeps its last maxLogs entries.
LEMMA TrimLonger ==
  ASSUME NEW s \in Seq(Reqs), Len(s) > maxLogs
  PROVE /\ Trim(s) \in Seq(Reqs) /\ Len(Trim(s)) = maxLogs
        /\ \A i \in 1..maxLogs : Trim(s)[i] = s[Len(s) - maxLogs + i]
<1> DEFINE m == Len(s) - maxLogs + 1
<1>1. Len(s) \in Nat /\ maxLogs \in Nat /\ m \in Nat /\ m >= 1 /\ Len(s) - m + 1 = maxLogs
  BY BoundsType
<1>2. \A i \in m..Len(s) : s[i] \in Reqs
  BY <1>1
<1>3. Trim(s) = SubSeq(s, m, Len(s))
  BY DEF Trim, Newest
<1>4. /\ SubSeq(s, m, Len(s)) \in Seq(Reqs) /\ Len(SubSeq(s, m, Len(s))) = Len(s) - m + 1
      /\ \A i \in 1..(Len(s) - m + 1) : SubSeq(s, m, Len(s))[i] = s[m + i - 1]
  <2> HIDE DEF m
  <2>1. QED
    BY <1>1, <1>2, SubSeqProperties, BoundsType
<1>5. \A i \in 1..maxLogs : m + i - 1 = Len(s) - maxLogs + i
  BY <1>1
<1>6. QED
  BY <1>1, <1>3, <1>4, <1>5

\* Trimming what was kept is trimming everything: dropping the oldest entries
\* at each append loses nothing that the last trim would keep.
LEMMA TrimAppend ==
  ASSUME NEW s \in Seq(Reqs), NEW r \in Reqs
  PROVE Trim(Append(Trim(s), r)) = Trim(Append(s, r))
<1>1. CASE Len(s) > maxLogs
  <2> DEFINE n == Len(s)
             kept == Trim(s)
             left == Append(kept, r)
             right == Append(s, r)
  <2>1. n \in Nat /\ n > maxLogs /\ maxLogs \in Nat /\ maxLogs >= 1
    BY <1>1, BoundsType
  <2>2. /\ kept \in Seq(Reqs) /\ Len(kept) = maxLogs
        /\ \A i \in 1..maxLogs : kept[i] = s[n - maxLogs + i]
    BY <1>1, TrimLonger
  <2> HIDE DEF kept
  <2>3. /\ left \in Seq(Reqs) /\ Len(left) = maxLogs + 1 /\ left[maxLogs + 1] = r
        /\ \A i \in 1..maxLogs : left[i] = kept[i]
    BY <2>1, <2>2, AppendProperties
  <2>4. /\ right \in Seq(Reqs) /\ Len(right) = n + 1 /\ right[n + 1] = r
        /\ \A i \in 1..n : right[i] = s[i]
    BY <2>1, AppendProperties
  <2> HIDE DEF left, right, n
  <2>5. /\ Trim(left) \in Seq(Reqs) /\ Len(Trim(left)) = maxLogs
        /\ \A i \in 1..maxLogs : Trim(left)[i] = left[Len(left) - maxLogs + i]
    BY <2>1, <2>3, TrimLonger
  <2>6. /\ Trim(right) \in Seq(Reqs) /\ Len(Trim(right)) = maxLogs
        /\ \A i \in 1..maxLogs : Trim(right)[i] = right[Len(right) - maxLogs + i]
    BY <2>1, <2>4, TrimLonger
  <2>7. ASSUME NEW i \in 1..maxLogs PROVE Trim(left)[i] = Trim(right)[i]
    <3>1. Trim(left)[i] = left[i + 1] /\ Trim(right)[i] = right[n + 1 - maxLogs + i]
      BY <2>1, <2>3, <2>4, <2>5, <2>6
    <3>2. CASE i = maxLogs
      BY <2>1, <2>3, <2>4, <3>1, <3>2
    <3>3. CASE i < maxLogs
      <4>1. left[i + 1] = kept[i + 1] /\ kept[i + 1] = s[n - maxLogs + (i + 1)]
        BY <2>1, <2>2, <2>3, <3>3
      <4>2. right[n + 1 - maxLogs + i] = s[n + 1 - maxLogs + i]
        BY <2>1, <2>4, <3>3
      <4>3. n - maxLogs + (i + 1) = n + 1 - maxLogs + i
        BY <2>1
      <4>4. QED
        BY <3>1, <4>1, <4>2, <4>3
    <3>4. QED
      BY <2>1, <3>2, <3>3
  <2>8. Trim(left) = Trim(right)
    BY <2>5, <2>6, <2>7, SeqEqual
  <2>9. QED
    BY <2>8 DEF left, right, kept
<1>2. CASE ~(Len(s) > maxLogs)
  BY <1>2 DEF Trim
<1>3. QED
  BY <1>1, <1>2

\* The log the server serves holds the newest observations ever made, in order.
THEOREM LogsAreNewestHolds == Spec => []LogsAreNewest
<1>1. LogsAreNewest <=> logs = Trim(logged)
  BY DEF LogsAreNewest, Trim
<1>2. Init => LogsAreNewest
  BY <1>1, BoundsType DEF Init, Trim
<1>3. TypeOK /\ LogsAreNewest /\ [Next]_vars => LogsAreNewest'
  <2>1. SUFFICES ASSUME TypeOK, logs = Trim(logged), [Next]_vars
                 PROVE logs' = Trim(logged')
    BY DEF LogsAreNewest, Trim
  <2>2. CASE UNCHANGED <<logs, logged>>
    BY <2>1, <2>2
  <2>3. ASSUME NEW r \in Reqs, AppendLog(r)
        PROVE logs' = Trim(logged')
    <3>1. logs' = Trim(Append(logs, r)) /\ logged' = Append(logged, r)
      BY <2>3 DEF AppendLog
    <3>2. logged \in Seq(Reqs)
      BY <2>1 DEF TypeOK, HistoryOK
    <3>3. QED
      BY <2>1, <3>1, <3>2, TrimAppend
  <2>4. UNCHANGED <<logs, logged>> \/ \E r \in Reqs : AppendLog(r)
    BY <2>1, StepCases
       DEF butLate, serverVars, history, Accept, ClientLeaves, ReadFrames, HelloFails, StoreHello,
           WriteHello, Handshake, HandshakeFails, EndServing, StoreH2, StartRequest,
           BodyArrives, BodyReadFails,
           TakeHello, LastClientHello, TakeH2, LiveH2, WriteCapture, RecordCapture, RawClientFlight,
           KeepFlight, WriteFlight
  <2>5. QED
    BY <2>2, <2>3, <2>4
<1>4. QED
  BY <1>2, <1>3, TypeCorrect, PTL DEF Spec

-----------------------------------------------------------------------------
(* What reaches CaptureDir.                                                *)

\* Steps that write no capture keep what is known of those written.
LEMMA CaptureStutter ==
  ASSUME CaptureInv, NEW g, UNCHANGED <<wrote, lastCapture>>,
         \A r \in Reqs : r # g => pc'[r] = pc[r] /\ req'[r] = req[r],
         lastCapture # None => lastCapture # g /\ lastCapture \in Reqs,
         g \in Reqs => ~(HasCaptureDir /\ pc'[g] = "record")
  PROVE CaptureInv'
BY ConnsReqsDisjoint DEF CaptureInv

\* Writing and recording a capture.
LEMMA CaptureReq ==
  ASSUME TypeOK, CaptureInv, NEW r \in Reqs,
         \/ BodyArrives(r) \/ BodyReadFails(r)
         \/ TakeHello(r) \/ LastClientHello(r) \/ TakeH2(r) \/ LiveH2(r)
         \/ AppendLog(r) \/ WriteCapture(r) \/ RecordCapture(r)
  PROVE CaptureInv'
<1>1. /\ \A s \in Reqs : s # r => pc'[s] = pc[s] /\ req'[s] = req[s]
      /\ pc \in [Conns \cup Reqs -> ConnPCs \cup ReqPCs] /\ wrote \in [Reqs -> SUBSET Files]
      /\ lastCapture \in Reqs \cup {None}
  BY ReqMoves, ReqConnKept DEF TypeOK, PcOK, DiskOK, ServerOK
<1>2. lastCapture # None => lastCapture # r /\ lastCapture \in Reqs
  <2>1. pc[r] # "done"
    BY DEF BodyArrives, BodyReadFails,
           TakeHello, LastClientHello, TakeH2, LiveH2, AppendLog, WriteCapture, RecordCapture
  <2>2. QED
    BY <1>1, <2>1 DEF CaptureInv
<1>3. CASE WriteCapture(r)
  <2>0. Len(CaptureFiles(r)) \in Nat
    BY DEF CaptureFiles
  <2>1. PICK n \in 0..Len(CaptureFiles(r)) :
          /\ wrote' = [wrote EXCEPT ![r] = {CaptureFiles(r)[i] : i \in 1..n}]
          /\ pc' = [pc EXCEPT ![r] = IF n = Len(CaptureFiles(r)) THEN "record" ELSE "done"]
    <3>1. \A n \in {Len(CaptureFiles(r))} : n \in 0..Len(CaptureFiles(r))
      BY <2>0
    <3>2. QED
      BY <1>3, <3>1 DEF WriteCapture, Goto, AfterFailedWrite
  <2>2. UNCHANGED <<req, lastCapture>>
    BY <1>3 DEF WriteCapture, serverVars
  <2>3. CASE n = Len(CaptureFiles(r))
    <3>1. wrote'[r] = {CaptureFiles(r)[i] : i \in 1..Len(CaptureFiles(r))}
      BY <1>1, <2>1, <2>3
    <3>2. {"json", "yaml"} \subseteq wrote'[r]
      <4>1. /\ CaptureFiles(r)[1] = "json" /\ CaptureFiles(r)[2] = "yaml"
            /\ Len(CaptureFiles(r)) \in Nat /\ Len(CaptureFiles(r)) >= 2
        BY DEF CaptureFiles
      <4>2. 1 \in 1..Len(CaptureFiles(r)) /\ 2 \in 1..Len(CaptureFiles(r))
        BY <4>1
      <4>3. QED
        BY <3>1, <4>1, <4>2
    <3>3. req[r].hello # None => "hello" \in wrote'[r]
      <4>1. SUFFICES ASSUME req[r].hello # None PROVE "hello" \in wrote'[r]
        OBVIOUS
      <4>2. CaptureFiles(r)[3] = "hello" /\ Len(CaptureFiles(r)) = 3
        BY <4>1 DEF CaptureFiles
      <4>3. QED
        BY <3>1, <4>2
    <3>4. \A s \in Reqs : s # r => wrote'[s] = wrote[s]
      BY <1>1, <2>1
    <3>5. QED
      BY <1>1, <1>2, <2>2, <3>2, <3>3, <3>4 DEF CaptureInv
  <2>4. CASE n # Len(CaptureFiles(r))
    <3>1. pc'[r] = "done" /\ \A s \in Reqs : s # r => wrote'[s] = wrote[s]
      BY <1>1, <2>1, <2>4, ConnsReqsDisjoint
    <3>2. QED
      BY <1>1, <1>2, <2>2, <3>1, ConnsReqsDisjoint DEF CaptureInv
  <2>5. QED
    BY <2>3, <2>4
<1>4. CASE RecordCapture(r)
  <2>1. pc[r] = "record" /\ pc'[r] = "done" /\ lastCapture' = r /\ UNCHANGED <<wrote, req>>
    BY <1>1, <1>4 DEF RecordCapture, Goto, diskVars
  <2>2. QED
    BY <1>1, <2>1 DEF CaptureInv
<1>5. CASE ~(WriteCapture(r) \/ RecordCapture(r))
  <2>1. UNCHANGED <<wrote, lastCapture>>
    BY <1>5 DEF BodyArrives, BodyReadFails,
                TakeHello, LastClientHello, TakeH2, LiveH2, AppendLog, serverVars, diskVars
  <2>2. ~(HasCaptureDir /\ pc'[r] = "record")
    BY <1>1, <1>5
       DEF BodyArrives, BodyReadFails,
           TakeHello, LastClientHello, TakeH2, LiveH2, AppendLog, Goto, AfterHello, AfterH2
  <2>3. QED
    BY <1>1, <1>2, <2>1, <2>2, CaptureStutter
<1>6. QED
  BY <1>3, <1>4, <1>5

\* The last capture is on disk with its hello, whichever write of whichever
\* request fails.
THEOREM CaptureCompleteHolds == Spec => []CaptureComplete
<1>1. Init => CaptureInv
  BY ConnsReqsDisjoint DEF Init, CaptureInv
<1>2. TypeOK /\ CaptureInv /\ [Next]_vars => CaptureInv'
  <2> SUFFICES ASSUME TypeOK, CaptureInv, [Next]_vars
               PROVE CaptureInv'
    OBVIOUS
  <2>1. CASE UNCHANGED butLate
    BY <2>1 DEF CaptureInv, butLate, serverVars, diskVars
  <2>2. ASSUME NEW c \in Conns,
               \/ Accept(c) \/ ClientLeaves(c) \/ ReadFrames(c)
               \/ HelloFails(c) \/ StoreHello(c) \/ WriteHello(c)
               \/ Handshake(c) \/ HandshakeFails(c)
               \/ EndServing(c) \/ StoreH2(c)
        PROVE CaptureInv'
    <3>1. UNCHANGED <<wrote, lastCapture, req>> /\ \A r \in Reqs : pc'[r] = pc[r]
      <4>1. \A r \in Reqs : pc'[r] = pc[r]
        BY <2>2, ConnMoves DEF TypeOK
      <4>2. UNCHANGED <<wrote, lastCapture, req>>
        BY <2>2 DEF Accept, ClientLeaves, ReadFrames, HelloFails, StoreHello, WriteHello,
                    Handshake, HandshakeFails, EndServing, StoreH2, serverVars, diskVars
      <4>3. QED
        BY <4>1, <4>2
    <3>2. QED
      BY <3>1 DEF CaptureInv, TypeOK, ServerOK
  <2>3. ASSUME NEW c \in Conns, NEW r \in Reqs, NEW k \in Kinds, StartRequest(c, r, k)
        PROVE CaptureInv'
    <3>1. /\ UNCHANGED <<wrote, lastCapture>> /\ pc[r] = "idle"
          /\ \E next \in FirstStep(k) : Goto(r, next)
      BY <2>3 DEF StartRequest, serverVars, diskVars
    <3>2. \A s \in Reqs : s # r => pc'[s] = pc[s] /\ req'[s] = req[s]
      BY <2>3, StartTypes
    <3>3. lastCapture # None => lastCapture # r /\ lastCapture \in Reqs
      BY <3>1 DEF CaptureInv, TypeOK, ServerOK
    <3>4. pc'[r] # "record"
      <4>1. FirstStep(k) \subseteq {"takeHello", "body", "done"}
        BY KindsType DEF FirstStep, RequestKinds
      <4>2. QED
        BY <3>1, <4>1 DEF Goto, TypeOK, PcOK
    <3>5. QED
      BY <3>1, <3>2, <3>3, <3>4, CaptureStutter
  <2>4. ASSUME NEW g \in Conns \cup Reqs, RawClientFlight(g) \/ KeepFlight(g) \/ WriteFlight(g)
        PROVE CaptureInv'
    <3>1. /\ UNCHANGED <<wrote, lastCapture, req>>
          /\ pc[g] \in {"snap", "lock", "writeFlight"}
      BY <2>4 DEF RawClientFlight, KeepFlight, WriteFlight, serverVars, diskVars
    <3>2. \A s \in Reqs : s # g => pc'[s] = pc[s]
      BY <2>4, PersistTypes
    <3>3. lastCapture # None => lastCapture # g /\ lastCapture \in Reqs
      BY <3>1 DEF CaptureInv, TypeOK, ServerOK
    <3>4. pc'[g] # "record"
      BY <2>4 DEF RawClientFlight, KeepFlight, WriteFlight, Goto, AfterPersist, TypeOK, PcOK
    <3>5. QED
      BY <3>1, <3>2, <3>3, <3>4, CaptureStutter
  <2>5. QED
    BY <2>1, <2>2, <2>3, <2>4, StepCases, CaptureReq
<1>3. TypeOK /\ CaptureInv => CaptureComplete
  BY DEF CaptureInv, CaptureComplete, TypeOK, ServerOK
<1>4. QED
  BY <1>1, <1>2, <1>3, TypeCorrect, PTL DEF Spec

\* A step that neither keeps nor writes a flight leaves those on disk alone.
LEMMA DiskStutter ==
  ASSUME TypeOK, KeptFlightOnDisk, UNCHANGED <<lastH2Raw, h2Files, raw>>,
         \A g \in Conns \cup Reqs : pc[g] = "writeFlight" =>
           pc'[g] = "writeFlight" /\ (g \in Reqs => req'[g].conn = req[g].conn)
  PROVE KeptFlightOnDisk'
<1>1. ASSUME NEW g \in Conns \cup Reqs, pc[g] = "writeFlight"
      PROVE pc'[g] = "writeFlight" /\ ConnOf(g)' = ConnOf(g)
  BY <1>1 DEF ConnOf
<1>2. QED
  BY <1>1 DEF KeptFlightOnDisk

\* What persistH2Raw puts into a file is no longer than what it keeps, and the
\* flight it keeps is the one it is about to write.
LEMMA DiskPersist ==
  ASSUME TypeOK, FlightInv, KeptFlightOnDisk, NEW g \in Conns \cup Reqs,
         RawClientFlight(g) \/ KeepFlight(g) \/ WriteFlight(g)
  PROVE KeptFlightOnDisk'
<1>1. /\ UNCHANGED req /\ \A h \in Conns \cup Reqs : h # g => pc'[h] = pc[h]
      /\ \A h \in Conns \cup Reqs : ConnOf(h)' = ConnOf(h)
  BY PersistTypes DEF ConnOf
<1>2. /\ pc \in [Conns \cup Reqs -> ConnPCs \cup ReqPCs]
      /\ raw \in [Conns \cup Reqs -> 0..MaxFlight]
      /\ lastH2Raw \in Flight /\ h2Files \in Seq(Flight)
      /\ lastH2Raw.len \in 0..MaxFlight
      /\ \A i \in DOMAIN h2Files : h2Files[i].len \in 0..MaxFlight
  <2>1. /\ pc \in [Conns \cup Reqs -> ConnPCs \cup ReqPCs]
        /\ raw \in [Conns \cup Reqs -> 0..MaxFlight]
        /\ lastH2Raw \in Flight /\ h2Files \in Seq(Flight)
    BY DEF TypeOK, PcOK, ConnOK, ServerOK, DiskOK
  <2>2. \A f \in Flight : f.len \in 0..MaxFlight
    BY DEF Flight
  <2>3. \A i \in DOMAIN h2Files : h2Files[i] \in Flight
    BY <2>1, ElementOfSeq
  <2>4. QED
    BY <2>1, <2>2, <2>3
<1> SUFFICES ASSUME HasCaptureDir PROVE KeptFlightOnDisk'
  BY DEF KeptFlightOnDisk
<1>3. CASE RawClientFlight(g)
  <2>1. /\ UNCHANGED <<lastH2Raw, h2Files>> /\ pc[g] = "snap"
        /\ raw' = [raw EXCEPT ![g] = flight[ConnOf(g)]]
    BY <1>3 DEF RawClientFlight, serverVars, diskVars
  <2>2. \A h \in Conns \cup Reqs : h # g => raw'[h] = raw[h]
    BY <1>2, <2>1
  <2>3. QED
    BY <1>1, <2>1, <2>2 DEF KeptFlightOnDisk
<1>4. CASE KeepFlight(g)
  <2>1. pc[g] = "lock" /\ UNCHANGED <<h2Files, raw>>
    BY <1>4 DEF KeepFlight, diskVars
  <2>2. CASE PreferLongest(raw[g], lastH2Raw.len)
    <3>1. /\ lastH2Raw' = [conn |-> ConnOf(g), len |-> raw[g]] /\ pc'[g] = "writeFlight"
          /\ raw[g] >= lastH2Raw.len
      BY <1>2, <1>4, <2>2 DEF KeepFlight, Goto, PreferLongest
    <3>2. \A i \in DOMAIN h2Files : h2Files[i].len <= raw[g]
      BY <1>2, <3>1, BoundsType DEF KeptFlightOnDisk
    <3>3. QED
      BY <1>1, <2>1, <3>1, <3>2 DEF KeptFlightOnDisk
  <2>3. CASE ~PreferLongest(raw[g], lastH2Raw.len)
    <3>1. UNCHANGED lastH2Raw
      BY <1>4, <2>3 DEF KeepFlight
    <3>2. QED
      BY <1>1, <2>1, <3>1 DEF KeptFlightOnDisk
  <2>4. QED
    BY <2>2, <2>3
<1>5. CASE WriteFlight(g)
  <2> DEFINE new == [conn |-> ConnOf(g), len |-> raw[g]]
  <2>1. /\ pc[g] = "writeFlight" /\ UNCHANGED <<lastH2Raw, raw>>
        /\ h2Files' = Append(h2Files, new) \/ (DiskMayFail /\ UNCHANGED h2Files)
    BY <1>5 DEF WriteFlight, serverVars
  <2>2. new.len <= lastH2Raw.len
    BY <1>2, <2>1 DEF FlightInv
  <2>3. CASE h2Files' = Append(h2Files, new)
    <3>1. /\ DOMAIN h2Files' = 1..(Len(h2Files) + 1) /\ DOMAIN h2Files = 1..Len(h2Files)
          /\ Len(h2Files) \in Nat /\ h2Files'[Len(h2Files) + 1] = new
          /\ \A i \in 1..Len(h2Files) : h2Files'[i] = h2Files[i]
      <4> HIDE DEF new
      <4>1. QED
        BY <1>2, <2>3
    <3>2. \A i \in DOMAIN h2Files' : h2Files'[i].len <= lastH2Raw.len
      BY <2>2, <3>1 DEF KeptFlightOnDisk
    <3>3. ASSUME lastH2Raw.len > 0, ~DiskMayFail
          PROVE \/ \E i \in DOMAIN h2Files' : h2Files'[i] = lastH2Raw
                \/ \E h \in Conns \cup Reqs :
                     pc'[h] = "writeFlight" /\ lastH2Raw = [conn |-> ConnOf(h), len |-> raw[h]]
      <4>1. CASE lastH2Raw = new
        BY <3>1, <4>1
      <4>2. CASE \E i \in DOMAIN h2Files : h2Files[i] = lastH2Raw
        BY <3>1, <4>2
      <4>3. CASE \E h \in Conns \cup Reqs :
                   /\ h # g /\ pc[h] = "writeFlight"
                   /\ lastH2Raw = [conn |-> ConnOf(h), len |-> raw[h]]
        BY <1>1, <4>3
      <4>4. QED
        BY <3>3, <4>1, <4>2, <4>3 DEF KeptFlightOnDisk
    <3>4. QED
      BY <1>1, <2>1, <3>2, <3>3 DEF KeptFlightOnDisk
  <2>4. CASE DiskMayFail /\ UNCHANGED h2Files
    BY <2>1, <2>4 DEF KeptFlightOnDisk
  <2>5. QED
    BY <2>1, <2>3, <2>4
<1>6. QED
  BY <1>3, <1>4, <1>5

\* The kept flight is on disk or about to be, and no file holds a longer one,
\* whichever goroutine wrote it.
THEOREM KeptFlightOnDiskHolds == Spec => []KeptFlightOnDisk
<1>1. Init => FlightInv /\ KeptFlightOnDisk
  <2>1. Init => FlightInv
    BY BoundsType DEF Init, FlightInv
  <2>2. Init => h2Files = <<>> /\ lastH2Raw.len = 0
    BY DEF Init
  <2>3. Init => KeptFlightOnDisk
    BY <2>2 DEF KeptFlightOnDisk
  <2>4. QED
    BY <2>1, <2>3
<1>2. TypeOK /\ FlightInv /\ KeptFlightOnDisk /\ [Next]_vars => FlightInv' /\ KeptFlightOnDisk'
  <2> SUFFICES ASSUME TypeOK, FlightInv, KeptFlightOnDisk, [Next]_vars
               PROVE FlightInv' /\ KeptFlightOnDisk'
    OBVIOUS
  <2>1. FlightInv'
    BY FlightStep
  <2>2. CASE UNCHANGED butLate
    BY <2>1, <2>2 DEF KeptFlightOnDisk, ConnOf, butLate, serverVars, diskVars
  <2>3. ASSUME NEW c \in Conns,
               \/ Accept(c) \/ ClientLeaves(c) \/ ReadFrames(c)
               \/ HelloFails(c) \/ StoreHello(c) \/ WriteHello(c)
               \/ Handshake(c) \/ HandshakeFails(c)
               \/ EndServing(c) \/ StoreH2(c)
        PROVE KeptFlightOnDisk'
    <3>1. UNCHANGED <<lastH2Raw, h2Files, raw, req>>
      BY <2>3 DEF Accept, ClientLeaves, ReadFrames, HelloFails, StoreHello, WriteHello,
                  Handshake, HandshakeFails, EndServing, StoreH2, serverVars, diskVars
    <3>2. /\ pc[c] = "writeFlight" => pc'[c] = "writeFlight"
          /\ \A g \in Conns \cup Reqs : g # c => pc'[g] = pc[g]
      <4>1. pc[c] = "writeFlight" => UNCHANGED pc
        BY <2>3 DEF Accept, ClientLeaves, ReadFrames, HelloFails, StoreHello, WriteHello,
                    Handshake, HandshakeFails, EndServing, StoreH2
      <4>2. QED
        BY <2>3, <4>1, ConnMoves DEF TypeOK
    <3>3. QED
      BY <3>1, <3>2, DiskStutter
  <2>4. ASSUME NEW r \in Reqs,
               \/ BodyArrives(r) \/ BodyReadFails(r)
               \/ TakeHello(r) \/ LastClientHello(r) \/ TakeH2(r) \/ LiveH2(r)
               \/ AppendLog(r) \/ WriteCapture(r) \/ RecordCapture(r)
        PROVE KeptFlightOnDisk'
    <3>1. UNCHANGED <<lastH2Raw, h2Files, raw>> /\ pc[r] # "writeFlight"
      BY <2>4 DEF BodyArrives, BodyReadFails,
                  TakeHello, LastClientHello, TakeH2, LiveH2, AppendLog, WriteCapture,
                  RecordCapture, serverVars, diskVars
    <3>2. \A g \in Conns \cup Reqs : g # r => pc'[g] = pc[g]
      BY <2>4, ReqMoves DEF TypeOK
    <3>3. \A s \in Reqs : req'[s].conn = req[s].conn
      BY <2>4, ReqConnKept
    <3>4. QED
      BY <3>1, <3>2, <3>3, DiskStutter
  <2>5. ASSUME NEW c \in Conns, NEW r \in Reqs, NEW k \in Kinds, StartRequest(c, r, k)
        PROVE KeptFlightOnDisk'
    <3>1. UNCHANGED <<lastH2Raw, h2Files, raw>> /\ pc[r] # "writeFlight"
      BY <2>5 DEF StartRequest, serverVars, diskVars
    <3>2. /\ \A g \in Conns \cup Reqs : g # r => pc'[g] = pc[g]
          /\ \A s \in Reqs : s # r => req'[s] = req[s]
      BY <2>5, StartTypes
    <3>3. QED
      BY <3>1, <3>2, DiskStutter
  <2>6. QED
    BY <2>1, <2>2, <2>3, <2>4, <2>5, StepCases, DiskPersist
<1>3. QED
  BY <1>1, <1>2, TypeCorrect, PTL DEF Spec

=============================================================================
