----------------------------- MODULE H2Capture -----------------------------
(***************************************************************************)
(* h2wire.CaptureConn: a connection that watches both directions for a     *)
(* client preface and SETTINGS, and keeps the client's first flight.       *)
(*                                                                         *)
(* A direction is a sequence of items, the preface or a frame, and each    *)
(* item has two halves, so that a Read or a Write may end inside one.  A   *)
(* buffer is always the beginning of its direction: its length, in halves, *)
(* says what it holds, and so does the length of the flight kept.          *)
(***************************************************************************)
EXTENDS Integers, Sequences, FiniteSets, SequencesExt

CONSTANTS
  ClientDir,    \* the direction the client speaks: "read" in the probe, "write" in a client
  MaxItems,     \* bound: items of the client's direction
  MaxAnswer,    \* bound: items of the other direction
  MaxUnread     \* bound: items put on a direction ahead of the reader

ASSUME ClientDirType == ClientDir \in {"read", "write"}
ASSUME BoundsType == MaxItems \in Nat \ {0} /\ MaxAnswer \in Nat /\ MaxUnread \in Nat

Dirs == {"read", "write"}
Answers == CHOOSE d \in Dirs : d # ClientDir

\* CONTROL is WINDOW_UPDATE, PRIORITY_UPDATE and whatever the code does not name.
Frames == [type : {"DATA", "SETTINGS", "ACK", "PING", "CONTROL"}, end : {FALSE}]
       \cup [type : {"HEADERS", "CONTINUATION"}, end : BOOLEAN]
Preface == [type |-> "PREFACE", end |-> FALSE]
ServerSettings == [type |-> "SETTINGS", end |-> FALSE]

VARIABLES
  stream,       \* what was put on each direction
  got,          \* halves in writeBuf and readBuf
  obs,          \* which frame the observation was parsed from; 0 is nil
  rawFrom,      \* rawFromWrite, as a direction
  raw           \* the flight kept: a direction and a length in halves

vars == <<stream, got, obs, rawFrom, raw>>

TypeOK ==
  /\ stream \in [Dirs -> Seq(Frames \cup {Preface})]
  /\ got \in [Dirs -> Nat] /\ \A d \in Dirs : got[d] <= 2 * Len(stream[d])
  /\ obs \in 0..MaxItems
  /\ rawFrom \in Dirs
  /\ raw \in [dir : Dirs, len : Nat] /\ raw.len <= got[raw.dir]

Init ==
  /\ stream = [d \in Dirs |-> IF d = ClientDir THEN <<Preface>> ELSE <<>>]
  /\ got = [d \in Dirs |-> 0]
  /\ obs = 0
  /\ rawFrom = "read"
  /\ raw = [dir |-> "read", len |-> 0]

-----------------------------------------------------------------------------
(* The peers.  A header block is not interrupted; nothing else is assumed  *)
(* of the order of frames, which is the http2 server's to enforce.         *)

InBlock(s) == s # <<>> /\ Last(s).type \in {"HEADERS", "CONTINUATION"} /\ ~Last(s).end

Put(d) ==
  /\ Len(stream[d]) < (IF d = ClientDir THEN MaxItems ELSE MaxAnswer)
  /\ 2 * Len(stream[d]) - got[d] < 2 * MaxUnread
  /\ \E f \in IF d = ClientDir THEN Frames ELSE {ServerSettings} :
       /\ (f.type = "CONTINUATION") = InBlock(stream[d])
       /\ stream' = [stream EXCEPT ![d] = Append(@, f)]
  /\ UNCHANGED <<got, obs, rawFrom, raw>>

-----------------------------------------------------------------------------
(* tryCapture                                                              *)

\* The items of a buffer of n halves that are whole.
Whole(s, n) == SubSeq(s, 1, n \div 2)

\* tryParseClientSettings: the first SETTINGS that is no ACK, after a preface.
ClientSettings(items) ==
  LET found == {i \in DOMAIN items : items[i].type = "SETTINGS"} IN
  IF items = <<>> \/ items[1] # Preface \/ found = {} THEN 0
  ELSE CHOOSE i \in found : \A j \in found : i <= j

\* mutants: only the next request, or only a body, ends the flight
EndsAtNextRequest(scan, f) == scan.ended /\ f.type = "HEADERS"
EndsAtBody(scan, f) == scan.ended /\ f.type = "DATA"

\* DATA, or the next request: the flight is over.
EndsFlight(scan, f) == scan.ended /\ f.type \in {"DATA", "HEADERS"}

\* The frames after which the flight may be cut.
Keeps(scan, f) ==
  \/ f.type \in {"DATA", "HEADERS", "SETTINGS", "ACK"}
  \/ f.type = "CONTINUATION" /\ scan.open
  \/ f.type = "CONTROL" /\ scan.saw

\* One turn of truncateThroughControlFlight's loop.
Scan(scan, f) ==
  LET block == f.type = "HEADERS" \/ (f.type = "CONTINUATION" /\ scan.open) IN
  IF scan.over \/ EndsFlight(scan, f) THEN [scan EXCEPT !.over = TRUE]
  ELSE [over  |-> FALSE,
        at    |-> scan.at + 1,
        keep  |-> IF Keeps(scan, f) THEN scan.at + 1 ELSE scan.keep,
        saw   |-> scan.saw \/ f.type \in {"SETTINGS", "ACK", "HEADERS"},
        open  |-> IF block THEN ~f.end ELSE scan.open,
        ended |-> scan.ended \/ (block /\ f.end)]

ScanStart ==
  [over |-> FALSE, at |-> 1, keep |-> 1, saw |-> FALSE, open |-> FALSE, ended |-> FALSE]

\* The loop, after each of the items.
Scans(items) ==
  LET scan[i \in DOMAIN items] == IF i = 1 THEN ScanStart ELSE Scan(scan[i - 1], items[i])
  IN scan

\* How many of the first items the flight keeps.
Kept(items) == Scans(items)[Len(items)].keep

\* mutant: the item after the last one kept is kept too
TruncateAfterNext(s, n) == 2 * Kept(Whole(s, n)) + 2

\* truncateThroughControlFlight: how many halves of the n are kept.
Truncate(s, n) ==
  IF n < 2 \/ Kept(Whole(s, n)) = 1 THEN n ELSE 2 * Kept(Whole(s, n))

\* mutant: every direction refreshes the flight
RefreshAlways(d, from) == TRUE

\* Only the direction that produced the observation refreshes the flight.
Refreshes(d, from) == d = from

\* Read or Write of a chunk of k halves.
Capture(d) ==
  \E k \in 1..(2 * Len(stream[d]) - got[d]) :
    LET n     == got[d] + k
        found == IF obs = 0 THEN ClientSettings(Whole(stream[d], n)) ELSE obs
    IN /\ got' = [got EXCEPT ![d] = n]
       /\ obs' = found
       /\ rawFrom' = IF obs = 0 /\ found # 0 THEN d ELSE rawFrom
       /\ raw' = IF found # 0 /\ Refreshes(d, rawFrom')
                 THEN [dir |-> d, len |-> Truncate(stream[d], n)] ELSE raw
       /\ UNCHANGED stream

Next == \E d \in Dirs : Put(d) \/ Capture(d)

Spec == Init /\ [][Next]_vars

-----------------------------------------------------------------------------

Client == stream[ClientDir]

\* The flight is the client's, and ends at the end of a frame, although it is
\* cut from whatever a Read happened to return, and although the other side
\* may speak first (the comment on HTTP/1.1 error pages).
FlightIsClients ==
  raw.len > 0 => raw.dir = ClientDir /\ raw.len % 2 = 0 /\ obs # 0

\* Where the first header block ends, and where the flight does.
BlockEnds == {i \in 2..(got[ClientDir] \div 2) : Client[i].end}
Stops == {i \in 2..(got[ClientDir] \div 2) :
            Client[i].type \in {"DATA", "HEADERS"} /\ \E j \in BlockEnds : j < i}
InFlight == {i \in 2..(got[ClientDir] \div 2) : \A j \in Stops : i < j}

\* The flight holds all that was received up to the first request's body or
\* the next request, except for a PING it would end with, however the bytes
\* were chopped up: the PRIORITY_UPDATE after the headers, which carries the
\* Akamai fingerprint's third field, is in it.
FlightIsComplete ==
  obs # 0 =>
    LET last == raw.len \div 2 IN
    /\ \A i \in InFlight : Client[i].type # "PING" => i <= last
    /\ \A i \in Stops : last < i
    /\ Client[last].type # "PING"

\* The flight holds at most one request's header block, so that its HPACK
\* state is that of a new connection.
OneHeaderBlock ==
  Cardinality({i \in 2..(raw.len \div 2) : raw.dir = ClientDir /\ Client[i].type = "HEADERS"}) <= 1

\* What makes these inductive: headers are followed by their continuations and
\* nothing else is, only the client's direction begins with a preface, and the
\* flight is what truncateThroughControlFlight keeps of all that was received.
Framed(s) ==
  /\ s # <<>> /\ s[1] = Preface
  /\ \A i \in 2..Len(s) :
       s[i] \in Frames /\ (s[i].type = "CONTINUATION") = InBlock(SubSeq(s, 1, i - 1))

CaptureInv ==
  /\ Framed(Client) /\ Len(Client) <= MaxItems
  /\ \A i \in DOMAIN stream[Answers] : stream[Answers][i] = ServerSettings
  /\ obs = ClientSettings(Whole(Client, got[ClientDir]))
  /\ IF obs = 0 THEN raw.len = 0
     ELSE rawFrom = ClientDir /\
          raw = [dir |-> ClientDir, len |-> 2 * Kept(Whole(Client, got[ClientDir]))]

\* The flight and the observation never shrink or change: persistH2Raw reads
\* the flight several times while frames keep coming, and each time it is an
\* extension of the time before.  The observation is the first SETTINGS.
FlightOnlyGrows ==
  [][/\ raw.len > 0 => raw'.dir = raw.dir
     /\ raw'.len >= raw.len
     /\ obs # 0 => obs' = obs
     /\ raw.len > 0 /\ Stops # {} => raw' = raw]_vars
=============================================================================
