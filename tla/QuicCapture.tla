---------------------------- MODULE QuicCapture ----------------------------
(***************************************************************************)
(* The QUIC side of internal/probe: initialTeeConn copies each client      *)
(* Initial it has not seen to a goroutine of its own, which writes it to   *)
(* CaptureDir and, when its CRYPTO data is only a part of a ClientHello,   *)
(* adds it to the flight accumulated for its DCID until the whole parses.  *)
(*                                                                         *)
(* CRYPTO data is counted in units of four bytes.  Unit 1 is the hello up  *)
(* to its extensions; Ext[u] is the length in units of the extension that  *)
(* starts at unit u, and for a unit inside an extension the length its     *)
(* bytes would have if they were read as one.  What was not received is    *)
(* zero: inside an extension that is as good as any other content, and     *)
(* where one should start it is an empty extension.                        *)
(***************************************************************************)
EXTENDS Integers, Sequences, FiniteSets, FiniteSetsExt, SequencesExt

CONSTANTS
  Initials,     \* the client's Initial datagrams
  Dcid,         \* the connection, by its DCID
  Key,          \* what maybeTee remembers of a datagram: its address and 24 bytes
  First, Final, \* the units of the ClientHello in a datagram; 1 and 0: none
  Ext,          \* the extension at each unit of a ClientHello
  Undecryptable,\* datagrams DecryptInitial fails on
  DiskMayFail   \* os.WriteFile may return an error

Units == DOMAIN Ext

ASSUME InitialsType ==
  /\ DOMAIN Dcid = Initials /\ DOMAIN Key = Initials
  /\ First \in [Initials -> Nat \ {0}] /\ Final \in [Initials -> Nat]
  /\ \A g \in Initials : Final[g] \in Units \cup {0}
ASSUME ExtType == \A u \in Units : u \in Nat \ {0} /\ Ext[u] \in Nat \ {0}
ASSUME FlagsType == Undecryptable \subseteq Initials /\ DiskMayFail \in BOOLEAN

Dcids == {Dcid[g] : g \in Initials}

VARIABLES
  seen,         \* initialTeeConn.seen
  pc,           \* persistQUICInitial, one goroutine per datagram handed over
  pkts, done,   \* quicFlights: what is accumulated for each DCID
  packetFiles,  \* datagrams on disk (.quic.bin)
  flightFiles,  \* flights on disk (.quic-flight.bin), in the order written
  unwritten     \* history: connections of which a file could not be written

vars == <<seen, pc, pkts, done, packetFiles, flightFiles, unwritten>>

TypeOK ==
  /\ seen \subseteq {Key[g] : g \in Initials}
  /\ pc \in [Initials -> {"none", "write", "decrypt", "merge", "returned"}]
  /\ pkts \in [Dcids -> Seq(Initials)]
  /\ done \in [Dcids -> BOOLEAN]
  /\ packetFiles \subseteq Initials
  /\ flightFiles \in Seq(Seq(Initials))
  /\ unwritten \subseteq Dcids
  /\ \A c \in Dcids : \A i \in DOMAIN pkts[c] : Dcid[pkts[c][i]] = c

Init ==
  /\ seen = {}
  /\ pc = [g \in Initials |-> "none"]
  /\ pkts = [c \in Dcids |-> <<>>]
  /\ done = [c \in Dcids |-> FALSE]
  /\ packetFiles = {}
  /\ flightFiles = <<>>
  /\ unwritten = {}

-----------------------------------------------------------------------------
(* gatherCRYPTO and ParseClientHello                                       *)

UnitsOf(gs) == UNION {First[g]..Final[g] : g \in gs}

\* Whether the CRYPTO data of some datagrams parses as a ClientHello: the
\* buffer ends with the last unit received, units not received are zero, and
\* the walk over the extensions may not run past the end.
WalkEnds(gs) ==
  LET has  == UnitsOf(gs)
      end  == Max(has)
      len(u) == IF u \in has THEN Ext[u] ELSE 1
      walk[u \in 2..(end + 1)] ==
        \/ u = end + 1
        \/ u + len(u) <= end + 1 /\ walk[u + len(u)]
  IN 1 \in has /\ walk[2]

Parsing == {gs \in SUBSET Initials : UnitsOf(gs) # {} /\ WalkEnds(gs)}
Parses(gs) == gs \in Parsing

\* DecryptInitial's ClientHello
ParsesAlone(g) == Parses({g})

-----------------------------------------------------------------------------

\* mutant: a datagram is new once its goroutine has returned
NotInProgress(g) == pc[g] \in {"none", "returned"}

NotSeen(g) == Key[g] \notin seen

\* maybeTee: a datagram arrives, again if the client or the network repeats
\* it; a new one gets a goroutine.
Receive(g) ==
  /\ seen' = seen \cup {Key[g]}
  /\ pc' = IF NotSeen(g) THEN [pc EXCEPT ![g] = "write"] ELSE pc
  /\ UNCHANGED <<pkts, done, packetFiles, flightFiles, unwritten>>

\* persistQUICInitial: probe-<nanoseconds>.quic.bin
WritePacket(g) ==
  /\ pc[g] = "write"
  /\ \/ /\ packetFiles' = packetFiles \cup {g}
        /\ pc' = [pc EXCEPT ![g] = "decrypt"]
        /\ UNCHANGED unwritten
     \/ /\ DiskMayFail
        /\ pc' = [pc EXCEPT ![g] = "returned"]
        /\ unwritten' = unwritten \cup {Dcid[g]}
        /\ UNCHANGED packetFiles
  /\ UNCHANGED <<seen, pkts, done, flightFiles>>

\* DecryptInitial: a hello that parses by itself needs no flight.
Decrypt(g) ==
  /\ pc[g] = "decrypt"
  /\ pc' = [pc EXCEPT ![g] =
       IF g \in Undecryptable \/ ParsesAlone(g) THEN "returned" ELSE "merge"]
  /\ UNCHANGED <<seen, pkts, done, packetFiles, flightFiles, unwritten>>

\* mutant: a flight written already goes on
NeverFinished(c) == FALSE

\* acc.done
Finished(c) == done[c]

\* mutant: only the newest datagram is kept
KeepNewest(ps, g) == <<g>>

Accumulate(ps, g) == Append(ps, g)

\* mutant: all connections share a flight
OneFlight(g) == CHOOSE c \in Dcids : TRUE

\* The key of quicFlights.
FlightKey(g) == Dcid[g]

\* probe-<nanoseconds>.quic-flight.bin: the error is not looked at again.
WriteFlight(c, ps) ==
  \/ flightFiles' = Append(flightFiles, ps) /\ UNCHANGED unwritten
  \/ DiskMayFail /\ unwritten' = unwritten \cup {c} /\ UNCHANGED flightFiles

\* The rest of persistQUICInitial, all of it under quicFlightMu.
Merge(g) ==
  LET c == FlightKey(g) IN
  /\ pc[g] = "merge"
  /\ pc' = [pc EXCEPT ![g] = "returned"]
  /\ IF Finished(c) THEN UNCHANGED <<pkts, done, flightFiles, unwritten>>
     ELSE /\ pkts' = [pkts EXCEPT ![c] = Accumulate(@, g)]
          /\ IF Parses(Range(pkts'[c]))
             THEN done' = [done EXCEPT ![c] = TRUE] /\ WriteFlight(c, pkts'[c])
             ELSE UNCHANGED <<done, flightFiles, unwritten>>
  /\ UNCHANGED <<seen, packetFiles>>

Work(g) == WritePacket(g) \/ Decrypt(g) \/ Merge(g)

Next == \E g \in Initials : Receive(g) \/ Work(g)

Spec == Init /\ [][Next]_vars

FairSpec == Spec /\ \A g \in Initials : WF_vars(Work(g))

-----------------------------------------------------------------------------

FlightDcids(f) == {Dcid[g] : g \in Range(f)}

\* A flight is of one connection, holds a datagram once however often it was
\* sent, and parses when it is read back; and a connection has at most one,
\* although its datagrams are worked on in any order, all at once.
FlightsAreSound ==
  /\ \A i \in DOMAIN flightFiles :
       /\ Cardinality(FlightDcids(flightFiles[i])) = 1
       /\ IsInjective(flightFiles[i])
       /\ Parses(Range(flightFiles[i]))
  /\ \A i, j \in DOMAIN flightFiles :
       FlightDcids(flightFiles[i]) = FlightDcids(flightFiles[j]) => i = j

\* A flight is the shortest that parses: the goroutine that completed it
\* wrote it before any other could add to it.
FlightsAreMinimal ==
  \A i \in DOMAIN flightFiles : Len(flightFiles[i]) > 1 =>
    ~Parses(Range(Front(flightFiles[i])))

\* What makes these inductive.  A datagram is handed over once, so that it is
\* added to its connection's flight once, by the goroutine that returns then;
\* the flight of a connection parses as soon as it is done and not before; and
\* what is written is the flight, of which nothing changes afterwards.
HandedOnce ==
  /\ \A g \in Initials : pc[g] # "none" => Key[g] \in seen
  /\ \A c \in Dcids :
       /\ IsInjective(pkts[c])
       /\ \A i \in DOMAIN pkts[c] : pc[pkts[c][i]] = "returned"

Complete(ps) == Parses(Range(ps)) /\ (Len(ps) > 1 => ~Parses(Range(Front(ps))))

Written ==
  /\ \A c \in Dcids : IF done[c] THEN Complete(pkts[c]) ELSE ~Parses(Range(pkts[c]))
  /\ \A i \in DOMAIN flightFiles : \E c \in Dcids : done[c] /\ flightFiles[i] = pkts[c]
  /\ IsInjective(flightFiles)

\* The datagrams of connection c that were handed over and decrypt.
HandedOver(c) == {g \in Initials \ Undecryptable : Dcid[g] = c /\ pc[g] # "none"}

\* A connection whose whole hello was handed over has it on disk in the end,
\* in one datagram or in a flight that parses, unless a write failed: nothing
\* is written a second time.
HelloIsCaptured ==
  \A c \in Dcids :
    UnitsOf(HandedOver(c)) = Units ~>
      \/ \E g \in packetFiles : Dcid[g] = c /\ g \notin Undecryptable /\ ParsesAlone(g)
      \/ \E i \in DOMAIN flightFiles : FlightDcids(flightFiles[i]) = {c}
      \/ c \in unwritten

\* quic_flight.go: "merges CRYPTO frames so fragmented ClientHellos (Firefox)
\* reassemble".  A flight has all of the hello in it.
FlightHoldsWholeHello ==
  \A i \in DOMAIN flightFiles : UnitsOf(Range(flightFiles[i])) = Units
=============================================================================
