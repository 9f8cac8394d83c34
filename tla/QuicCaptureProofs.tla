------------------------- MODULE QuicCaptureProofs -------------------------
(***************************************************************************)
(* QuicCapture for all datagrams, all connections and every way their      *)
(* CRYPTO data may or may not parse.                                       *)
(***************************************************************************)
EXTENDS QuicCapture, SequenceTheorems, FiniteSetTheorems, TLAPS

-----------------------------------------------------------------------------
(* Flights as sequences                                                    *)

\* Without its last datagram, a flight is what it was.
LEMMA FrontAppend ==
  ASSUME NEW S, NEW ps \in Seq(S), NEW g \in S
  PROVE  Front(Append(ps, g)) = ps
<1>1. /\ Append(ps, g) \in Seq(S) /\ Len(Append(ps, g)) = Len(ps) + 1 /\ Len(ps) \in Nat
      /\ \A i \in 1..Len(ps) : Append(ps, g)[i] = ps[i] /\ Append(ps, g)[i] \in S
  BY AppendProperties, LenProperties, ElementOfSeq
<1>2. /\ Front(Append(ps, g)) \in Seq(S) /\ Len(Front(Append(ps, g))) = Len(ps)
      /\ \A i \in 1..Len(ps) : Front(Append(ps, g))[i] = ps[i]
  <2>1. Front(Append(ps, g)) = SubSeq(Append(ps, g), 1, Len(ps))
    BY <1>1 DEF Front
  <2>2. /\ SubSeq(Append(ps, g), 1, Len(ps)) \in Seq(S)
        /\ Len(SubSeq(Append(ps, g), 1, Len(ps))) = Len(ps)
        /\ \A i \in 1..Len(ps) : SubSeq(Append(ps, g), 1, Len(ps))[i] = Append(ps, g)[i]
    BY <1>1
  <2> QED BY <1>1, <2>1, <2>2
<1> QED BY <1>1, <1>2, SeqEqual

\* A sequence with an element more.
LEMMA AppendParts ==
  ASSUME NEW S, NEW s \in Seq(S), NEW e \in S
  PROVE  /\ DOMAIN Append(s, e) = 1..(Len(s) + 1) /\ DOMAIN s = 1..Len(s) /\ Len(s) \in Nat
         /\ Append(s, e)[Len(s) + 1] = e
         /\ \A i \in 1..Len(s) : Append(s, e)[i] = s[i]
BY AppendProperties, LenProperties

\* A datagram that is not in a flight can be added to it.
LEMMA InjectiveAppend ==
  ASSUME NEW S, NEW ps \in Seq(S), NEW g \in S, IsInjective(ps), \A i \in DOMAIN ps : ps[i] # g
  PROVE  IsInjective(Append(ps, g))
BY AppendParts DEF IsInjective

\* No data is no hello.
LEMMA NothingParses == ~Parses(Range(<<>>))
<1>1. Range(<<>>) = {}
  BY DEF Range
<1>2. UnitsOf({}) = {}
  BY DEF UnitsOf
<1> QED BY <1>1, <1>2 DEF Parses, Parsing

-----------------------------------------------------------------------------
(* Types                                                                   *)

\* What TypeOK says of the variables that hold sequences.
LEMMA SequenceTypes ==
  ASSUME TypeOK
  PROVE  /\ flightFiles \in Seq(Seq(Initials))
         /\ \A c \in Dcids : pkts[c] \in Seq(Initials)
BY Zenon DEF TypeOK

\* A datagram belongs to one of the connections.
LEMMA DcidType == ASSUME NEW g \in Initials PROVE Dcid[g] \in Dcids
BY DEF Dcids

\* No datagram, no flight.
LEMMA QuicInit == Init => TypeOK /\ HandedOnce /\ Written
<1> SUFFICES ASSUME Init PROVE TypeOK /\ HandedOnce /\ Written
  OBVIOUS
<1>1. <<>> \in Seq(Initials) /\ <<>> \in Seq(Seq(Initials)) /\ DOMAIN <<>> = {}
  BY EmptySeq
<1>2. \A c \in Dcids : pkts[c] = <<>> /\ ~done[c]
  BY DEF Init
<1>3. flightFiles = <<>>
  BY DEF Init
<1>4. TypeOK
  <2>1. flightFiles \in Seq(Seq(Initials))
    BY <1>1, <1>3, Zenon
  <2>2. /\ pkts \in [Dcids -> Seq(Initials)]
        /\ \A c \in Dcids : \A i \in DOMAIN pkts[c] : Dcid[pkts[c][i]] = c
    BY <1>1, <1>2 DEF Init
  <2>3. /\ seen \subseteq {Key[g] : g \in Initials} /\ done \in [Dcids -> BOOLEAN]
        /\ pc \in [Initials -> {"none", "write", "decrypt", "merge", "returned"}]
        /\ packetFiles \subseteq Initials /\ unwritten \subseteq Dcids
    BY DEF Init
  <2> QED BY <2>1, <2>2, <2>3, Zenon DEF TypeOK
<1>5. HandedOnce
  BY <1>1, <1>2 DEF Init, HandedOnce, IsInjective
<1>6. Written
  BY <1>1, <1>2, <1>3, NothingParses DEF Written, IsInjective
<1> QED BY <1>4, <1>5, <1>6

-----------------------------------------------------------------------------
(* The steps of one goroutine                                              *)

\* Everything but the merge leaves the flights alone.
LEMMA BeforeMerge ==
  ASSUME TypeOK, HandedOnce, Written, NEW g \in Initials,
         Receive(g) \/ WritePacket(g) \/ Decrypt(g)
  PROVE  TypeOK' /\ HandedOnce' /\ Written'
<1>1. UNCHANGED <<pkts, done, flightFiles>>
  BY DEF Receive, WritePacket, Decrypt
<1>2. /\ seen \subseteq {Key[h] : h \in Initials} /\ packetFiles \subseteq Initials
      /\ pc \in [Initials -> {"none", "write", "decrypt", "merge", "returned"}]
      /\ unwritten \subseteq Dcids
  BY Zenon DEF TypeOK
<1>3. /\ seen' \subseteq {Key[h] : h \in Initials} /\ packetFiles' \subseteq Initials
      /\ pc' \in [Initials -> {"none", "write", "decrypt", "merge", "returned"}]
      /\ unwritten' \subseteq Dcids
  BY <1>2, DcidType DEF Receive, WritePacket, Decrypt
<1>4. TypeOK'
  BY <1>1, <1>3, Zenon DEF TypeOK
<1>5. /\ \A h \in Initials : pc'[h] # "none" => Key[h] \in seen'
      /\ \A h \in Initials : pc[h] = "returned" => pc'[h] = "returned"
  BY <1>2 DEF Receive, WritePacket, Decrypt, NotSeen, HandedOnce
<1>6. \A c \in Dcids : \A i \in DOMAIN pkts[c] : pkts[c][i] \in Initials
  BY SequenceTypes, ElementOfSeq, LenProperties
<1>7. HandedOnce'
  BY <1>1, <1>5, <1>6 DEF HandedOnce
<1>8. Written'
  BY <1>1 DEF Written
<1> QED BY <1>4, <1>7, <1>8

\* What the merge of a datagram does to the flight of its connection.
LEMMA MergeSteps ==
  ASSUME TypeOK, NEW g \in Initials, Merge(g)
  PROVE  /\ pc[g] = "merge" /\ pc' = [pc EXCEPT ![g] = "returned"] /\ UNCHANGED <<seen, packetFiles>>
         /\ \/ done[Dcid[g]] /\ UNCHANGED <<pkts, done, flightFiles, unwritten>>
            \/ /\ ~done[Dcid[g]]
               /\ pkts' = [pkts EXCEPT ![Dcid[g]] = Append(pkts[Dcid[g]], g)]
               /\ \/ /\ Parses(Range(Append(pkts[Dcid[g]], g)))
                     /\ done' = [done EXCEPT ![Dcid[g]] = TRUE]
                     /\ \/ /\ flightFiles' = Append(flightFiles, Append(pkts[Dcid[g]], g))
                           /\ UNCHANGED unwritten
                        \/ UNCHANGED flightFiles /\ unwritten' = unwritten \cup {Dcid[g]}
                  \/ /\ ~Parses(Range(Append(pkts[Dcid[g]], g)))
                     /\ UNCHANGED <<done, flightFiles, unwritten>>
<1>1. pkts \in [Dcids -> Seq(Initials)]
  BY Zenon DEF TypeOK
<1>2. pkts' = [pkts EXCEPT ![Dcid[g]] = Append(pkts[Dcid[g]], g)] =>
        pkts'[Dcid[g]] = Append(pkts[Dcid[g]], g)
  BY <1>1, DcidType
<1> QED BY <1>2 DEF Merge, Finished, FlightKey, Accumulate, WriteFlight

\* The merge keeps the types.
LEMMA MergeType ==
  ASSUME TypeOK, NEW g \in Initials, Merge(g)
  PROVE  TypeOK'
<1> DEFINE c == Dcid[g]
           flight == Append(pkts[c], g)
<1>1. /\ c \in Dcids /\ pkts[c] \in Seq(Initials) /\ flightFiles \in Seq(Seq(Initials))
      /\ flight \in Seq(Initials)
  BY DcidType, SequenceTypes, AppendProperties, Zenon
<1>2. /\ seen \subseteq {Key[h] : h \in Initials} /\ packetFiles \subseteq Initials
      /\ pc \in [Initials -> {"none", "write", "decrypt", "merge", "returned"}]
      /\ unwritten \subseteq Dcids
      /\ pkts \in [Dcids -> Seq(Initials)] /\ done \in [Dcids -> BOOLEAN]
      /\ \A d \in Dcids : \A i \in DOMAIN pkts[d] : Dcid[pkts[d][i]] = d
  BY Zenon DEF TypeOK
<1>3. Append(flightFiles, flight) \in Seq(Seq(Initials))
  BY <1>1, AppendProperties, Zenon
<1>4. \A i \in DOMAIN flight : Dcid[flight[i]] = c
  <2>1. /\ DOMAIN flight = 1..(Len(pkts[c]) + 1) /\ DOMAIN pkts[c] = 1..Len(pkts[c])
        /\ Len(pkts[c]) \in Nat /\ flight[Len(pkts[c]) + 1] = g
        /\ \A i \in 1..Len(pkts[c]) : flight[i] = pkts[c][i]
    BY <1>1, AppendProperties, LenProperties
  <2> QED BY <1>1, <1>2, <2>1
<1> HIDE DEF flight, c
<1>5. /\ pkts' \in [Dcids -> Seq(Initials)] /\ done' \in [Dcids -> BOOLEAN]
      /\ \A d \in Dcids : \A i \in DOMAIN pkts'[d] : Dcid[pkts'[d][i]] = d
      /\ pc' \in [Initials -> {"none", "write", "decrypt", "merge", "returned"}]
      /\ unwritten' \subseteq Dcids
  <2>1. /\ pc' = [pc EXCEPT ![g] = "returned"]
        /\ pkts' = pkts \/ pkts' = [pkts EXCEPT ![c] = flight]
        /\ done' = done \/ done' = [done EXCEPT ![c] = TRUE]
        /\ unwritten' = unwritten \/ unwritten' = unwritten \cup {c}
    BY MergeSteps DEF flight, c
  <2>2. ASSUME NEW d \in Dcids
        PROVE  \A i \in DOMAIN pkts'[d] : Dcid[pkts'[d][i]] = d
    <3>1. pkts'[d] = pkts[d] \/ (d = c /\ pkts'[d] = flight)
      BY <1>2, <2>1
    <3> QED BY <1>2, <1>4, <3>1
  <2>3. pkts' \in [Dcids -> Seq(Initials)]
    BY <1>1, <1>2, <2>1
  <2>4. /\ done' \in [Dcids -> BOOLEAN] /\ unwritten' \subseteq Dcids
        /\ pc' \in [Initials -> {"none", "write", "decrypt", "merge", "returned"}]
    BY <1>1, <1>2, <2>1
  <2> QED BY <2>2, <2>3, <2>4
<1>6. flightFiles' \in Seq(Seq(Initials))
  <2>1. flightFiles' = flightFiles \/ flightFiles' = Append(flightFiles, flight)
    BY MergeSteps DEF flight, c
  <2> QED BY <1>1, <1>3, <2>1, Zenon
<1>7. seen' \subseteq {Key[h] : h \in Initials} /\ packetFiles' \subseteq Initials
  BY <1>2, MergeSteps
<1> QED BY <1>5, <1>6, <1>7, Zenon DEF TypeOK

\* The merge adds a datagram that is in no flight yet.
LEMMA MergeOnce ==
  ASSUME TypeOK, HandedOnce, NEW g \in Initials, Merge(g)
  PROVE  HandedOnce'
<1> DEFINE c == Dcid[g]
           flight == Append(pkts[c], g)
<1>1. /\ c \in Dcids /\ pkts[c] \in Seq(Initials) /\ pkts \in [Dcids -> Seq(Initials)]
      /\ pc \in [Initials -> {"none", "write", "decrypt", "merge", "returned"}]
  BY DcidType, SequenceTypes, Zenon DEF TypeOK
<1>2. /\ pc[g] = "merge" /\ pc' = [pc EXCEPT ![g] = "returned"] /\ seen' = seen
      /\ pkts' = pkts \/ pkts' = [pkts EXCEPT ![c] = flight]
  BY MergeSteps
<1>3. \A i \in DOMAIN pkts[c] : pkts[c][i] # g /\ pc[pkts[c][i]] = "returned"
  BY <1>1, <1>2 DEF HandedOnce
<1>4. IsInjective(flight)
  BY <1>1, <1>3, InjectiveAppend DEF HandedOnce
<1>5. \A d \in Dcids : \A i \in DOMAIN pkts[d] : pkts[d][i] \in Initials
  BY SequenceTypes, ElementOfSeq, LenProperties
<1>6. \A h \in Initials : pc[h] = "returned" \/ h = g => pc'[h] = "returned"
  BY <1>1, <1>2
<1>7. \A i \in DOMAIN flight : pc'[flight[i]] = "returned"
  <2>1. /\ DOMAIN flight = 1..(Len(pkts[c]) + 1) /\ DOMAIN pkts[c] = 1..Len(pkts[c])
        /\ Len(pkts[c]) \in Nat /\ flight[Len(pkts[c]) + 1] = g
        /\ \A i \in 1..Len(pkts[c]) : flight[i] = pkts[c][i]
    BY <1>1, AppendProperties, LenProperties
  <2> QED BY <1>1, <1>3, <1>5, <1>6, <2>1
<1> HIDE DEF flight, c
<1>8. \A d \in Dcids : /\ IsInjective(pkts'[d])
                       /\ \A i \in DOMAIN pkts'[d] : pc'[pkts'[d][i]] = "returned"
  BY <1>1, <1>2, <1>4, <1>5, <1>6, <1>7 DEF HandedOnce
<1>9. \A h \in Initials : pc'[h] # "none" => Key[h] \in seen'
  BY <1>1, <1>2 DEF HandedOnce
<1> QED BY <1>8, <1>9 DEF HandedOnce

\* The goroutine that completes a flight is the one that writes it.
LEMMA MergeWritten ==
  ASSUME TypeOK, HandedOnce, Written, NEW g \in Initials, Merge(g)
  PROVE  Written'
<1> DEFINE c == Dcid[g]
           flight == Append(pkts[c], g)
<1>1. /\ c \in Dcids /\ pkts[c] \in Seq(Initials) /\ pkts \in [Dcids -> Seq(Initials)]
      /\ done \in [Dcids -> BOOLEAN] /\ flightFiles \in Seq(Seq(Initials))
      /\ \A d \in Dcids : \A i \in DOMAIN pkts[d] : Dcid[pkts[d][i]] = d
  BY DcidType, SequenceTypes, Zenon DEF TypeOK
<1>2. CASE done[c] /\ UNCHANGED <<pkts, done, flightFiles>>
  BY <1>2 DEF Written
<1>3. CASE /\ ~done[c] /\ pkts' = [pkts EXCEPT ![c] = flight]
           /\ UNCHANGED <<done, flightFiles>> /\ ~Parses(Range(flight))
  <2> HIDE DEF flight, c
  <2>1. \A d \in Dcids : d # c => pkts'[d] = pkts[d]
    BY <1>1, <1>3
  <2>2. pkts'[c] = flight
    BY <1>1, <1>3
  <2> QED BY <1>1, <1>3, <2>1, <2>2 DEF Written
<1>4. CASE /\ ~done[c] /\ pkts' = [pkts EXCEPT ![c] = flight]
           /\ done' = [done EXCEPT ![c] = TRUE] /\ Parses(Range(flight))
           /\ flightFiles' = Append(flightFiles, flight) \/ UNCHANGED flightFiles
  <2>1. Complete(flight)
    BY <1>1, <1>4, FrontAppend DEF Complete, Written
  <2>2. flight[Len(flight)] = g /\ Len(flight) \in DOMAIN flight /\ flight \in Seq(Initials)
    BY <1>1, AppendProperties, LenProperties
  <2>3. ASSUME NEW d \in Dcids, d # c PROVE pkts[d] # flight
    BY <1>1, <2>2, <2>3
  <2> HIDE DEF flight, c
  <2>4. /\ \A d \in Dcids : d # c => pkts'[d] = pkts[d] /\ done'[d] = done[d]
        /\ pkts'[c] = flight /\ done'[c]
    BY <1>1, <1>4
  <2>5. \A d \in Dcids : IF done'[d] THEN Complete(pkts'[d]) ELSE ~Parses(Range(pkts'[d]))
    BY <2>1, <2>4 DEF Written
  <2>6. \A i \in DOMAIN flightFiles :
          flightFiles[i] # flight /\ \E d \in Dcids : done'[d] /\ flightFiles[i] = pkts'[d]
    <3> SUFFICES ASSUME NEW i \in DOMAIN flightFiles
                 PROVE flightFiles[i] # flight /\ \E d \in Dcids : done'[d] /\ flightFiles[i] = pkts'[d]
      OBVIOUS
    <3>1. PICK d \in Dcids : done[d] /\ flightFiles[i] = pkts[d]
      BY DEF Written
    <3> QED BY <1>4, <2>3, <2>4, <3>1
  <2>7. CASE UNCHANGED flightFiles
    BY <2>5, <2>6, <2>7 DEF Written
  <2>8. CASE flightFiles' = Append(flightFiles, flight)
    <3>1. /\ DOMAIN flightFiles' = 1..(Len(flightFiles) + 1)
          /\ DOMAIN flightFiles = 1..Len(flightFiles) /\ Len(flightFiles) \in Nat
          /\ flightFiles'[Len(flightFiles) + 1] = flight
          /\ \A i \in 1..Len(flightFiles) : flightFiles'[i] = flightFiles[i]
      <4>1. flight \in Seq(Initials) /\ flightFiles \in Seq(Seq(Initials))
        BY <1>1, <2>2, Zenon
      <4>2. /\ DOMAIN Append(flightFiles, flight) = 1..(Len(flightFiles) + 1)
            /\ DOMAIN flightFiles = 1..Len(flightFiles) /\ Len(flightFiles) \in Nat
            /\ Append(flightFiles, flight)[Len(flightFiles) + 1] = flight
            /\ \A j \in 1..Len(flightFiles) : Append(flightFiles, flight)[j] = flightFiles[j]
        <5> DEFINE S == Seq(Initials)
        <5>1. flight \in S /\ flightFiles \in Seq(S)
          BY <4>1
        <5> HIDE DEF S
        <5> QED BY <5>1, AppendParts
      <4> QED BY <2>8, <4>2, Zenon
    <3>2. \A i \in DOMAIN flightFiles' : \E d \in Dcids : done'[d] /\ flightFiles'[i] = pkts'[d]
      BY <1>1, <2>4, <2>6, <3>1
    <3>3. IsInjective(flightFiles')
      BY <1>1, <2>2, <2>6, <2>8, InjectiveAppend, Zenon DEF Written
    <3> QED BY <2>5, <3>2, <3>3 DEF Written
  <2> QED BY <1>4, <2>7, <2>8
<1> QED BY <1>2, <1>3, <1>4, MergeSteps

\* Every step keeps the types and both strengthenings.
LEMMA QuicStep ==
  TypeOK /\ HandedOnce /\ Written /\ [Next]_vars => TypeOK' /\ HandedOnce' /\ Written'
<1> SUFFICES ASSUME TypeOK, HandedOnce, Written, [Next]_vars
             PROVE  TypeOK' /\ HandedOnce' /\ Written'
  OBVIOUS
<1>1. CASE UNCHANGED vars
  <2>1. TypeOK'
    BY <1>1, Zenon DEF TypeOK, vars
  <2> QED BY <1>1, <2>1 DEF vars, HandedOnce, Written
<1> QED BY <1>1, BeforeMerge, MergeType, MergeOnce, MergeWritten DEF Next, Work

\* The inductive invariant.
LEMMA QuicInvariant == Spec => [](TypeOK /\ HandedOnce /\ Written)
BY QuicInit, QuicStep, PTL DEF Spec

\* Every variable keeps its type, and what is accumulated for a DCID carries it.
THEOREM QuicTypeCorrect == Spec => []TypeOK
BY QuicInvariant, PTL

\* The connections of a flight that is complete: there is one.
LEMMA FlightIsOfOne ==
  ASSUME TypeOK, Written, NEW c \in Dcids, done[c]
  PROVE  FlightDcids(pkts[c]) = {c}
<1>1. pkts[c] \in Seq(Initials) /\ \A i \in DOMAIN pkts[c] : Dcid[pkts[c][i]] = c
  BY SequenceTypes, Zenon DEF TypeOK
<1>2. pkts[c] # <<>>
  BY NothingParses DEF Written, Complete
<1>3. 1 \in DOMAIN pkts[c]
  BY <1>1, <1>2, EmptySeq, LenProperties
<1> QED BY <1>1, <1>3 DEF FlightDcids, Range

\* A flight on disk is of one connection, holds each datagram once and parses,
\* and no connection has two, in whatever order the datagrams arrive, however
\* often, and whichever goroutine gets the lock first.
THEOREM FlightsAreSoundHolds == Spec => []FlightsAreSound
<1>1. TypeOK /\ HandedOnce /\ Written => FlightsAreSound
  <2> SUFFICES ASSUME TypeOK, HandedOnce, Written PROVE FlightsAreSound
    OBVIOUS
  <2>1. \A i \in DOMAIN flightFiles : \E c \in Dcids :
          flightFiles[i] = pkts[c] /\ done[c] /\ FlightDcids(flightFiles[i]) = {c}
    BY FlightIsOfOne DEF Written
  <2>2. ASSUME NEW i \in DOMAIN flightFiles
        PROVE  /\ Cardinality(FlightDcids(flightFiles[i])) = 1
               /\ IsInjective(flightFiles[i])
               /\ Parses(Range(flightFiles[i]))
    <3>1. PICK c \in Dcids :
            flightFiles[i] = pkts[c] /\ done[c] /\ FlightDcids(flightFiles[i]) = {c}
      BY <2>1
    <3>2. Cardinality(FlightDcids(flightFiles[i])) = 1
      BY <3>1, FS_Singleton
    <3>3. IsInjective(flightFiles[i])
      BY <3>1 DEF HandedOnce
    <3>4. Parses(Range(flightFiles[i]))
      BY <3>1 DEF Written, Complete
    <3> QED BY <3>2, <3>3, <3>4
  <2>3. ASSUME NEW i \in DOMAIN flightFiles, NEW j \in DOMAIN flightFiles,
               FlightDcids(flightFiles[i]) = FlightDcids(flightFiles[j])
        PROVE  i = j
    <3>1. PICK c \in Dcids : flightFiles[i] = pkts[c] /\ FlightDcids(flightFiles[i]) = {c}
      BY <2>1
    <3>2. PICK d \in Dcids : flightFiles[j] = pkts[d] /\ FlightDcids(flightFiles[j]) = {d}
      BY <2>1
    <3>3. c = d
      BY <2>3, <3>1, <3>2
    <3> QED BY <3>1, <3>2, <3>3 DEF Written, IsInjective
  <2> QED BY <2>2, <2>3 DEF FlightsAreSound
<1> QED BY <1>1, QuicInvariant, PTL

\* A flight is written as soon as it parses: without its last datagram it did not.
THEOREM FlightsAreMinimalHolds == Spec => []FlightsAreMinimal
<1>1. Written => FlightsAreMinimal
  BY DEF Written, Complete, FlightsAreMinimal
<1> QED BY <1>1, QuicInvariant, PTL
=============================================================================
