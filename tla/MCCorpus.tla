------------------------------ MODULE MCCorpus ------------------------------
(* The live captures under src/internal/dissect/testdata as the dissectors'  *)
(* wire records, with the data that no comparison reads left out.            *)
EXTENDS Integers, Sequences, FiniteSets, SequencesExt

LiveFamilies == {"chrome", "edge", "firefox"}
Gecko(f) == f = "firefox"

-----------------------------------------------------------------------------
(* ClientHellos                                                            *)

ExtTypes == [
  chrome  |-> <<\h1a1a, \h2d, \h17, \hff01, \h10, \hd, \ha, \hfe0d, \h2b, \h44cd, \h5, \hb,
                \hca34, \h12, \h1b, \h0, \h33, \h23, \h9a9a, \h29>>,
  edge    |-> <<\h1a1a, \hff01, \h0, \h10, \h17, \hb, \h33, \h2b, \hfe0d, \h5, \h44cd, \hd,
                \h12, \h23, \h1b, \h2d, \ha, \h7a7a>>,
  firefox |-> <<\h0, \h17, \hff01, \ha, \hb, \h23, \h10, \h5, \h22, \h12, \h33, \h2b, \hd,
                \h2d, \h1c, \h1b, \hfe0d>>]

\* A visit of the same browser: other GREASE values, and an order of its own
\* where the browser permutes.
OtherGREASE(t) == IF t = \h1a1a THEN \h4a4a ELSE IF t \in {\h9a9a, \h7a7a} THEN \hbaba ELSE t
VisitTypes == [
  chrome  |-> [i \in 1..20 |-> OtherGREASE(ExtTypes.chrome[IF i \in 2..18 THEN 20 - i ELSE i])],
  edge    |-> [i \in 1..18 |-> OtherGREASE(ExtTypes.edge[IF i \in 2..17 THEN 19 - i ELSE i])],
  firefox |-> ExtTypes.firefox]

Ext(f, t) ==
  [type |-> t,
   data |-> CASE t = \h10 -> <<"h2", "http/1.1">>
              [] t = \h2b -> IF Gecko(f) THEN <<772, 771>> ELSE <<\h3a3a, 772, 771>>
              [] t = \ha  -> IF Gecko(f) THEN <<4588, 29, 23, 24, 25>> ELSE <<\h6a6a, 4588, 29, 23, 24>>
              [] t = \hb  -> <<0>>
              [] t = \hd  -> IF Gecko(f) THEN <<1027, 1283, 1539, 2052>> ELSE <<1027, 2052, 1025>>
              [] OTHER    -> <<>>]

HelloOf(f, types) ==
  [handshake |-> 1, version |-> 771, recordVersion |-> 769, quic |-> FALSE, sessionID |-> 32,
   ciphers |-> IF Gecko(f) THEN <<4865, 4867, 4866, 49195>> ELSE <<\h5a5a, 4865, 4866, 4867>>,
   exts |-> [i \in DOMAIN types |-> Ext(f, types[i])], cut |-> "none"]

-----------------------------------------------------------------------------
(* HTTP/2 flights                                                          *)

H2Frame(type, stream, plen) ==
  [type |-> type, flags |-> {}, stream |-> stream, plen |-> plen, pad |-> 0, block |-> <<>>,
   settings |-> <<>>, increment |-> 0, value |-> "", prioritized |-> 0]

H2SettingsFrame(f) ==
  [H2Frame("SETTINGS", 0, 24) EXCEPT !.settings =
     IF Gecko(f) THEN <<<<1, 65536>>, <<2, 0>>, <<4, 131072>>, <<5, 16384>>>>
     ELSE <<<<1, 65536>>, <<2, 0>>, <<4, 6291456>>, <<6, 262144>>>>]

H2Window(f) ==
  [H2Frame("WINDOW_UPDATE", 0, 4) EXCEPT !.increment = IF Gecko(f) THEN 12517377 ELSE 15663105]

RepOf(letter) ==
  CASE letter = "m" -> [rep |-> "indexed", idx |-> 2]
    [] letter = "a" -> [rep |-> "incremental", idx |-> 1, name |-> "", value |-> "host", len |-> 24]
    [] letter = "s" -> [rep |-> "indexed", idx |-> 7]
    [] letter = "p" -> [rep |-> "literal", idx |-> 4, name |-> "", value |-> "/probe", len |-> 11]

PriorityRep == [rep |-> "incremental", idx |-> 0, name |-> "priority", value |-> "u=0, i", len |-> 14]

H2Order(f) == IF Gecko(f) THEN <<"m", "p", "a", "s">> ELSE <<"m", "a", "s", "p">>

H2Request(f) ==
  [H2Frame("HEADERS", IF Gecko(f) THEN 3 ELSE 1, 60) EXCEPT
     !.flags = {"PRIORITY", "END_HEADERS", "END_STREAM"},
     !.block = [i \in 1..4 |-> RepOf(H2Order(f)[i])] \o <<PriorityRep>>]

H2Flight(f) ==
  [preface |-> TRUE, frames |-> <<H2SettingsFrame(f), H2Window(f), H2Request(f)>>, cut |-> "none"]

H2Preface(f) ==
  [preface |-> TRUE, frames |-> <<H2SettingsFrame(f)>>, cut |-> "header"]

-----------------------------------------------------------------------------
(* HTTP/3 control streams                                                  *)

H3Frame(type, plen) ==
  [type |-> type, plen |-> plen, settings |-> <<>>, id |-> 0, value |-> "",
   section |-> [ric |-> 0, lines |-> <<>>]]

H3SettingsFrame(f) ==
  [H3Frame(4, 20) EXCEPT !.settings =
     IF Gecko(f) THEN <<<<1, 65536>>, <<7, 20>>, <<\h2b603742, 1>>, <<\hffd277, 1>>, <<\h33, 1>>, <<8, 1>>>>
     ELSE <<<<1, 65536>>, <<6, 262144>>, <<7, 100>>, <<\h33, 1>>, <<33 + 31 * 7, 5>>>>]

H3GreaseFrame == H3Frame(33 + 31 * 9, 3)
H3Update(id) == [H3Frame(\hF0700, 7) EXCEPT !.id = id, !.value = "u=0, i"]

H3Control(f) ==
  CASE f = "chrome"  -> <<H3SettingsFrame(f), H3GreaseFrame, H3Update(0)>>
    [] f = "edge"    -> <<H3SettingsFrame(f), H3GreaseFrame, H3Update(0), H3Update(4)>>
    [] f = "firefox" -> <<H3SettingsFrame(f), H3GreaseFrame>>

-----------------------------------------------------------------------------
(* QUIC Initials                                                           *)

TPIds == [
  chrome  |-> <<\h3128, 8, 5, 4, 3, 6, 9, 7, 1, \h20, \h11, \hf, 27 + 31 * 4>>,
  edge    |-> <<3, \h20, 4, \h11, 5, \h3128, 1, 27 + 31 * 6, 7, 8, 6, \hf, 9>>,
  firefox |-> <<1, 4, 5, 6, 7, 8, 9, \hb, \he, \hf, 27 + 31 * 2, \h11, \h1d, \h20>>]

TPOf(f) ==
  [i \in DOMAIN TPIds[f] |->
    [id |-> TPIds[f][i], value |-> IF TPIds[f][i] = 4 THEN IF Gecko(f) THEN 25165824 ELSE 15728640 ELSE 0]]

HelloPieces == {1, 2}

Initial(f, pieces) ==
  [dcid |-> f, decrypts |-> TRUE, pieces |-> pieces, transport |-> TPOf(f)]

\* A hello over two Initials: files of one, and a flight of both.
OneInitial(f, piece) ==
  [magic |-> FALSE, class |-> "initial", cut |-> FALSE, version |-> 1, count |-> 1,
   datagrams |-> <<Initial(f, {piece})>>, versions |-> <<1, \h4a5a6a7a>>, tag |-> "crafted"]
QuicFlight(f) ==
  [OneInitial(f, 1) EXCEPT !.magic = TRUE, !.count = 2, !.datagrams = Append(@, Initial(f, {2}))]

-----------------------------------------------------------------------------

LiveCorpus ==
  [f \in LiveFamilies |->
    [hello |-> HelloOf(f, ExtTypes[f]), h2 |-> H2Flight(f),
     h3 |-> [frames |-> H3Control(f), cut |-> FALSE], quic |-> QuicFlight(f)]]
=============================================================================
