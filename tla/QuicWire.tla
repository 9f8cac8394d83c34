------------------------------ MODULE QuicWire ------------------------------
(***************************************************************************)
(* The QUIC side of internal/dissect: transport parameters, the files that *)
(* keep several Initials, and the two comparisons of golden.go: one layer  *)
(* against a reference, and the layers of one family against each other.   *)
(*                                                                         *)
(* Transport parameters are a sequence of ids and values.  An Initial is   *)
(* its DCID, whether it decrypts, and the pieces of the hello in it; a     *)
(* hello is whole when all its Pieces are there.                           *)
(***************************************************************************)
EXTENDS Hello, H3Wire

TPInitialMaxData == 4
TPGreaseQUICBit  == \h2ab2
TPGoogle         == \h3128

IsTransportParamGREASE(id) == id >= 27 /\ (id - 27) % 31 = 0

-----------------------------------------------------------------------------
(* quic_tp.go                                                              *)

\* ParseTransportParameters returns what it has read when the rest is cut.
ParseTransportParameters(b) == [ok |-> ~b.cut, params |-> b.params]

NonGREASEIds(tps) ==
  LET real == SelectSeq(tps, LAMBDA tp : ~IsTransportParamGREASE(tp.id))
  IN [i \in DOMAIN real |-> real[i].id]

countTPGREASE(tps) == Cardinality({i \in DOMAIN tps : IsTransportParamGREASE(tps[i].id)})

hasTPID(tps, id) == \E i \in DOMAIN tps : tps[i].id = id

hasGreaseQUICBit(tps) == hasTPID(tps, TPGreaseQUICBit)

TransportFingerprint(tps) ==
  <<NonGREASEIds(tps), countTPGREASE(tps), hasGreaseQUICBit(tps)>>

\* tpDecoded: the first parameter of that id; "(absent)" is -1.
tpDecoded(tps, id) ==
  LET of == SelectSeq(tps, LAMBDA tp : tp.id = id)
  IN IF of = <<>> THEN -1 ELSE of[1].value

-----------------------------------------------------------------------------
(* golden.go: the two diffs, as in DiffClientHellos                        *)

Agreement(checks) ==
  [Score |-> (WeightOf({c \in checks : c[4]}) * 100) \div WeightOf(checks),
   Matches |-> {c[1] : c \in {d \in checks : d[4]}},
   Diffs |-> {<<c[1], c[2]>> : c \in {d \in checks : ~d[4]}}]

DiffTransportParameters(ref, other) ==
  Agreement(
    {<<"tp_id_order", "critical", 30, NonGREASEIds(ref) = NonGREASEIds(other)>>,
     <<"tp_grease", "critical", 25, countTPGREASE(ref) = countTPGREASE(other)>>,
     <<"grease_quic_bit", "high", 20, hasGreaseQUICBit(ref) = hasGreaseQUICBit(other)>>,
     <<"initial_max_data", "medium", 15,
       tpDecoded(ref, TPInitialMaxData) = tpDecoded(other, TPInitialMaxData)>>,
     <<"tp_count", "low", 10, Len(ref) = Len(other)>>})

DiffH3Sessions(ref, other) ==
  Agreement(
    {<<"h3_fingerprint", "critical", 20, H3Fingerprint(ref) = H3Fingerprint(other)>>,
     <<"settings_ids", "critical", 25, h3SettingsSig(ref) = h3SettingsSig(other)>>,
     <<"grease_frames", "critical", 25, countH3GREASEFrames(ref) = countH3GREASEFrames(other)>>,
     <<"priority_update", "high", 20, H3PriorityFingerprint(ref) = H3PriorityFingerprint(other)>>,
     <<"grease_settings", "medium", 10,
       countH3GREASESettings(ref) = countH3GREASESettings(other)>>})

\* goldenFindings
GoldenFindings(d) ==
  {f \in {"not chrome-like", "large gap", "lock holds"} :
     CASE f = "not chrome-like" -> \E x \in d.Diffs : x[2] = "critical"
       [] f = "large gap"  -> d.Score < 40
       [] f = "lock holds" -> d.Score >= 95}

-----------------------------------------------------------------------------
(* CrossLayerFromParsed: the conflicts of each mode                        *)

H2HasPriority(h2) == PriorityFingerprint(h2)[1] # "0"
H3HasPriority(h3) == H3PriorityFingerprint(h3) # <<>>

\* In every mode GREASE is painted on both of H3 and QUIC or on neither.
GreaseConflicts(h3, tps) ==
  {c \in {"no H3 GREASE", "no TP GREASE", "GREASE on one"} :
     CASE c = "no H3 GREASE"  -> countH3GREASEFrames(h3) = 0
       [] c = "no TP GREASE"  -> countTPGREASE(tps) = 0
       [] c = "GREASE on one" -> (countH3GREASEFrames(h3) > 0) # (countTPGREASE(tps) > 0)}

\* CrossLayerLive: what a live first flight may lack is no conflict.
LiveConflicts(h2, h3, tps) ==
  {c \in {"no H3 priority"} : ~H3HasPriority(h3)}

FirefoxConflicts(h2, h3, tps) ==
  {c \in {"pseudo order", "Google TP", "no WebTransport", "MAX_FIELD_SECTION_SIZE"} :
     CASE c = "pseudo order"    -> ~IsPrefix(PseudoFirefox, FirstPseudoOrder(h2))
       [] c = "Google TP"       -> hasTPID(tps, TPGoogle)
       [] c = "no WebTransport" -> ~(h3HasSetting(h3, \h2b603742) /\ h3HasSetting(h3, \hffd277))
       [] c = "MAX_FIELD_SECTION_SIZE" -> h3HasSetting(h3, 6)}

TeachingConflicts(h2, h3, tps) ==
  {c \in {"no H2 priority", "no H3 priority", "no grease_quic_bit", "priority on one"} :
     CASE c = "no H2 priority"     -> ~H2HasPriority(h2)
       [] c = "no H3 priority"     -> ~H3HasPriority(h3)
       [] c = "no grease_quic_bit" -> ~hasGreaseQUICBit(tps)
       [] c = "priority on one"    -> H2HasPriority(h2) # H3HasPriority(h3)}

CrossLayerFromParsed(h2, h3, tps, mode) ==
  LET own == CASE mode = "live"     -> LiveConflicts(h2, h3, tps)
               [] mode = "firefox"  -> FirefoxConflicts(h2, h3, tps)
               [] mode = "teaching" -> TeachingConflicts(h2, h3, tps)
      all == own \cup GreaseConflicts(h3, tps)
  IN [Conflicts |-> all, Coherent |-> all = {}]

\* AnalyzeChromiumVsFirefox
FamilySplits(h2c, h3c, tpc, h2f, h3f, tpf) ==
  {s \in {"pseudo order", "MAX_FIELD_SECTION_SIZE", "WebTransport", "priority update",
          "Google TP", "GREASE settings"} :
     CASE s = "pseudo order" ->
            IsPrefix(PseudoChrome, FirstPseudoOrder(h2c)) /\ IsPrefix(PseudoFirefox, FirstPseudoOrder(h2f))
       [] s = "MAX_FIELD_SECTION_SIZE" -> h3HasSetting(h3c, 6) /\ ~h3HasSetting(h3f, 6)
       [] s = "WebTransport" -> h3HasSetting(h3f, \h2b603742) /\ ~h3HasSetting(h3c, \h2b603742)
       [] s = "priority update" -> H3HasPriority(h3c) /\ ~H3HasPriority(h3f)
       [] s = "Google TP" -> hasTPID(tpc, TPGoogle) /\ ~hasTPID(tpf, TPGoogle)
       [] s = "GREASE settings" -> countH3GREASESettings(h3c) > 0 /\ countH3GREASESettings(h3f) = 0}

-----------------------------------------------------------------------------
(* quic_flight.go                                                          *)

\* A file of several datagrams begins with CLQI, a version and their count;
\* the datagrams that are there in full follow.  A datagram is read if the
\* count says so.
DecodeInitialFlight(b) ==
  IF b.version # 1 \/ b.count > Len(b.datagrams) THEN [ok |-> FALSE]
  ELSE [ok |-> TRUE, datagrams |-> SubSeq(b.datagrams, 1, b.count)]

\* The datagrams of a flight that DecryptInitialFlight merges: those that
\* decrypt and have the DCID of the first that does.
MergedInitials(datagrams) ==
  LET good == SelectSeq(datagrams, LAMBDA g : g.decrypts)
  IN SelectSeq(good, LAMBDA g : g.dcid = good[1].dcid)

\* The merged datagrams, or just the one, and the hello in them, if whole.
DecryptInitialFlight(datagrams, Pieces) ==
  LET merged == MergedInitials(datagrams)
      pieces == UNION {g.pieces : g \in Range(merged)}
  IN IF merged = <<>> THEN [ok |-> FALSE]
     ELSE [ok |-> TRUE,
           Transport |-> IF Pieces \subseteq pieces THEN merged[1].transport ELSE <<>>]

\* A file without the magic is one datagram.
DecryptInitialCapture(b, Pieces) ==
  IF ~b.magic THEN DecryptInitialFlight(b.datagrams, Pieces)
  ELSE IF ~DecodeInitialFlight(b).ok THEN [ok |-> FALSE]
  ELSE DecryptInitialFlight(DecodeInitialFlight(b).datagrams, Pieces)

-----------------------------------------------------------------------------
(* quic_vn_retry.go: other packets than Initials.  A Retry's integrity tag *)
(* is the DCID it was made for; NoDCID when none is given.                 *)

NoDCID == "none"

\* The lower half of each byte is 0xa.
IsQUICVersionGREASE(v) == \A i \in 0..3 : (v \div 256^i) % 16 = 10

\* A file of several Initials is told by its magic, else the first byte and
\* the version say what a packet is.
DetectQUICPacketClass(b) == IF b.magic THEN "initial" ELSE b.class

\* A flight's magic is no long header.
ParseQUICLongHeader(b) ==
  [ok |-> ~b.magic /\ ~b.cut /\ b.class \notin {"short_header", "too_short"}]

ParseVersionNegotiation(b) ==
  IF b.class # "version_negotiation" \/ b.cut THEN [ok |-> FALSE]
  ELSE [ok |-> TRUE, Versions |-> b.versions]

vnFindings(versions) ==
  {f \in {"no versions", "QUICv1", "GREASE"} :
     CASE f = "no versions" -> versions = <<>>
       [] f = "QUICv1"      -> Contains(versions, 1)
       [] f = "GREASE"      -> \E i \in DOMAIN versions : IsQUICVersionGREASE(versions[i])}

\* The tag is checked only against a DCID that is given.
ParseRetry(b, odcid) ==
  IF b.class # "retry" \/ b.cut THEN [ok |-> FALSE]
  ELSE [ok |-> TRUE,
        TagValid |-> IF odcid = NoDCID THEN "unchecked" ELSE IF b.tag = odcid THEN "true" ELSE "false"]
=============================================================================
