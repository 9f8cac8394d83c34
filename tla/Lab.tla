-------------------------------- MODULE Lab --------------------------------
(***************************************************************************)
(* The lab commands of cmd/coherencelab: what each makes of its input.  A  *)
(* source is the flag that decides: a fixture, a file, hex digits, and for *)
(* a hello a uTLS preset or a profile.  A command refuses or answers.      *)
(***************************************************************************)
EXTENDS Fingerprint, Scan

CONSTANT Parrots   \* what uTLS may send as each of its hellos

Refused     == [err |-> TRUE]
Answer(out) == [err |-> FALSE, out |-> out]

\* The rest of a command, once what comes before has worked.
Then(got, F(_)) == IF got.err THEN Refused ELSE F(got.out)
Checked(parsed) == IF parsed.ok THEN Answer(parsed) ELSE Refused

-----------------------------------------------------------------------------
(* Input                                                                   *)

LookupFixture(catalog, name) == IF name \in DOMAIN catalog THEN Answer(catalog[name]) ELSE Refused

LoadFixtureBytes(catalog, name) ==
  Then(LookupFixture(catalog, name), LAMBDA fx : Answer(fx.content))

\* Digits in pairs, and blanks and colons between them.
decodeHex(src) == IF src.digits THEN Answer(src.content) ELSE Refused

OfKind(catalog, name, kinds) ==
  Then(LookupFixture(catalog, name), LAMBDA fx : IF fx.kind \in kinds THEN Answer(fx.content) ELSE Refused)

\* A fixture of another kind is refused; so is a command without a source.
Given(catalog, src, kinds) ==
  CASE src.from = "fixture" -> OfKind(catalog, src.name, kinds)
    [] src.from = "bin"     -> Answer(src.content)
    [] src.from = "hex"     -> decodeHex(src)
    [] OTHER                -> Refused

\* tlsfp.ClientHelloID: the uTLS hello for a preset.
ClientHelloID(preset) ==
  CASE preset = <<"chrome", 133>> -> "Chrome_133"
    [] preset \in {<<"chrome", 131>>, <<"chrome", 132>>} -> "Chrome_131"
    [] preset = <<"chrome", 120>> -> "Chrome_120"
    [] preset[1] = "firefox" /\ preset[2] \in {120, 133} -> "Firefox_Auto"
    [] preset[1] = "safari" -> "Safari_Auto"
    [] preset \in {<<"safari_ios", 18>>, <<"ios", 14>>} -> "IOS_Auto"
    [] preset = <<"edge", 106>> -> "Edge_Auto"
    [] OTHER -> "Chrome_Auto"

\* The extensions may come in another order each time.
SynthClientHello(preset) == Parrots[ClientHelloID(preset)]

HelloInputs(catalog, dir, src) ==
  CASE src.from = "utls" -> {Answer(h) : h \in SynthClientHello(src.preset)}
    [] src.from = "profile" ->
         LET p == FindByID(dir, src.id)
         IN IF ~p.ok THEN {Refused} ELSE {Answer(h) : h \in SynthClientHello(p.profile.preset)}
    [] OTHER -> {Given(catalog, src, {"clienthello"})}

-----------------------------------------------------------------------------
(* One layer                                                               *)

labClientHello(got) ==
  Then(got, LAMBDA raw : Then(Checked(ParseClientHello(raw)), LAMBDA ch :
    Answer([ja3 |-> JA3Raw(ch), ja4 |-> JA4(ch)])))

labH2(catalog, src) ==
  Then(Given(catalog, src, {"h2"}), LAMBDA raw : Then(Checked(ParseH2(raw)), LAMBDA s :
    Answer([akamai |-> AkamaiH2Fingerprint(s), blocks |-> Len(s.HeaderBlocks)])))

labH3(catalog, src) ==
  Then(Given(catalog, src, {"h3"}), LAMBDA raw : Then(Checked(ParseH3(raw)), LAMBDA s :
    Answer([fingerprint |-> H3Fingerprint(s), findings |-> h3Findings(s)])))

demoOrder(name) ==
  CASE name = "chrome" -> PseudoChrome [] name = "firefox" -> PseudoFirefox [] name = "safari" -> PseudoSafari

\* EncodeIndexedPseudoBlock: the authority is a literal that is not inserted.
EncodeIndexedPseudoBlock(order) ==
  LET rep(letter) ==
        CASE letter = "m" -> Indexed(2) [] letter = "p" -> Indexed(4) [] letter = "s" -> Indexed(7)
          [] letter = "a" -> Literal(1, "", "host", 21)
  IN [i \in DOMAIN order |-> rep(order[i])]

labHeaders(catalog, src) ==
  LET block == IF src.from = "demo" THEN Answer(EncodeIndexedPseudoBlock(demoOrder(src.name)))
               ELSE Given(catalog, src, {})
  IN Then(block, LAMBDA reps : Then(Checked(decode(reps)), LAMBDA d :
       Answer([reps |-> reps, table |-> d.dyn, max |-> d.maxTableSize, family |-> FamilyGuess(d.fields)])))

\* A stream's first field section, if there is one.
SectionOf(stream) ==
  Then(Checked(ParseH3(stream)), LAMBDA s : IF s.QPACK THEN Answer(s.HeaderBlock) ELSE Refused)

DecodedSection(sec) ==
  Then(Checked(DecodeQPACKFieldSection(sec)), LAMBDA d : Answer(d.fields))

labQpack(catalog, src) ==
  IF src.from = "demo" THEN DecodedSection(EncodeQPACKPseudoBlock(demoOrder(src.name)))
  ELSE IF src.from = "fixture" /\ ~OfKind(catalog, src.name, {"h3"}).err
    THEN SectionOf(catalog[src.name].content)
  ELSE Then(Given(catalog, src, {"qpack"}), DecodedSection)

-----------------------------------------------------------------------------
(* lab quic                                                                *)

\* Two fixtures are what their names say.
ClassOf(src, raw) ==
  CASE src.from = "fixture" /\ src.name = "quic_vn"    -> "version_negotiation"
    [] src.from = "fixture" /\ src.name = "quic_retry" -> "retry"
    [] OTHER -> DetectQUICPacketClass(raw)

\* The Retry fixture is for the crafted Initial.
ODCIDFor(src, odcid) ==
  IF odcid = NoDCID /\ src.from = "fixture" /\ src.name = "quic_retry" THEN "crafted" ELSE odcid

ofPacket(src, raw, odcid) ==
  LET class == ClassOf(src, raw) IN
  CASE class = "version_negotiation" ->
         Then(Checked(ParseVersionNegotiation(raw)), LAMBDA vn : Answer(vnFindings(vn.Versions)))
    [] class = "retry" ->
         IF odcid = "odd digits" THEN Refused
         ELSE Then(Checked(ParseRetry(raw, ODCIDFor(src, odcid))), LAMBDA r : Answer(r.TagValid))
    [] class = "initial" ->
         Then(Checked(DecryptInitialCapture(raw, Pieces)), LAMBDA d : Answer(NonGREASEIds(d.Transport)))
    [] OTHER -> Then(Checked(ParseQUICLongHeader(raw)), LAMBDA h : Answer("header"))

TransportParams(b) ==
  Then(Checked(ParseTransportParameters(b)), LAMBDA t : Answer(t.params))

\* How the bytes are read: as parameters, as a header, or as what they are.
\* A fixture of another kind has no long header.
labQuic(catalog, src, as, odcid) ==
  LET isTP == src.from = "fixture" /\ ~OfKind(catalog, src.name, {"quic_tp"}).err
  IN Then(Given(catalog, src, {"quic", "quic_tp"}), LAMBDA raw :
       IF as = "tp" \/ isTP
         THEN Then(TransportParams(raw), LAMBDA tps : Answer(TransportFingerprint(tps)))
       ELSE IF as = "header"
         THEN Then(Checked(ParseQUICLongHeader(raw)), LAMBDA h : Answer("header"))
       ELSE ofPacket(src, raw, odcid))

-----------------------------------------------------------------------------
(* lab permute, lab corpus                                                 *)

\* AnalyzeExtensionPermutation with these samples.
labPermute(samples) ==
  LET parsed == [i \in DOMAIN samples |-> ParseClientHello(samples[i])]
  IN IF \E i \in DOMAIN parsed : ~parsed[i].ok THEN Refused
     ELSE Answer([samples |-> parsed, report |-> AnalyzeExtensionPermutation(parsed)])

\* The preset asked for, or a fixture's own.
CorpusPreset(catalog, src, asked) ==
  IF asked # NoPreset \/ src.from # "fixture" THEN asked ELSE catalog[src.name].preset

\* DiffCapturedVsUTLS against one of the parrot's hellos.
labCorpus(catalog, src, asked, parrot) ==
  Then(Given(catalog, src, {"clienthello"}), LAMBDA raw :
    IF CorpusPreset(catalog, src, asked) = NoPreset THEN Refused
    ELSE Then(Checked(ParseClientHello(raw)), LAMBDA ref :
      Then(Checked(ParseClientHello(parrot)), LAMBDA other :
        LET d == DiffClientHellos(ref, other) IN Answer([diff |-> d, findings |-> HelloFindings(d)]))))

-----------------------------------------------------------------------------
(* lab golden                                                              *)

LoadTransportParamsForGolden(catalog, name) ==
  Then(LookupFixture(catalog, name), LAMBDA fx :
    CASE fx.kind = "quic_tp" -> TransportParams(fx.content)
      [] fx.kind = "quic"    ->
           Then(Checked(DecryptInitialCapture(fx.content, Pieces)), LAMBDA d : Answer(d.Transport))
      [] OTHER -> Refused)

\* Two of a kind; the reference needs another to be compared with.
Compared(ref, other, Diff(_, _)) ==
  Then(ref, LAMBDA r : Then(other, LAMBDA o :
    LET d == Diff(r, o) IN Answer([diff |-> d, findings |-> GoldenFindings(d)])))

goldenQUIC(catalog, ref, vs) ==
  Compared(LoadTransportParamsForGolden(catalog, ref), LoadTransportParamsForGolden(catalog, vs),
           DiffTransportParameters)

H3Session(catalog, name) ==
  Then(LoadFixtureBytes(catalog, name), LAMBDA raw : Checked(ParseH3(raw)))
H2Session(catalog, name) ==
  Then(LoadFixtureBytes(catalog, name), LAMBDA raw : Checked(ParseH2(raw)))

goldenH3(catalog, ref, vs) ==
  Compared(H3Session(catalog, ref), H3Session(catalog, vs), DiffH3Sessions)

\* The three layers of one client.
SessionOf(catalog, fx) ==
  Then(H2Session(catalog, fx.h2), LAMBDA h2 : Then(H3Session(catalog, fx.h3), LAMBDA h3 :
    Then(LoadTransportParamsForGolden(catalog, fx.quic), LAMBDA tps :
      Answer([h2 |-> h2, h3 |-> h3, tps |-> tps]))))

TeachingFixtures == [h2 |-> "h2_continuation", h3 |-> "h3_chrome_crafted", quic |-> "quic_initial_crafted"]

analyzeLiveFamilyCrossLayer(catalog, fx, mode) ==
  Then(SessionOf(catalog, fx), LAMBDA s : Answer(CrossLayerFromParsed(s.h2, s.h3, s.tps, mode)))

AnalyzeChromiumVsFirefox(catalog) ==
  Then(SessionOf(catalog, FixturesOf("chrome")), LAMBDA c :
    Then(SessionOf(catalog, FixturesOf("firefox")), LAMBDA f :
      Answer(FamilySplits(c.h2, c.h3, c.tps, f.h2, f.h3, f.tps))))

\* --cross: each of the reports, or none that follows a failure.
goldenCross(catalog) ==
  Then(analyzeLiveFamilyCrossLayer(catalog, FixturesOf("chrome"), "live"), LAMBDA chrome :
    Then(analyzeLiveFamilyCrossLayer(catalog, FixturesOf("firefox"), "firefox"), LAMBDA firefox :
      Then(AnalyzeChromiumVsFirefox(catalog), LAMBDA splits :
        Then(analyzeLiveFamilyCrossLayer(catalog, TeachingFixtures, "teaching"), LAMBDA teaching :
          Answer([chrome |-> chrome.Coherent, firefox |-> firefox.Coherent, splits |-> splits,
                  teaching |-> teaching.Coherent])))))

\* Each part asked for, in order; without a flag all of them.
labGolden(catalog, quic, h3, cross) ==
  LET all == ~cross /\ quic.ref = "" /\ h3.ref = ""
      q   == IF all THEN [ref |-> "quic_initial_chrome", vs |-> "quic_tp_minimal"] ELSE quic
      h   == IF all THEN [ref |-> "h3_chrome", vs |-> "h3_minimal"] ELSE h3
      parts == (IF q.ref # "" THEN <<goldenQUIC(catalog, q.ref, q.vs)>> ELSE <<>>)
               \o (IF h.ref # "" THEN <<goldenH3(catalog, h.ref, h.vs)>> ELSE <<>>)
               \o (IF cross \/ all THEN <<goldenCross(catalog)>> ELSE <<>>)
  IN IF \E i \in DOMAIN parts : parts[i].err THEN Refused
     ELSE Answer([i \in DOMAIN parts |-> parts[i].out])

-----------------------------------------------------------------------------
(* lab ingest-hello                                                        *)

\* What the file of a name becomes: its first record if that is whole, even
\* when it is no hello.  Only a hello's name is one of the corpus.
IngestClientHello(raw) == IF raw.record /\ raw.whole THEN Answer(raw.content) ELSE Refused

Ingests(catalog, name) == ~OfKind(catalog, name, {"clienthello"}).err

labIngest(raw) ==
  Then(IngestClientHello(raw), LAMBDA rec : Then(Checked(ParseClientHello(rec)), LAMBDA ch : Answer(JA3Raw(ch))))
=============================================================================
