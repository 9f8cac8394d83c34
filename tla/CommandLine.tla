---------------------------- MODULE CommandLine ----------------------------
(***************************************************************************)
(* cmd/coherencelab at a shell: one command after the other over two       *)
(* directories that commands also write, the profiles and the corpus.      *)
(* fingerprint --serve runs beside the goroutines of the server it starts  *)
(* (CaptureSession); each other command is a step.  The requests of the    *)
(* web UI and the commands of the lab are commands here.                   *)
(***************************************************************************)
EXTENDS Lab

CONSTANTS
  Catalog,    \* the fixtures of the corpus, by name
  CorpusLayers,                   \* the layers of those of each family
  Traffic, Visitors, Leftovers,   \* as in CaptureSession
  Shipped,    \* the profiles of the repository, in the order of their files
  Sessions,   \* the sessions that may be captured
  Genuine,    \* those of them that are a visit of a shipped profile's browser
  Exports,    \* the sessions other tools may have exported
  Dials,      \* the dials a live scan may make
  Hellos,     \* the files that may be ingested, each with its owner
  Blocks,     \* HPACK blocks
  Files,      \* wire files by kind, besides the corpus
  MaxFiles    \* bound: how many files of the two directories are written

ASSUME CommandLineAssumption ==
  /\ CorpusLayers = References(Catalog)
  /\ Genuine \subseteq Sessions
  /\ Visitors \subseteq DOMAIN Traffic
  /\ \A b \in Blocks : IsBlock(b)
  /\ MaxFiles \in Nat

-----------------------------------------------------------------------------
(* Browsers, as the profiles know them                                     *)

\* Of these products a browser's User-Agent names its own; on iOS Chrome
\* names another one.
Products == {"chrome", "crios", "edg", "opr", "firefox", "version"}
ProductsOf(browser, platform) ==
  CASE browser = "chrome" -> IF platform = "ios" THEN {"crios"} ELSE {"chrome"}
    [] browser = "edge"   -> {"chrome", "edg"} [] browser = "opera"  -> {"chrome", "opr"}
    [] browser = "firefox" -> {"firefox"}      [] browser = "safari" -> {"version"}

\* And of these words its platform's.
PlatformWords == {"windows nt", "mac os x", "linux", "android", "iphone"}
WordsOf(platform) ==
  CASE platform = "windows" -> {"windows nt"} [] platform = "macos"   -> {"mac os x"}
    [] platform = "linux"   -> {"linux"}      [] platform = "android" -> {"android", "linux"}
    [] platform = "ios"     -> {"iphone", "mac os x"}

NavigatorsOf(platform) ==
  CASE platform = "windows" -> {"Win32"} [] platform = "macos" -> {"MacIntel"}
    [] platform = "linux"   -> {"Linux x86_64"} [] platform = "ios" -> {"iPhone"}
    [] platform = "android" -> {"Linux x86_64", "Linux armv81"}

Blinks == {"chrome", "edge", "opera"}

PresetFits(preset, browser, platform) ==
  /\ browser = "firefox" => preset[1] = "firefox"
  /\ browser = "safari" \/ platform = "ios" => iosTLSPreset(preset)
  /\ browser \in Blinks /\ platform # "ios" => chromiumTLSPreset(preset)

SignalFields  == {"ua", "brands", "hint", "mobile", "headers", "order", "accept", "encoding",
                  "language", "tls", "h2", "navigator", "webgl"}
ProfileFields == (SignalFields \ {"headers", "tls", "h2"})
                 \cup {"id", "named", "browser", "platform", "major", "pattern", "mode", "required", "forbidden",
                       "upgrade", "primary", "alpn", "minVersion", "maxVersion", "preset", "settings"}

\* A profile whose layers are those of one browser on one platform.
OneBrowser(p) ==
  /\ DOMAIN p = ProfileFields
  /\ DOMAIN p.navigator = {"there", "platform", "vendor", "webdriver"}
  /\ p.browser \in Blinks \cup {"firefox", "safari"}
  /\ p.platform \in {"windows", "macos", "linux", "android", "ios"}
  /\ p.platform = "ios" => p.browser \in {"chrome", "safari"}
  /\ \A w \in p.ua : w = <<w[1], w[2]>>
  /\ \A w \in Products : Says(p.ua, w) <=> w \in ProductsOf(p.browser, p.platform)
  /\ \A w \in PlatformWords : Says(p.ua, w) <=> w \in WordsOf(p.platform)
  /\ p.browser = "safari" => Says(p.ua, "safari")
  /\ p.brands # {} => p.browser \in Blinks /\ Branded(p.brands, "Chromium")
  /\ p.hint = p.platform \/ (p.hint = "" /\ "sec-ch-ua-platform" \in p.forbidden)
  /\ DOMAIN p.required \cap {"x-selenium", "x-webdriver"} = {}
  /\ PresetFits(p.preset, p.browser, p.platform)
  /\ p.navigator.there /\ p.navigator.platform # "" => p.navigator.platform \in NavigatorsOf(p.platform)
  /\ p.navigator.webdriver # "true"

\* What the probe sees of a visit: the preset is unknown to it.
IsVisitOf(in, p) ==
  /\ in = FromHTTP(in.id, in.snapshot)
  /\ in.snapshot = FromRequest(p, in.snapshot.tls, in.snapshot.h2)
  /\ in.snapshot.tls.preset \in {NoPreset, p.preset}

\* A session in which no two browsers are named, and no Opera that would not
\* say that it is Chromium.
NamesOneBrowser(s) ==
  /\ DOMAIN s = SignalFields
  /\ Says(s.ua, "firefox") => \A w \in {"chrome", "crios", "edg", "opr", "safari"} : ~Says(s.ua, w)
  /\ Says(s.ua, "chrome") => ~Says(s.ua, "crios")
  /\ Branded(s.brands, "Opera") => Branded(s.brands, "Chromium")

\* The profiles of the repository are of one browser each.
ASSUME ProfilesAssumption ==
  /\ Shipped \in Seq(Range(Shipped))
  /\ \A p \in Range(Shipped) : OneBrowser(p)
  /\ \A i, j \in DOMAIN Shipped : Shipped[i].id = Shipped[j].id => i = j
  /\ \A in \in Genuine : \E p \in Range(Shipped) : IsVisitOf(in, p)
  /\ \A e \in Exports : NamesOneBrowser(e.signals)

VARIABLES
  command, family, stored, next, opened, newest, loaded, report,
  captured,   \* the profiles written, by file: "a" sorts before the shipped ones, "z" after
  ingested,   \* the hellos written over the corpus', by name
  ran         \* the last command and what came of it, or Prompt

serveVars == <<command, family, stored, next, opened, newest, loaded, report>>
vars == <<serveVars, captured, ingested, ran>>

\* The server runs only while nothing is ingested, so that CorpusLayers are
\* the families' references for it.
Serve == INSTANCE CaptureSession

\* What a writer writes, one file after the other.
ASSUME TrafficAssumption ==
  \A f \in Visitors : \A w \in Serve!Writers :
    /\ Traffic[f][w] \in Seq(Range(Traffic[f][w]))
    /\ \A e \in Range(Traffic[f][w]) : e.kind \in Serve!Kinds /\ Serve!WriterOf(e.kind) = w /\ e.content # Missing

-----------------------------------------------------------------------------
(* Captures, as the corpus knows them                                      *)

Clients == Range(fingerprintFamilies)
SameEngine(f, g) == Serve!Engine(f) = Serve!Engine(g)

\* What there is of a client's layer: its fixture, what it may have left, and
\* what its visit writes.
FilesOf(f, l) ==
  {Catalog[FixturesOf(f)[l]].content}
  \cup (IF f \in DOMAIN Leftovers THEN {Leftovers[f][k] : k \in {k \in Serve!Kinds : Serve!WriterOf(k) = l}} ELSE {})
  \cup (IF f \in Visitors THEN {e.content : e \in Range(Traffic[f][l])} ELSE {})

\* What the corpus may have of it: the fixture, or its hello that was ingested.
ReferencesOf(f, l) ==
  {CorpusLayers[f][l]} \cup
  (IF l = "hello" THEN {Parsed(l, h.content) : h \in {h \in Hellos : h.owner = f}} ELSE {})

\* A layer fits the families of its own engine, and all families of one engine
\* alike, but for the hello, which fits its own by far; an HTTP/2 flight tells
\* engines apart in full or not at all.
FitsItsEngine(own, l, got) ==
  LET score(r) == LayerScore(l, r, got)
  IN \A f, g \in Clients : \A r \in ReferencesOf(f, l), s \in ReferencesOf(g, l) :
       /\ r.ok /\ score(r) \in 0..Full
       /\ l = "hello" =>
            /\ DiffClientHellos(r, got).Score \in 0..100
            /\ f = own /\ ~SameEngine(f, g) => score(r) - score(s) > Full \div 2
       /\ l # "hello" /\ SameEngine(f, g) => score(r) = score(s)
       /\ l = "h2" =>
            /\ score(r) = Full => SameEngine(own, f)
            /\ SameEngine(own, f) /\ ~SameEngine(own, g) => score(r) \in {score(s), Full}
       /\ l \in {"h3", "quic"} => score(r) - score(s) <= (3 * Full) \div 4

\* The families have a fixture of each kind, and the captures of the repository
\* fit the families of the corpus so.
ASSUME CorpusAssumption ==
  /\ DOMAIN Leftovers \cup Visitors \subseteq Clients
  /\ \A f \in Clients : \A l \in Layers :
       LET name == FixturesOf(f)[l]
       IN /\ name \in DOMAIN Catalog /\ "content" \in DOMAIN Catalog[name]
          /\ l # "hello" => Catalog[name].kind # "clienthello"
  /\ \A f \in Clients : \A l \in Layers : \A c \in FilesOf(f, l) :
       Parsed(l, c).ok => FitsItsEngine(f, l, Parsed(l, c))

\* What the fingerprints read of an extension, but for GREASE.
Said(e) ==
  [type |-> e.type,
   data |-> CASE e.type \in {ExtSupportedGroups, ExtSignatureAlgs, ExtSupportedVersions} -> filterNonGREASE(e.data)
              [] e.type \in {ExtECPointFormats, ExtALPN} -> e.data
              [] OTHER -> <<>>]

\* One hello but for the order of its extensions and for GREASE.
Plain(exts) == {i \in DOMAIN exts : ~IsGREASE16(exts[i].type)}
SameButOrder(h, k) ==
  /\ \A n \in {"handshake", "version", "recordVersion", "quic", "sessionID", "cut"} : h[n] = k[n]
  /\ filterNonGREASE(h.ciphers) = filterNonGREASE(k.ciphers)
  /\ {Said(h.exts[i]) : i \in Plain(h.exts)} = {Said(k.exts[i]) : i \in Plain(k.exts)}

\* There is a parrot for every shipped profile; the hellos of a parrot are one,
\* and none has an extension twice.
ASSUME ParrotsAssumption ==
  /\ \A p \in Range(Shipped) : ClientHelloID(p.preset) \in DOMAIN Parrots
  /\ \A name \in DOMAIN Parrots : \A h \in Parrots[name] :
       /\ h.exts \in Seq(Range(h.exts)) /\ \A e \in Range(h.exts) : e.type \in Nat
       /\ \A i, j \in Plain(h.exts) : h.exts[i].type = h.exts[j].type => i = j
       /\ \A k \in Parrots[name] : SameButOrder(h, k)

Prompt == [cmd |-> "none"]
AtPrompt == ran.cmd = "none" /\ command = "off"

FileAt(name) == IF name \in DOMAIN captured THEN <<captured[name]>> ELSE <<>>
Dir == FileAt("a") \o Shipped \o FileAt("z")
OnDisk == [name \in DOMAIN Catalog |->
            IF name \in DOMAIN ingested THEN [Catalog[name] EXCEPT !.content = ingested[name].content]
            ELSE Catalog[name]]

\* Bounds: commands that read neither directory are run before anything is
\* written, those that read one of them while the other is as shipped.
Fresh == DOMAIN captured = {} /\ DOMAIN ingested = {}

Init == Serve!Init /\ captured = <<>> /\ ingested = <<>> /\ ran = Prompt

Result(cmd, res) == [cmd |-> cmd, res |-> res]

\* A command that writes nothing.
Runs(cmd, res) ==
  /\ ran' = Result(cmd, res)
  /\ UNCHANGED <<serveVars, captured, ingested>>

\* The ids that may be asked for: with no file written all of the shipped
\* profiles', else the captured ones' and one of them.
Ids == (IF Fresh THEN {p.id : p \in Range(Shipped)} ELSE {Shipped[1].id})
       \cup {captured[f].id : f \in DOMAIN captured} \cup {<<"no", 0, "such">>}

-----------------------------------------------------------------------------
(* scan, profiles, compare, capture                                        *)

\* scan and POST /api/scan: a report and the exit code of --ci.
Scanned(p, s, mode) ==
  LET r == Run(p, s)
  IN Answer([id |-> r.id, mode |-> mode, result |-> r.result, coherent |-> SaysCoherent(r.result),
             exit |-> CIExitCode(r.result, 90)])

\* What each mode looks at; a probe may be out of reach.
SnapshotsOf(p, mode, mutation) ==
  CASE mode = "local"  -> {Answer(LocalSnapshot(p))}
    [] mode = "mutate" -> {Answer(applyMutation(LocalSnapshot(p), mutation))}
    [] mode = "live"   -> {Refused} \cup {Answer(Probe(p, d)) : d \in Dials}
    [] OTHER           -> {Refused}

ScanOf(id, modes, cmd) ==
  \E mode \in modes, mutation \in Mutations \cup {""} :
    /\ mode # "mutate" => mutation = ""
    /\ LET found == FindByID(Dir, id)
       IN IF ~found.ok THEN Runs(cmd, Refused)
          ELSE \E s \in SnapshotsOf(found.profile, mode, mutation) :
                 Runs(cmd, Then(s, LAMBDA snap : Scanned(found.profile, snap, <<mode, mutation>>)))

ScanProfile == \E id \in Ids \cup {NoId} : ScanOf(id, {"local", "live", "mutate", "other"}, "scan")

ScanImport ==
  \E adapter \in {"snapshot", "httpcloak", "curl", "playwright", "other"}, e \in Exports,
     override \in {NoId, Head(Shipped).id} :
    Runs("import", Then(Checked(ScanExport(adapter, e, Dir, override)), LAMBDA got :
                     Scanned(got.profile, got.snapshot, <<"import", "">>)))

\* profiles list, profiles show, and GET /api/profiles of the web UI.
ListProfiles ==
  LET all == LoadDir(Dir)
  IN Runs("list", IF all.ok THEN Answer([i \in DOMAIN all.profiles |-> all.profiles[i].id]) ELSE Refused)

ShowProfile ==
  \E id \in Ids \cup {NoId} :
    LET found == FindByID(Dir, id)
    IN Runs("show", IF found.ok THEN Answer(found.profile.preset) ELSE Refused)

\* Each one's local scan; one failure fails the command.
FailsValidation(p) ==
  LET r == Run(p, LocalSnapshot(p)).result IN r.CriticalFails > 0 \/ r.Grade = "F"

ValidateProfiles ==
  LET all == LoadDir(Dir)
  IN Runs("validate",
       IF ~all.ok THEN Refused
       ELSE LET failed == {i \in DOMAIN all.profiles : FailsValidation(all.profiles[i])}
            IN IF failed = {} THEN Answer(Len(all.profiles)) ELSE Refused)

\* Another verb than POST, another body than JSON, no profile, or a mode that
\* would reach the network: no scan.
UIScan ==
  \E id \in Ids \cup {NoId}, body \in {"post", "get", "not json"} :
    IF body # "post" \/ id = NoId THEN Runs("ui", Refused)
    ELSE ScanOf(id, {"local", "mutate"}, "ui") \/ Runs("ui", Refused)

Demo ==
  LET found == FindByID(Dir, <<"chrome", 131, "windows">>)
  IN Runs("demo",
       IF ~found.ok THEN Refused
       ELSE Answer([m \in {"", "wrong-platform", "wrong-browser"} |->
              Run(found.profile, applyMutation(LocalSnapshot(found.profile), m)).result.Grade]))

\* Both exports are loaded before they are compared.
Comparison(adapterA, a, adapterB, b) ==
  Then(Checked(LoadSnapshot(adapterA, a)), LAMBDA x :
    Then(Checked(LoadSnapshot(adapterB, b)), LAMBDA y :
      Answer([a |-> x.snapshot, b |-> y.snapshot,
              compared |-> Snapshots(x.snapshot, y.snapshot)])))

\* B's adapter defaults to A's, and A's to httpcloak.
CompareExports ==
  /\ Fresh
  /\ \E a, b \in Exports, adapterA \in {"", "snapshot", "curl", "playwright", "other"},
        adapterB \in {"", "snapshot"} :
       LET first  == IF adapterA = "" THEN "httpcloak" ELSE adapterA
           second == IF adapterB = "" THEN first ELSE adapterB
       IN Runs("compare", Comparison(first, a, second, b))

\* The file a capture leaves: the profile, or a part of one if it is killed.
Written(p) == {p, Unreadable}

\* mutant: the file is written before the profile is validated
WritesUnchecked(in) == in.id # NoId

\* ToProfile's error keeps the file from being written.
Writes(in) == in.id # NoId /\ Validate(ToProfile(in))

Put(files, name, content) == [n \in {name} \cup DOMAIN files |-> IF n = name THEN content ELSE files[n]]
MayWrite(files, name) ==
  name \in DOMAIN files \/ Cardinality(DOMAIN captured) + Cardinality(DOMAIN ingested) < MaxFiles

CaptureProfile ==
  \E in \in Sessions, file \in {"a", "z"} :
    \/ /\ ~Writes(in)
       /\ Runs("capture", Refused)
    \/ /\ Writes(in) /\ MayWrite(captured, file)
       /\ \E content \in Written(ToProfile(in)) : captured' = Put(captured, file, content)
       /\ ran' = Result("capture", Answer(in.id))
       /\ UNCHANGED <<serveVars, ingested>>

-----------------------------------------------------------------------------
(* fingerprint                                                             *)

\* The clients whose files may be given, or "" for a layer that is not.
Owners == {"", "chrome", "edge", "firefox"}
BundleOf(of) ==
  [l \in Layers |-> IF of[l] = "" THEN Missing ELSE Catalog[FixturesOf(of[l])[l]].content]

FingerprintFiles ==
  LET refs == References(OnDisk)
  IN \E hello, h2 \in Owners, h3 \in {"", "firefox"}, quic \in {"", "chrome"} :
       LET of == [hello |-> hello, h2 |-> h2, h3 |-> h3, quic |-> quic]
           rep == FingerprintCapture(refs, BundleOf(of))
       IN Runs("fingerprint", IF rep.err THEN Refused ELSE Answer([of |-> of, report |-> rep]))

\* fingerprint --serve, from its start to its report.
ServeStep ==
  /\ ran.cmd = "none"
  /\ Fresh
  /\ Serve!Next
  /\ UNCHANGED <<captured, ingested, ran>>

ServeReturns ==
  /\ command \in {"done", "failed"}
  /\ command' = "off" /\ family' = "none"
  /\ stored' = FALSE /\ next' = [w \in Serve!Writers |-> 1] /\ opened' = {}
  /\ newest' = Serve!EmptyDir /\ loaded' = Nothing /\ report' = Nothing
  /\ UNCHANGED <<captured, ingested, ran>>

-----------------------------------------------------------------------------
(* lab                                                                     *)

Sources(kind, names) ==
  {[from |-> "fixture", name |-> n] : n \in names}
  \cup {[from |-> "bin", content |-> f] : f \in Files[kind]}
  \cup {[from |-> "hex", content |-> f, digits |-> d] : f \in Files[kind], d \in BOOLEAN}
  \cup {[from |-> "none"]}

Fixtures == DOMAIN Catalog \cup {"no such"}

LabClientHello ==
  \E src \in Sources("clienthello", Fixtures)
             \cup {[from |-> "utls", preset |-> p.preset] : p \in Range(Shipped)}
             \cup {[from |-> "profile", id |-> id] : id \in Ids} :
    \E got \in HelloInputs(OnDisk, Dir, src) : Runs("clienthello", labClientHello(got))

LabWire ==
  /\ Fresh
  /\ \/ \E src \in Sources("h2", Fixtures) : Runs("h2", labH2(OnDisk, src))
     \/ \E src \in Sources("h3", Fixtures) : Runs("h3", labH3(OnDisk, src))
     \/ \E src \in Sources("qpack", Fixtures) \cup {[from |-> "demo", name |-> "safari"]} :
          Runs("qpack", labQpack(OnDisk, src))

LabQuic ==
  /\ Fresh
  /\ \/ \E src \in Sources("quic", Fixtures), as \in {"packet", "header"},
           odcid \in {NoDCID, "crafted", "odd digits"} :
          Runs("quic", labQuic(OnDisk, src, as, odcid))
     \/ \E src \in Sources("quic_tp", {"quic_tp_minimal"}) : Runs("quic", labQuic(OnDisk, src, "tp", NoDCID))

LabHeaders ==
  /\ Fresh
  /\ \E src \in {[from |-> "demo", name |-> n] : n \in {"chrome", "firefox", "safari"}}
                \cup {[from |-> "bin", content |-> b] : b \in Blocks} :
       Runs("headers", labHeaders(OnDisk, src))

\* The number of samples is clamped; each is a hello of its own.
LabPermute ==
  /\ Fresh
  /\ \E preset \in {p.preset : p \in Range(Shipped)}, n \in 0..3 :
       \E samples \in [1..Samples(n) -> SynthClientHello(preset)] :
         Runs("permute", labPermute(samples))

LabCorpus ==
  \E src \in Sources("clienthello", Fixtures), asked \in {NoPreset, <<"firefox", 133>>} :
    IF Given(OnDisk, src, {"clienthello"}).err \/ CorpusPreset(OnDisk, src, asked) = NoPreset
    THEN Runs("corpus", Refused)
    ELSE \E parrot \in SynthClientHello(CorpusPreset(OnDisk, src, asked)) :
           Runs("corpus", labCorpus(OnDisk, src, asked, parrot))

LabGolden ==
  /\ Fresh
  /\ \E quic \in {[ref |-> "", vs |-> ""], [ref |-> "quic_tp_minimal", vs |-> "quic_initial_crafted"],
                  [ref |-> "quic_initial_firefox", vs |-> "h2_chrome"]},
        h3 \in {[ref |-> "", vs |-> ""], [ref |-> "h3_firefox", vs |-> "h3_chrome"],
                [ref |-> "h3_chrome", vs |-> ""]},
        cross \in BOOLEAN :
       Runs("golden", labGolden(OnDisk, quic, h3, cross))

LabFixtures == Runs("fixtures", Answer(DOMAIN Catalog))

\* The names that may be given: two of the corpus, one of another kind.
IngestHello ==
  \E raw \in Hellos, name \in {"chrome_131", "firefox_live", "h2_chrome"} :
    \/ /\ IngestClientHello(raw).err \/ ~Ingests(Catalog, name)
       /\ Runs("ingest", labIngest(raw))
    \/ /\ ~IngestClientHello(raw).err /\ Ingests(Catalog, name) /\ MayWrite(ingested, name)
       /\ ingested' = Put(ingested, name, raw)
       /\ ran' = Result("ingest", labIngest(raw))
       /\ UNCHANGED <<serveVars, captured>>

-----------------------------------------------------------------------------

Return == ran.cmd # "none" /\ ran' = Prompt /\ UNCHANGED <<serveVars, captured, ingested>>

Profiles ==
  /\ DOMAIN ingested = {}
  /\ \/ ScanProfile \/ ScanImport \/ ListProfiles \/ ShowProfile \/ ValidateProfiles
     \/ UIScan \/ Demo \/ CompareExports \/ CaptureProfile

Corpus ==
  /\ DOMAIN captured = {}
  /\ \/ LabWire \/ LabQuic \/ LabHeaders \/ LabPermute \/ LabCorpus \/ LabGolden
     \/ LabFixtures \/ IngestHello \/ FingerprintFiles

Next ==
  \/ AtPrompt /\ (Profiles \/ Corpus \/ LabClientHello)
  \/ ServeStep \/ ServeReturns \/ Return

Spec == Init /\ [][Next]_vars

-----------------------------------------------------------------------------
(* Properties                                                              *)

\* Whatever was captured, the profiles can be loaded unless a capture was
\* killed: a profile that does not validate is never written (capture.go).
TypeOK ==
  /\ Serve!TypeOK
  /\ DOMAIN captured \subseteq {"a", "z"} /\ DOMAIN ingested \subseteq DOMAIN Catalog
  /\ \A f \in DOMAIN captured : captured[f] = Unreadable \/ Validate(captured[f])

Ok(cmd) == ran.cmd = cmd /\ ~ran.res.err

\* The hello fixture of a family that is not that family's.
Misnamed ==
  \E f \in Range(fingerprintFamilies) :
    LET name == FixturesOf(f).hello
    IN name \in DOMAIN ingested /\ ingested[name].owner # f

\* No client is accused of a cross-layer conflict whose hello and HTTP/2
\* flight are one engine's (fingerprint.go: fingerprintConflicts): not for a
\* stale or half-written file of a capture directory, and not for a file that
\* is missing, unless something else was ingested as a family's hello.
NoFalseConflict ==
  /\ Serve!NoFalseConflict
  /\ Ok("fingerprint") /\ ran.res.out.report.Conflict =>
       LET of == ran.res.out.of
       IN Misnamed \/ (of.hello # "" /\ of.h2 # "" /\ Serve!Engine(of.hello) # Serve!Engine(of.h2))

\* A capture directory in which two clients' files are mixed so that the
\* verdict is not the hello's engine is reported as a conflict (LoadCaptureDir
\* takes the newest file of each kind by itself).
MixUpIsReported == Serve!MixUpIsReported

\* The profile that is captured from the visit of a shipped profile's browser
\* is one that this visit has no critical failure against, and that its own
\* local scan has none either (ToProfile against the rules).
CaptureIsCoherent ==
  \A f \in DOMAIN captured : \A in \in Genuine :
    captured[f] = ToProfile(in) =>
      LET p == Completed(captured[f])
      IN /\ Run(p, LocalSnapshot(p)).result.CriticalFails = 0
         /\ Run(p, in.snapshot).result.CriticalFails = 0

\* The mutations that leave the profile's own signals, and those that the
\* rules miss: Firefox of another platform, which sends no hint of it, an
\* automation header that the profile does not forbid, and Firefox's hello from
\* Chrome for iOS, although docs/blog/identity-coherence.md:74-76 says that it
\* is caught.
Unnoticed(p, mutation) ==
  CASE mutation = "wrong-platform"    -> p.hint = "linux"
    [] mutation = "wrong-browser"     -> p.browser = "firefox"
    [] mutation = "js-wrong-platform" -> Says(p.ua, "linux")
    [] mutation = "tls-mismatch"      -> p.browser = "firefox" \/ (p.browser = "chrome" /\ p.platform = "ios")
    [] mutation = "automation-leak"   -> "x-coherencelab-test" \notin p.forbidden
    [] OTHER -> FALSE

\* Every mutation of a shipped profile is a critical failure (applyMutation
\* against the rules), but for those above.  Those of the navigator are one
\* also if the profile has no js_runtime, as the comment on the webdriver rule
\* wants it (rules/js.go:65) and docs/adapters/js-runtime.md:14 does not:
\* "Rules skip when the profile has no js_runtime".
MutationsAreCaught ==
  Ok("scan") /\ ran.res.out.mode[1] = "mutate" =>
    \A p \in Range(Shipped) :
      p.id = ran.res.out.id /\ DOMAIN captured = {} =>
        \/ ran.res.out.mode[2] = "" \/ Unnoticed(p, ran.res.out.mode[2])
        \/ ran.res.out.result.CriticalFails > 0

\* What crossLayerFirefoxRule leaves out: Chrome's hello from Firefox.
MissedByScan(p, s) == p.browser = "firefox" /\ s.tls.preset[1] = "chrome"

\* compare and scan agree: a session that compare says contradicts itself
\* fails critically against every shipped profile; one whose webdriver is true
\* does so whether or not the profile has a js_runtime (rules/js.go: "No profile
\* expectation: real browsers must not leak webdriver=true"; here too against
\* docs/adapters/js-runtime.md:14).
CompareFlagsAreCritical ==
  Ok("compare") =>
    \A s \in {ran.res.out.a, ran.res.out.b} : crossLayerNote(s) =>
      \A i \in DOMAIN Shipped :
        MissedByScan(Shipped[i], s) \/ Run(Completed(Shipped[i]), s).result.CriticalFails > 0

\* After any block the dynamic table has the newest of the fields that were
\* inserted, and no more than fit in the size last set (hpack.go: add, evict).
TableIsNewestThatFit ==
  Ok("headers") =>
    LET d == ran.res.out
        inserted == Insertions(d.reps)
    IN /\ TableSize(d.table) <= d.max
       /\ Len(d.table) <= Len(inserted)
       /\ \A i \in DOMAIN d.table : d.table[i].value = inserted[i].value

\* Of hellos that differ in the order of their extensions and in GREASE, the
\* set signature and JA4 are one, and JA3 tells them apart exactly as the
\* skeleton does, since JA3Raw lists the extensions in their order (tls_ja.go;
\* lab 06: "JA3 also moves when order is shuffled").  What entropy.go:132-136
\* prints of it, and lab 04 expects, is the opposite: "JA3 cannot see
\* permutation".
SignaturesIgnoreOrder ==
  Ok("permute") =>
    LET hellos == ran.res.out.samples
        rep    == ran.res.out.report
    IN /\ \A i, j \in DOMAIN hellos :
            /\ JA4(hellos[i]) = JA4(hellos[j])
            /\ extensionSetSignature(hellos[i].ExtensionOrder) = extensionSetSignature(hellos[j].ExtensionOrder)
       /\ rep.SkeletonStable <=> rep.UniqueJA3 = 1
=============================================================================
