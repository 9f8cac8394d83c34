------------------------- MODULE CommandLineProofs -------------------------
(***************************************************************************)
(* CommandLine for any profiles, corpus, clients and blocks: its types,    *)
(* what lab headers says of a block, what scan, compare and capture say of *)
(* a browser, and what fingerprint says of a capture.                      *)
(***************************************************************************)
EXTENDS CommandLine, LabProofs

-----------------------------------------------------------------------------
(* Commands                                                                *)

\* What a command that writes nothing does.
LEMMA RunsParts ==
  ASSUME NEW cmd, NEW res, Runs(cmd, res)
  PROVE  /\ ran'.cmd = cmd /\ ran'.res = res
         /\ UNCHANGED <<captured, ingested>>
         /\ UNCHANGED <<command, family, stored, next, opened, newest, loaded, report>>
BY DEF Runs, Result, serveVars

\* The commands that write no file and whose answer no property reads.
OtherCommand ==
  \E cmd, res : cmd \notin {"headers", "compare", "scan", "fingerprint", "permute"} /\ Runs(cmd, res)

\* The commands over the profiles, but for scan, compare and capture.
LEMMA ProfilesRun == Profiles => ScanProfile \/ CompareExports \/ CaptureProfile \/ OtherCommand
<1> SUFFICES ASSUME Profiles, ~ScanProfile, ~CompareExports, ~CaptureProfile PROVE OtherCommand
  OBVIOUS
<1>1. CASE ScanImport
  BY <1>1 DEF ScanImport, OtherCommand
<1>2. CASE UIScan
  BY <1>2 DEF UIScan, ScanOf, OtherCommand
<1>3. CASE ListProfiles \/ ShowProfile
  BY <1>3 DEF ListProfiles, ShowProfile, OtherCommand
<1>4. CASE ValidateProfiles
  BY <1>4 DEF ValidateProfiles, OtherCommand
<1>5. CASE Demo
  BY <1>5 DEF Demo, OtherCommand
<1> QED BY <1>1, <1>2, <1>3, <1>4, <1>5 DEF Profiles

\* The commands over the corpus, but for lab headers, lab permute, fingerprint
\* and lab ingest-hello.
LEMMA CorpusRuns == Corpus => LabHeaders \/ LabPermute \/ FingerprintFiles \/ IngestHello \/ OtherCommand
<1> SUFFICES ASSUME Corpus, ~LabHeaders, ~LabPermute, ~FingerprintFiles, ~IngestHello PROVE OtherCommand
  OBVIOUS
<1>1. CASE LabWire
  BY <1>1 DEF LabWire, OtherCommand
<1>2. CASE LabQuic
  BY <1>2 DEF LabQuic, OtherCommand
<1>3. CASE LabCorpus
  BY <1>3 DEF LabCorpus, OtherCommand
<1>4. CASE LabGolden \/ LabFixtures
  BY <1>4 DEF LabGolden, LabFixtures, OtherCommand
<1> QED BY <1>1, <1>2, <1>3, <1>4 DEF Corpus

\* scan, compare, lab permute and fingerprint write nothing either.
LEMMA AnswersRun ==
  /\ ScanProfile => \E res : Runs("scan", res)
  /\ CompareExports => \E res : Runs("compare", res)
  /\ LabPermute => \E res : Runs("permute", res)
  /\ FingerprintFiles => \E res : Runs("fingerprint", res)
BY DEF ScanProfile, ScanOf, CompareExports, LabPermute, FingerprintFiles

\* Which command has answered.
LEMMA AnswersCommand ==
  /\ ScanProfile => ran'.cmd = "scan"
  /\ CompareExports => ran'.cmd = "compare"
  /\ LabHeaders => ran'.cmd = "headers"
  /\ LabPermute => ran'.cmd = "permute"
  /\ FingerprintFiles => ran'.cmd = "fingerprint"
BY AnswersRun, RunsParts DEF LabHeaders

\* What a step of the command line may be.
LEMMA StepKinds ==
  ASSUME Next
  PROVE  \/ AtPrompt /\ (CaptureProfile \/ IngestHello)
         \/ AtPrompt /\ (ScanProfile \/ CompareExports \/ LabHeaders \/ LabPermute \/ FingerprintFiles \/ OtherCommand)
         \/ ServeStep \/ ServeReturns \/ Return
<1>1. LabClientHello => OtherCommand
  BY DEF LabClientHello, OtherCommand
<1> QED BY <1>1, ProfilesRun, CorpusRuns DEF Next

\* Which of them answer what the properties read.
LEMMA StepRan ==
  ASSUME [Next]_vars
  PROVE  \/ UNCHANGED <<ran, captured, ingested>>
         \/ ScanProfile \/ CompareExports \/ LabHeaders \/ LabPermute \/ FingerprintFiles
         \/ ran'.cmd \notin {"headers", "compare", "scan", "fingerprint", "permute"}
<1>1. OtherCommand => ran'.cmd \notin {"headers", "compare", "scan", "fingerprint", "permute"}
  BY RunsParts DEF OtherCommand
<1>2. CaptureProfile \/ IngestHello \/ Return => ran'.cmd \notin {"headers", "compare", "scan", "fingerprint", "permute"}
  BY DEF CaptureProfile, IngestHello, Return, Runs, Result, Prompt
<1>3. ServeStep \/ ServeReturns \/ UNCHANGED vars => UNCHANGED <<ran, captured, ingested>>
  BY DEF ServeStep, ServeReturns, vars
<1> QED BY <1>1, <1>2, <1>3, StepKinds

-----------------------------------------------------------------------------
(* lab headers                                                             *)

\* What the command prints of a block.
Printed(reps) ==
  IF ~decode(reps).ok THEN Refused
  ELSE Answer([reps |-> reps, table |-> decode(reps).dyn, max |-> decode(reps).maxTableSize,
               family |-> FamilyGuess(decode(reps).fields)])

\* The blocks that the command makes itself.
LEMMA DemoIsBlock ==
  ASSUME NEW name \in {"chrome", "firefox", "safari"}
  PROVE  IsBlock(EncodeIndexedPseudoBlock(demoOrder(name)))
<1> DEFINE order == demoOrder(name)
           reps == EncodeIndexedPseudoBlock(order)
<1>1. order \in Seq({"m", "a", "s", "p"})
  <2>1. order \in {PseudoChrome, PseudoFirefox, PseudoSafari}
    <3>1. CASE name = "chrome"
      BY <3>1 DEF demoOrder
    <3>2. CASE name = "firefox"
      BY <3>2 DEF demoOrder
    <3>3. CASE name = "safari"
      BY <3>3 DEF demoOrder
    <3> QED BY <3>1, <3>2, <3>3
  <2>2. /\ PseudoChrome \in Seq({"m", "a", "s", "p"})
        /\ PseudoFirefox \in Seq({"m", "a", "s", "p"})
        /\ PseudoSafari \in Seq({"m", "a", "s", "p"})
    BY DEF PseudoChrome, PseudoFirefox, PseudoSafari
  <2> HIDE DEF order
  <2> QED BY <2>1, <2>2
<1> HIDE DEF order
<1>2. DOMAIN order = 1..Len(order) /\ Len(order) \in Nat /\ \A i \in DOMAIN order : order[i] \in {"m", "a", "s", "p"}
  BY <1>1, LenProperties, ElementOfSeq
<1>3. reps = [i \in 1..Len(order) |-> reps[i]]
  BY <1>2 DEF EncodeIndexedPseudoBlock
<1>4. ASSUME NEW i \in 1..Len(order)
      PROVE  reps[i].rep \in {"indexed", "literal"}
  BY <1>2 DEF EncodeIndexedPseudoBlock, Indexed, Literal
<1> HIDE DEF reps
<1>5. \A i \in 1..Len(order) : reps[i] \in Range(reps)
  BY <1>3 DEF Range
<1>6. reps \in Seq(Range(reps))
  BY <1>2, <1>3, <1>5
<1>7. DOMAIN reps = 1..Len(order)
  BY <1>3
<1>8. IsBlock(reps)
  BY <1>4, <1>6, <1>7 DEF IsBlock
<1> QED BY <1>8 DEF reps, order

\* lab headers prints what one of its blocks decodes to.
LEMMA HeadersPrint ==
  ASSUME LabHeaders
  PROVE  \E reps : IsBlock(reps) /\ Runs("headers", Printed(reps))
<1>1. PICK src \in {[from |-> "demo", name |-> n] : n \in {"chrome", "firefox", "safari"}}
                  \cup {[from |-> "bin", content |-> b] : b \in Blocks} :
        Runs("headers", labHeaders(OnDisk, src))
  BY DEF LabHeaders
<1>2. CASE src \in {[from |-> "demo", name |-> n] : n \in {"chrome", "firefox", "safari"}}
  <2> DEFINE reps == EncodeIndexedPseudoBlock(demoOrder(src.name))
  <2>1. IsBlock(reps)
    BY <1>2, DemoIsBlock
  <2>2. src.from = "demo"
    BY <1>2
  <2>3. labHeaders(OnDisk, src) = Printed(reps)
    BY <2>2 DEF labHeaders, Then, Checked, Answer, Refused, Printed
  <2> QED BY <1>1, <2>1, <2>3
<1>3. CASE src \in {[from |-> "bin", content |-> b] : b \in Blocks}
  <2>1. IsBlock(src.content) /\ src.from = "bin"
    BY <1>3, CommandLineAssumption
  <2>2. labHeaders(OnDisk, src) = Printed(src.content)
    BY <2>1 DEF labHeaders, Then, Checked, Answer, Refused, Printed, Given
  <2> QED BY <1>1, <2>1, <2>2
<1> QED BY <1>1, <1>2, <1>3

\* The property holds of what is printed.
LEMMA PrintedIsNewest ==
  ASSUME NEW reps, IsBlock(reps), ran' = Result("headers", Printed(reps))
  PROVE  TableIsNewestThatFit'
<1> SUFFICES ASSUME decode(reps).ok
             PROVE  TableIsNewestThatFit'
  BY DEF Printed, Refused, TableIsNewestThatFit, Ok, Result
<1>1. Newest(decode(reps).dyn, decode(reps).maxTableSize, Insertions(reps))
  BY DecodedTableIsNewest
<1>2. /\ ran'.res.out.table = decode(reps).dyn /\ ran'.res.out.max = decode(reps).maxTableSize
      /\ ran'.res.out.reps = reps
  BY DEF Printed, Answer, Result
<1>3. DOMAIN decode(reps).dyn = 1..Len(decode(reps).dyn)
  BY <1>1, LenProperties DEF Newest
<1> QED BY <1>1, <1>2, <1>3 DEF Newest, TableIsNewestThatFit

\* Whatever blocks are decoded, the table that lab headers prints has the
\* newest of the fields that the block inserted, and they fit in the size that
\* was set last (hpack.go: add, evict).
THEOREM TableIsNewestThatFitHolds == Spec => []TableIsNewestThatFit
<1>1. Init => TableIsNewestThatFit
  BY DEF Init, Prompt, TableIsNewestThatFit, Ok
<1>2. TableIsNewestThatFit /\ [Next]_vars => TableIsNewestThatFit'
  <2> SUFFICES ASSUME TableIsNewestThatFit, [Next]_vars PROVE TableIsNewestThatFit'
    OBVIOUS
  <2>1. CASE UNCHANGED ran
    BY <2>1 DEF TableIsNewestThatFit, Ok
  <2>2. CASE ran'.cmd # "headers"
    BY <2>2 DEF TableIsNewestThatFit, Ok
  <2>3. CASE LabHeaders
    <3>1. PICK reps : IsBlock(reps) /\ Runs("headers", Printed(reps))
      BY <2>3, HeadersPrint
    <3> QED BY <3>1, PrintedIsNewest DEF Runs
  <2>4. ScanProfile \/ CompareExports \/ LabPermute \/ FingerprintFiles => ran'.cmd # "headers"
    BY AnswersCommand
  <2> QED BY <2>1, <2>2, <2>3, <2>4, StepRan
<1> QED BY <1>1, <1>2, PTL DEF Spec

-----------------------------------------------------------------------------
(* Browsers                                                                *)

\* User-Agent and pattern are all that Completed may change.
LEMMA CompletedKeeps ==
  ASSUME NEW p, OneBrowser(p)
  PROVE  /\ DOMAIN Completed(p) = ProfileFields
         /\ Completed(p).ua = p.ua /\ p.ua # {}
         /\ \A n \in ProfileFields \ {"ua", "pattern"} : Completed(p)[n] = p[n]
<1>1. DOMAIN p = ProfileFields /\ {"ua", "pattern"} \subseteq ProfileFields
  BY DEF OneBrowser, ProfileFields, SignalFields
<1>2. p.ua # {}
  <2>1. ProductsOf(p.browser, p.platform) \cap Products # {}
    BY DEF OneBrowser, ProductsOf, Products, Blinks
  <2> QED BY <2>1 DEF OneBrowser, Says
<1>3. Completed(p) = [p EXCEPT !.ua = p.ua, !.pattern = IF p.pattern = {} THEN p.ua ELSE p.pattern]
  BY <1>2 DEF Completed
<1> HIDE DEF ProfileFields
<1> QED BY <1>1, <1>2, <1>3

\* A session that contradicts itself is not coherent with any browser.
LEMMA ContradictionFails ==
  ASSUME NEW p, NEW s, p.browser \in Blinks \cup {"firefox", "safari"}, p.navigator.webdriver # "true",
         NamesOneBrowser(s), crossLayerNote(s), ~MissedByScan(p, s)
  PROVE  ~Coherent(p, s)
<1> SUFFICES ASSUME Coherent(p, s) PROVE FALSE
  OBVIOUS
<1> USE DEF Blinks
<1>0. s.ua # {}
  BY DEF crossLayerNote
<1>1. CASE s.hint = "windows" /\ ~Says(s.ua, "windows nt")
  BY <1>0, <1>1 DEF Coherent, PlatformAgrees, platformConsistent
<1>2. CASE s.hint = "linux" /\ ~Says(s.ua, "linux")
  BY <1>0, <1>2 DEF Coherent, PlatformAgrees, platformConsistent
<1>3. CASE Says(s.ua, "firefox") /\ s.brands # {}
  BY <1>0, <1>3 DEF Coherent, BrandsAgree, browserConsistent, IsLikeFirefox, IsLikeSafari, NamesOneBrowser
<1>4. CASE Says(s.ua, "chrome") /\ s.brands # {} /\ ~ChromiumBrands(s.brands)
  BY <1>0, <1>4 DEF Coherent, BrandsAgree, browserConsistent, IsLikeFirefox, IsLikeSafari, NamesOneBrowser,
                    ChromiumBrands, Branded
<1>5. CASE s.tls.there /\ Says(s.ua, "firefox") /\ s.tls.preset[1] = "chrome"
  BY <1>5 DEF Coherent, IsLikeChrome, IsLikeSafari, NamesOneBrowser, MissedByScan
<1>6. CASE s.tls.there /\ Says(s.ua, "chrome") /\ s.tls.preset[1] = "firefox"
  <2>1. s.tls.preset # NoPreset
    <3>1. NoPreset[1] = ""
      BY DEF NoPreset
    <3> QED BY <1>6, <3>1
  <2>2. ~chromiumTLSPreset(PresetOf(p, s))
    BY <1>6, <2>1 DEF chromiumTLSPreset, PresetOf
  <2>3. ~Says(s.ua, "crios") /\ ~Says(s.ua, "firefox")
    BY <1>6 DEF NamesOneBrowser
  <2> QED BY <1>6, <2>2, <2>3 DEF Coherent, IsLikeChrome, IsLikeFirefox, IsLikeSafari
<1>7. CASE s.navigator.there /\ s.navigator.webdriver = "true"
  BY <1>7 DEF Coherent, WebdriverAgrees
<1> QED BY <1>1, <1>2, <1>3, <1>4, <1>5, <1>6, <1>7 DEF crossLayerNote

\* What a local scan sees of a profile.
LEMMA LocalSignals ==
  ASSUME NEW p
  PROVE  LET s == LocalSnapshot(p)
         IN /\ DOMAIN s = SignalFields
            /\ DOMAIN s.tls = {"there", "version", "alpn", "preset", "ja3"}
            /\ s.ua = p.ua /\ s.brands = p.brands /\ s.hint = p.hint
            /\ s.headers = ApplyProfileHeaders(p) /\ s.navigator = p.navigator
            /\ s.tls.there /\ s.tls.preset = p.preset
<1>1. DOMAIN LocalSnapshot(p) = SignalFields
  BY Zenon DEF LocalSnapshot, FromRequest, SignalFields
<1> QED BY <1>1 DEF LocalSnapshot, FromRequest, jsFromProfile

\* What a mutation changes of a snapshot.
IsMutated(s, mutation, t) ==
  /\ DOMAIN s.headers \subseteq DOMAIN t.headers
  /\ t.ua = IF mutation = "wrong-browser" THEN FirefoxOnWindows ELSE s.ua
  /\ t.hint = IF mutation = "wrong-platform" THEN "linux" ELSE s.hint
  /\ t.brands = s.brands /\ t.tls.there = s.tls.there
  /\ t.tls.preset = IF mutation = "tls-mismatch" THEN <<"firefox", 120>> ELSE s.tls.preset
  /\ mutation = "wrong-platform" => "sec-ch-ua-platform" \in DOMAIN t.headers
  /\ mutation = "automation-leak" => "x-coherencelab-test" \in DOMAIN t.headers
  /\ mutation = "js-webdriver" => t.navigator.webdriver = "true"
  /\ mutation = "js-wrong-platform" => t.navigator.there /\ t.navigator.platform = "Linux x86_64"

\* Each mutation changes just that.
LEMMA MutatedSignals ==
  ASSUME NEW s, NEW mutation \in Mutations,
         DOMAIN s = SignalFields, DOMAIN s.tls = {"there", "version", "alpn", "preset", "ja3"},
         DOMAIN s.navigator = {"there", "platform", "vendor", "webdriver"}
  PROVE  IsMutated(s, mutation, applyMutation(s, mutation))
<1>1. ASSUME NEW name
      PROVE  /\ DOMAIN WithHeader(s, name).headers = {name} \cup DOMAIN s.headers
             /\ WithHeader(s, name).ua = s.ua /\ WithHeader(s, name).hint = s.hint
             /\ WithHeader(s, name).brands = s.brands /\ WithHeader(s, name).tls = s.tls
             /\ DOMAIN WithHeader(s, name) = SignalFields
  BY DEF WithHeader, SignalFields
<1>2. CASE mutation = "wrong-platform"
  <2>1. applyMutation(s, mutation) = [WithHeader(s, "sec-ch-ua-platform") EXCEPT !.hint = "linux"]
    BY <1>2 DEF applyMutation
  <2> QED BY <1>1, <1>2, <2>1 DEF SignalFields, IsMutated
<1>3. CASE mutation = "wrong-browser"
  <2>1. applyMutation(s, mutation) = [WithHeader(s, "user-agent") EXCEPT !.ua = FirefoxOnWindows]
    BY <1>3 DEF applyMutation
  <2> QED BY <1>1, <1>3, <2>1 DEF SignalFields, IsMutated
<1>4. CASE mutation = "automation-leak"
  <2>1. applyMutation(s, mutation)
          = [WithHeader(s, "x-coherencelab-test") EXCEPT !.order = Append(@, "x-coherencelab-test")]
    BY <1>4 DEF applyMutation
  <2> QED BY <1>1, <1>4, <2>1 DEF SignalFields, IsMutated
<1>5. CASE mutation = "tls-mismatch"
  <2>1. applyMutation(s, mutation) = [s EXCEPT !.tls.preset = <<"firefox", 120>>]
    BY <1>5 DEF applyMutation
  <2> QED BY <1>5, <2>1 DEF SignalFields, IsMutated
<1>6. CASE mutation = "js-webdriver"
  <2>1. applyMutation(s, mutation) = [s EXCEPT !.navigator.there = TRUE, !.navigator.webdriver = "true"]
    BY <1>6 DEF applyMutation
  <2> DEFINE u == [s EXCEPT !.navigator.there = TRUE]
  <2>3. /\ DOMAIN u = SignalFields /\ "webdriver" \in DOMAIN u.navigator
        /\ \A f \in SignalFields \ {"navigator"} : u[f] = s[f]
    BY DEF SignalFields
  <2>4. applyMutation(s, mutation) = [u EXCEPT !.navigator.webdriver = "true"]
    BY <2>1
  <2> HIDE DEF u
  <2>2. /\ applyMutation(s, mutation).navigator.webdriver = "true"
        /\ \A f \in SignalFields \ {"navigator"} : applyMutation(s, mutation)[f] = s[f]
    BY <2>3, <2>4 DEF SignalFields
  <2> QED BY <1>6, <2>2 DEF SignalFields, IsMutated
<1>7. CASE mutation = "js-wrong-platform"
  <2>1. applyMutation(s, mutation) = [s EXCEPT !.navigator.there = TRUE, !.navigator.platform = "Linux x86_64"]
    BY <1>7 DEF applyMutation
  <2> QED BY <1>7, <2>1 DEF SignalFields, IsMutated
<1> QED BY <1>2, <1>3, <1>4, <1>5, <1>6, <1>7 DEF Mutations

\* A mutation that is noticed is not coherent with the profile.
LEMMA MutationFails ==
  ASSUME NEW p, OneBrowser(p), NEW mutation \in Mutations, ~Unnoticed(p, mutation)
  PROVE  ~Coherent(Completed(p), applyMutation(LocalSnapshot(Completed(p)), mutation))
<1> DEFINE q == Completed(p)
           t == applyMutation(LocalSnapshot(q), mutation)
<1>1. /\ p.browser \in Blinks \cup {"firefox", "safari"}
      /\ p.platform \in {"windows", "macos", "linux", "android", "ios"}
      /\ p.platform = "ios" => p.browser \in {"chrome", "safari"}
      /\ \A w \in Products : Says(p.ua, w) <=> w \in ProductsOf(p.browser, p.platform)
      /\ \A w \in PlatformWords : Says(p.ua, w) <=> w \in WordsOf(p.platform)
      /\ p.hint = p.platform \/ (p.hint = "" /\ "sec-ch-ua-platform" \in p.forbidden)
      /\ p.navigator.webdriver # "true"
      /\ DOMAIN p.navigator = {"there", "platform", "vendor", "webdriver"}
  BY DEF OneBrowser
<1>2. /\ q.ua = p.ua /\ p.ua # {} /\ q.browser = p.browser /\ q.platform = p.platform /\ q.hint = p.hint
      /\ q.forbidden = p.forbidden /\ q.navigator = p.navigator /\ q.preset = p.preset
  BY CompletedKeeps DEF ProfileFields, SignalFields
<1>3. /\ t.ua = IF mutation = "wrong-browser" THEN FirefoxOnWindows ELSE p.ua
      /\ t.hint = IF mutation = "wrong-platform" THEN "linux" ELSE p.hint
      /\ t.tls.there
      /\ mutation = "tls-mismatch" => t.tls.preset = <<"firefox", 120>>
      /\ mutation = "wrong-platform" => "sec-ch-ua-platform" \in DOMAIN t.headers
      /\ mutation = "automation-leak" => "x-coherencelab-test" \in DOMAIN t.headers
      /\ mutation = "js-webdriver" => t.navigator.webdriver = "true"
      /\ mutation = "js-wrong-platform" => t.navigator.there /\ t.navigator.platform = "Linux x86_64"
  <2> HIDE DEF q
  <2> DEFINE s == LocalSnapshot(q)
  <2>1. /\ DOMAIN s = SignalFields /\ DOMAIN s.tls = {"there", "version", "alpn", "preset", "ja3"}
        /\ s.ua = q.ua /\ s.hint = q.hint /\ s.navigator = q.navigator /\ s.tls.there
    BY LocalSignals
  <2> HIDE DEF s
  <2>2. t = applyMutation(s, mutation)
    BY DEF s
  <2>3. DOMAIN s.navigator = {"there", "platform", "vendor", "webdriver"}
    BY <1>1, <1>2, <2>1
  <2> HIDE DEF t
  <2>4. IsMutated(s, mutation, t)
    BY <2>1, <2>2, <2>3, MutatedSignals
  <2> QED BY <1>2, <2>1, <2>4 DEF IsMutated
<1> HIDE DEF q, t
<1> SUFFICES ASSUME Coherent(q, t) PROVE FALSE
  BY DEF q, t
<1>4. /\ PlatformAgrees(q, t) /\ SendsNoForbidden(q, t) /\ WebdriverAgrees(q, t) /\ NavigatorAgrees(q, t)
      /\ IsLikeChrome(q, t) /\ IsLikeSafari(q, t)
  BY DEF Coherent
<1>5. p.platform # "ios" /\ p.browser # "safari" => ~Says(p.ua, "crios")
  BY <1>1 DEF Products, ProductsOf, Blinks
<1>6. CASE mutation = "wrong-platform"
  <2>1. platformConsistent(p.ua, "linux") /\ p.hint # "linux"
    BY <1>2, <1>3, <1>4, <1>6 DEF PlatformAgrees, Unnoticed
  <2>2. Says(p.ua, "linux") /\ ~Says(p.ua, "android")
    BY <2>1 DEF platformConsistent
  <2>3. p.platform = "linux"
    BY <1>1, <2>2 DEF PlatformWords, WordsOf
  <2> QED BY <1>1, <1>2, <1>3, <1>4, <1>6, <2>1, <2>3 DEF SendsNoForbidden
<1>7. CASE mutation = "wrong-browser"
  <2>1. p.browser # "firefox" /\ t.ua = FirefoxOnWindows
    BY <1>3, <1>7 DEF Unnoticed
  <2>2. \A w \in {"chrome", "edg", "opr", "crios", "safari"} : ~Says(t.ua, w)
    <3> DEFINE windows == <<"windows nt", 0>>
               firefox == <<"firefox", 133>>
    <3>1. t.ua = {windows, firefox}
      BY <2>1 DEF FirefoxOnWindows
    <3>2. windows[1] = "windows nt" /\ firefox[1] = "firefox"
      OBVIOUS
    <3> HIDE DEF windows, firefox
    <3> QED BY <3>1, <3>2 DEF Says
  <2> QED BY <1>1, <1>2, <1>3, <1>4, <2>1, <2>2 DEF IsLikeChrome, IsLikeSafari, Blinks
<1>8. CASE mutation = "automation-leak"
  BY <1>2, <1>3, <1>4, <1>8 DEF SendsNoForbidden, Unnoticed
<1>9. CASE mutation = "tls-mismatch"
  <2>1. p.browser # "firefox" /\ ~(p.browser = "chrome" /\ p.platform = "ios")
    BY <1>9 DEF Unnoticed
  <2>2. t.tls.preset[1] = "firefox" /\ PresetOf(q, t) = t.tls.preset
    <3> DEFINE firefox == <<"firefox", 120>>
    <3>1. NoPreset[1] = "" /\ firefox[1] = "firefox"
      BY DEF NoPreset
    <3>2. t.tls.preset = firefox
      BY <1>3, <1>9
    <3> HIDE DEF firefox
    <3> QED BY <3>1, <3>2 DEF PresetOf
  <2>3. ~chromiumTLSPreset(PresetOf(q, t)) /\ ~iosTLSPreset(PresetOf(q, t))
    BY <2>2 DEF chromiumTLSPreset, iosTLSPreset
  <2>4. t.ua = p.ua
    BY <1>3, <1>9
  <2>5. CASE p.browser = "safari"
    BY <1>2, <1>3, <1>4, <2>3, <2>5 DEF IsLikeSafari
  <2>6. CASE p.browser \in Blinks
    <3>1. p.platform # "ios" /\ ~Says(t.ua, "crios")
      BY <1>1, <1>5, <2>1, <2>4, <2>6 DEF Blinks
    <3> QED BY <1>2, <1>3, <1>4, <2>3, <2>6, <3>1 DEF IsLikeChrome, Blinks
  <2> QED BY <1>1, <2>1, <2>5, <2>6
<1>10. CASE mutation = "js-webdriver"
  BY <1>1, <1>2, <1>3, <1>4, <1>10 DEF WebdriverAgrees
<1>11. CASE mutation = "js-wrong-platform"
  <2>1. t.ua = p.ua /\ t.hint = p.hint /\ ~Says(p.ua, "linux")
    BY <1>3, <1>11 DEF Unnoticed
  <2>2. p.platform \notin {"linux", "android"} /\ ~Says(p.ua, "android")
    BY <1>1, <2>1 DEF PlatformWords, WordsOf
  <2>3. navigatorPlatformConsistent("Linux x86_64", p.ua, p.hint, p.platform)
    BY <1>2, <1>3, <1>4, <1>11, <2>1 DEF NavigatorAgrees
  <2> QED BY <1>1, <2>1, <2>2, <2>3 DEF navigatorPlatformConsistent
<1> QED BY <1>6, <1>7, <1>8, <1>9, <1>10, <1>11 DEF Mutations

\* In the directory as shipped, an id that is found is that of its profile.
LEMMA ShippedIsFound ==
  ASSUME NEW id, FindByID(Shipped, id).ok
  PROVE  \E p \in Range(Shipped) : p.id = id /\ FindByID(Shipped, id).profile = Completed(p)
<1> DEFINE all == [i \in DOMAIN Shipped |-> Completed(Shipped[i])]
           of == {i \in DOMAIN Shipped : Completed(Shipped[i]).id = id}
<1>1. DOMAIN Shipped \subseteq Nat
  BY ProfilesAssumption
<1>2. LoadDir(Shipped) = [ok |-> TRUE, profiles |-> all]
  BY DEF FindByID, LoadDir
<1>3. /\ of # {}
      /\ FindByID(Shipped, id) = [ok |-> TRUE, profile |-> all[Min(of)]]
  <2> DEFINE d == LoadDir(Shipped)
             among == {i \in DOMAIN d.profiles : d.profiles[i].id = id}
  <2>1. d.ok /\ d.profiles = all
    BY <1>2
  <2> HIDE DEF all, d
  <2>2. FindByID(Shipped, id)
          = IF among = {} THEN [ok |-> FALSE] ELSE [ok |-> TRUE, profile |-> d.profiles[Min(among)]]
    BY <2>1 DEF FindByID, d
  <2>3. among = of
    BY <2>1 DEF all
  <2> HIDE DEF of, among
  <2> QED BY <2>1, <2>2, <2>3
<1>4. Min(of) \in of /\ of \subseteq DOMAIN Shipped
  <2>1. PICK m \in of : \A k \in of : m <= k
    BY <1>1, <1>3, LeastNumber
  <2> HIDE DEF of
  <2>2. Min(of) \in of
    BY <2>1 DEF Min
  <2> QED BY <2>2 DEF of
<1>5. \A i \in DOMAIN Shipped : Shipped[i] \in Range(Shipped) /\ Completed(Shipped[i]).id = Shipped[i].id
  <2> TAKE i \in DOMAIN Shipped
  <2>1. OneBrowser(Shipped[i])
    BY ProfilesAssumption DEF Range
  <2> QED BY <2>1, CompletedKeeps DEF Range, ProfileFields, SignalFields
<1> DEFINE i == Min(of)
<1>6. i \in DOMAIN Shipped /\ Completed(Shipped[i]).id = id
  BY <1>4
<1>7. FindByID(Shipped, id).profile = Completed(Shipped[i])
  BY <1>3, <1>6
<1> HIDE DEF i, of, all
<1> QED BY <1>5, <1>6, <1>7

\* And it is the only one of the id.
LEMMA ShippedIdsDiffer ==
  ASSUME NEW p \in Range(Shipped), NEW q \in Range(Shipped), p.id = q.id
  PROVE  p = q
BY ProfilesAssumption DEF Range

\* A profile of the same browser, and a snapshot of its signals, with an
\* observed preset that fits or none.
LEMMA OwnSignalsCohere ==
  ASSUME NEW p, OneBrowser(p), NEW q, NEW s,
         q.browser = p.browser, q.platform = p.platform, PresetFits(q.preset, p.browser, p.platform),
         q.pattern # {}, q.pattern \subseteq p.ua, q.mode = "contains",
         q.forbidden \cap DOMAIN s.headers = {}, q.navigator = p.navigator,
         s.ua = p.ua, s.brands = p.brands, s.hint = p.hint, s.navigator = p.navigator,
         s.tls.preset = NoPreset \/ PresetFits(s.tls.preset, p.browser, p.platform)
  PROVE  Coherent(q, s)
<1>1. /\ p.browser \in Blinks \cup {"firefox", "safari"}
      /\ p.platform \in {"windows", "macos", "linux", "android", "ios"}
      /\ p.platform = "ios" => p.browser \in {"chrome", "safari"}
      /\ \A w \in Products : Says(p.ua, w) <=> w \in ProductsOf(p.browser, p.platform)
      /\ \A w \in PlatformWords : Says(p.ua, w) <=> w \in WordsOf(p.platform)
      /\ p.browser = "safari" => Says(p.ua, "safari")
      /\ p.brands # {} => p.browser \in Blinks /\ Branded(p.brands, "Chromium")
      /\ p.hint = p.platform \/ p.hint = ""
      /\ p.navigator.there /\ p.navigator.platform # "" => p.navigator.platform \in NavigatorsOf(p.platform)
  BY DEF OneBrowser
<1>2. p.ua # {}
  BY CompletedKeeps
<1>3. /\ Says(p.ua, "crios") <=> p.browser = "chrome" /\ p.platform = "ios"
      /\ Says(p.ua, "chrome") <=> p.browser \in Blinks /\ p.platform # "ios"
      /\ Says(p.ua, "opr") <=> p.browser = "opera"
      /\ Says(p.ua, "firefox") <=> p.browser = "firefox"
      /\ Says(p.ua, "version") <=> p.browser = "safari"
  BY <1>1 DEF Products, ProductsOf, Blinks
<1>4. PresetFits(PresetOf(q, s), p.browser, p.platform)
  BY DEF PresetOf
<1>5. MatchesPattern(q, s)
  BY DEF MatchesPattern, matchUserAgent
<1>6. PlatformAgrees(q, s)
  BY <1>1 DEF PlatformAgrees, platformConsistent, PlatformWords, WordsOf
<1>7. BrandsAgree(q, s)
  <2>1. p.brands # {} => ChromiumBrands(p.brands)
    BY <1>1 DEF Branded, ChromiumBrands
  <2> QED BY <1>1, <1>3, <2>1 DEF BrandsAgree, browserConsistent, Blinks
<1>8. SendsNoForbidden(q, s)
  BY DEF SendsNoForbidden
<1>9. WebdriverAgrees(q, s)
  BY DEF WebdriverAgrees
<1>10. NavigatorAgrees(q, s)
  <2> SUFFICES ASSUME p.navigator.there, p.navigator.platform # ""
               PROVE  navigatorPlatformConsistent(p.navigator.platform, p.ua, p.hint, p.platform)
    BY <1>2 DEF NavigatorAgrees
  <2>1. p.navigator.platform \in NavigatorsOf(p.platform)
    BY <1>1
  <2>2. /\ Says(p.ua, "android") <=> p.platform = "android"
        /\ Says(p.ua, "linux") <=> p.platform \in {"linux", "android"}
    BY <1>1 DEF PlatformWords, WordsOf
  <2> QED BY <1>1, <2>1, <2>2 DEF NavigatorsOf, navigatorPlatformConsistent
<1>11. IsLikeChrome(q, s)
  <2>1. CASE p.platform = "ios"
    BY <1>1, <1>3, <2>1 DEF IsLikeChrome, PresetFits, Blinks
  <2>2. CASE p.platform # "ios"
    BY <1>1, <1>3, <1>4, <2>2 DEF IsLikeChrome, PresetFits, Blinks
  <2> QED BY <2>1, <2>2
<1>12. IsLikeFirefox(q, s)
  BY <1>1, <1>3 DEF IsLikeFirefox, Blinks
<1>13. IsLikeSafari(q, s)
  BY <1>1, <1>3, <1>4 DEF IsLikeSafari, PresetFits, Blinks
<1> QED BY <1>5, <1>6, <1>7, <1>8, <1>9, <1>10, <1>11, <1>12, <1>13 DEF Coherent

\* The User-Agent of a browser's profile is read as that browser's.
LEMMA BrowserIsInferred ==
  ASSUME NEW p, OneBrowser(p)
  PROVE  InferFromUA(p.ua).browser = p.browser /\ InferFromUA(p.ua).platform = p.platform
<1>1. /\ p.browser \in Blinks \cup {"firefox", "safari"}
      /\ p.platform \in {"windows", "macos", "linux", "android", "ios"}
      /\ p.platform = "ios" => p.browser \in {"chrome", "safari"}
      /\ \A w \in Products : Says(p.ua, w) <=> w \in ProductsOf(p.browser, p.platform)
      /\ \A w \in PlatformWords : Says(p.ua, w) <=> w \in WordsOf(p.platform)
      /\ p.browser = "safari" => Says(p.ua, "safari")
  BY DEF OneBrowser
<1>2. /\ Says(p.ua, "crios") <=> p.browser = "chrome" /\ p.platform = "ios"
      /\ Says(p.ua, "chrome") <=> p.browser \in Blinks /\ p.platform # "ios"
      /\ Says(p.ua, "opr") <=> p.browser = "opera"
      /\ Says(p.ua, "edg") <=> p.browser = "edge"
      /\ Says(p.ua, "firefox") <=> p.browser = "firefox"
      /\ Says(p.ua, "version") <=> p.browser = "safari"
  BY <1>1 DEF Products, ProductsOf, Blinks
<1>3. /\ Says(p.ua, "android") <=> p.platform = "android"
      /\ Says(p.ua, "iphone") <=> p.platform = "ios"
      /\ Says(p.ua, "mac os x") <=> p.platform \in {"macos", "ios"}
      /\ Says(p.ua, "linux") <=> p.platform \in {"linux", "android"}
  BY <1>1 DEF PlatformWords, WordsOf
<1> DEFINE webkit   == Says(p.ua, "safari") /\ ~Says(p.ua, "chrome")
           product  == FirstSaid(p.ua, <<"edg", "opr", "firefox", "crios", IF webkit THEN "version" ELSE "chrome">>)
           platform == FirstSaid(p.ua, <<"android", "iphone", "mac os x", "linux">>)
<1>4. InferFromUA(p.ua).browser = p.browser
  <2>1. /\ p.browser = "edge" => product = "edg"
        /\ p.browser = "opera" => product = "opr"
        /\ p.browser = "firefox" => product = "firefox"
        /\ p.browser = "safari" => product = "version"
        /\ p.browser = "chrome" => product \in {"crios", "chrome"}
    <3> DEFINE last == IF webkit THEN "version" ELSE "chrome"
    <3>1. p.browser = "safari" => last = "version" /\ Says(p.ua, last)
      BY <1>1, <1>2 DEF Blinks
    <3>2. p.browser = "chrome" /\ p.platform # "ios" => last = "chrome" /\ Says(p.ua, last)
      BY <1>1, <1>2 DEF Blinks
    <3> HIDE DEF last, webkit
    <3>3. product = FirstSaid(p.ua, <<"edg", "opr", "firefox", "crios", last>>)
      BY DEF last
    <3> HIDE DEF product
    <3>4. product = IF Says(p.ua, "edg") THEN "edg" ELSE IF Says(p.ua, "opr") THEN "opr"
                    ELSE IF Says(p.ua, "firefox") THEN "firefox" ELSE IF Says(p.ua, "crios") THEN "crios"
                    ELSE IF Says(p.ua, last) THEN last ELSE ""
      BY <3>3, FirstOfFive, Zenon
    <3> QED BY <1>1, <1>2, <3>1, <3>2, <3>4 DEF Blinks
  <2>2. InferFromUA(p.ua).browser
          = CASE product = "edg" -> "edge" [] product = "opr" -> "opera"
              [] product = "firefox" -> "firefox" [] product = "version" -> "safari"
              [] OTHER -> "chrome"
    BY Zenon DEF InferFromUA
  <2> HIDE DEF product
  <2> QED BY <1>1, <2>1, <2>2 DEF Blinks
<1>5. InferFromUA(p.ua).platform = p.platform
  <2>1. /\ p.platform = "android" => platform = "android"
        /\ p.platform = "ios" => platform = "iphone"
        /\ p.platform = "macos" => platform = "mac os x"
        /\ p.platform = "linux" => platform = "linux"
        /\ p.platform = "windows" => platform = ""
    <3>1. platform = IF Says(p.ua, "android") THEN "android" ELSE IF Says(p.ua, "iphone") THEN "iphone"
                     ELSE IF Says(p.ua, "mac os x") THEN "mac os x" ELSE IF Says(p.ua, "linux") THEN "linux"
                     ELSE ""
      BY FirstOfFour, Zenon
    <3> HIDE DEF platform
    <3> QED BY <1>1, <1>3, <3>1
  <2>2. InferFromUA(p.ua).platform
          = CASE platform = "iphone" -> "ios" [] platform = "mac os x" -> "macos"
              [] platform = "" -> "windows" [] OTHER -> platform
    BY Zenon DEF InferFromUA
  <2> HIDE DEF platform
  <2> QED BY <1>1, <2>1, <2>2
<1> QED BY <1>4, <1>5

\* What a probe sees of a visit.
LEMMA VisitSignals ==
  ASSUME NEW p, NEW in, IsVisitOf(in, p)
  PROVE  /\ in.snapshot.ua = p.ua /\ in.snapshot.brands = p.brands /\ in.snapshot.hint = p.hint
         /\ in.snapshot.headers = ApplyProfileHeaders(p) /\ in.snapshot.navigator = p.navigator
         /\ in.snapshot.tls.preset \in {NoPreset, p.preset}
         /\ in.browser = InferFromUA(p.ua).browser /\ in.platform = InferFromUA(p.ua).platform
<1> DEFINE s == in.snapshot
<1>1. /\ s.ua = p.ua /\ s.brands = p.brands /\ s.hint = p.hint
      /\ s.headers = ApplyProfileHeaders(p) /\ s.navigator = p.navigator
  <2>1. s = FromRequest(p, s.tls, s.h2)
    BY DEF IsVisitOf
  <2> HIDE DEF s
  <2> QED BY <2>1 DEF FromRequest, jsFromProfile
<1>2. in.browser = InferFromUA(s.ua).browser /\ in.platform = InferFromUA(s.ua).platform
  <2>1. in = FromHTTP(in.id, s)
    BY DEF IsVisitOf
  <2> HIDE DEF s
  <2> QED BY <2>1 DEF FromHTTP
<1> QED BY <1>1, <1>2 DEF IsVisitOf

\* The preset of a captured profile fits the browser.
LEMMA CapturedPresetFits ==
  ASSUME NEW p, OneBrowser(p), NEW s, s.ua = p.ua, s.tls.preset \in {NoPreset, p.preset}
  PROVE  PresetFits(CapturedPreset(s, p.browser), p.browser, p.platform)
<1> DEFINE onIOS == <<"safari_ios", 18>>
           firefox == <<"firefox", 133>>
           safari == <<"safari", 18>>
           chrome == <<"chrome", 131>>
<1>1. /\ p.browser \in Blinks \cup {"firefox", "safari"}
      /\ p.platform = "ios" => p.browser \in {"chrome", "safari"}
      /\ Says(p.ua, "crios") <=> p.browser = "chrome" /\ p.platform = "ios"
      /\ PresetFits(p.preset, p.browser, p.platform)
  BY DEF OneBrowser, Products, ProductsOf, Blinks
<1>2. onIOS[1] = "safari_ios" /\ firefox[1] = "firefox" /\ safari[1] = "safari" /\ chrome[1] = "chrome"
  OBVIOUS
<1>3. CapturedPreset(s, p.browser)
        = IF Says(p.ua, "crios") THEN onIOS
          ELSE IF s.tls.preset # NoPreset THEN s.tls.preset ELSE guessUTLS(p.browser)
  BY DEF CapturedPreset
<1>4. guessUTLS(p.browser)
        = IF p.browser = "firefox" THEN firefox ELSE IF p.browser = "safari" THEN safari ELSE chrome
  BY Zenon DEF guessUTLS
<1> HIDE DEF onIOS, firefox, safari, chrome
<1>5. CASE Says(p.ua, "crios")
  BY <1>1, <1>2, <1>3, <1>5 DEF PresetFits, iosTLSPreset
<1>6. CASE ~Says(p.ua, "crios") /\ s.tls.preset # NoPreset
  BY <1>1, <1>3, <1>6
<1>7. CASE ~Says(p.ua, "crios") /\ s.tls.preset = NoPreset
  BY <1>1, <1>2, <1>3, <1>4, <1>7 DEF PresetFits, iosTLSPreset, chromiumTLSPreset, Blinks
<1> QED BY <1>5, <1>6, <1>7

\* The profile that is captured from a visit is of the browser that visited.
LEMMA CapturedFields ==
  ASSUME NEW p, OneBrowser(p), NEW in, IsVisitOf(in, p)
  PROVE  LET q == Completed(ToProfile(in))
         IN /\ q.browser = p.browser /\ q.platform = p.platform
            /\ PresetFits(q.preset, p.browser, p.platform)
            /\ q.ua = p.ua /\ q.pattern # {} /\ q.pattern \subseteq p.ua /\ q.mode = "contains"
            /\ q.brands = p.brands /\ q.hint = p.hint /\ q.navigator = p.navigator
            /\ q.forbidden = {"x-selenium", "x-webdriver"}
            /\ DOMAIN q.required \subseteq SecFetch
<1> DEFINE s == in.snapshot
           r == ToProfile(in)
           q == Completed(r)
<1>1. /\ s.ua = p.ua /\ s.brands = p.brands /\ s.hint = p.hint /\ s.navigator = p.navigator
      /\ s.tls.preset \in {NoPreset, p.preset}
      /\ in.browser = p.browser /\ in.platform = p.platform
  BY VisitSignals, BrowserIsInferred
<1>2. p.ua # {} /\ p.browser # "" /\ p.platform # ""
  BY CompletedKeeps DEF OneBrowser, Blinks
<1>3. guessPattern(p.ua) # {} /\ guessPattern(p.ua) \subseteq p.ua
  BY <1>2, PatternIsPart DEF OneBrowser
<1> HIDE DEF s
<1>4. Default(in.browser, InferFromUA(s.ua).browser) = p.browser
      /\ Default(in.platform, InferFromUA(s.ua).platform) = p.platform
  BY <1>1, <1>2 DEF Default
<1>5. /\ DOMAIN r = ProfileFields
      /\ r.browser = p.browser /\ r.platform = p.platform /\ r.preset = CapturedPreset(s, p.browser)
      /\ r.ua = s.ua /\ r.pattern = guessPattern(s.ua) /\ r.mode = "contains"
      /\ r.brands = s.brands /\ r.hint = s.hint /\ r.navigator = s.navigator
      /\ r.forbidden = {"x-selenium", "x-webdriver"}
      /\ r.required = [h \in SecFetch \cap DOMAIN s.headers |-> s.headers[h]]
  BY <1>4 DEF ToProfile, s, ProfileFields, SignalFields
<1> HIDE DEF r
<1>6. q = [r EXCEPT !.ua = r.ua, !.pattern = r.pattern]
  BY <1>1, <1>2, <1>3, <1>5 DEF Completed
<1>7. /\ q.ua = r.ua /\ q.pattern = r.pattern
      /\ \A n \in ProfileFields \ {"ua", "pattern"} : q[n] = r[n]
  <2> HIDE DEF q
  <2>1. {"ua", "pattern"} \subseteq ProfileFields
    BY DEF ProfileFields, SignalFields
  <2> QED BY <1>5, <1>6, <2>1
<1> HIDE DEF q
<1>8. /\ q.browser = r.browser /\ q.platform = r.platform /\ q.preset = r.preset /\ q.mode = r.mode
      /\ q.brands = r.brands /\ q.hint = r.hint /\ q.navigator = r.navigator
      /\ q.forbidden = r.forbidden /\ q.required = r.required
  BY <1>7 DEF ProfileFields, SignalFields
<1>9. PresetFits(q.preset, p.browser, p.platform)
  BY <1>1, <1>5, <1>8, CapturedPresetFits
<1>10. DOMAIN q.required \subseteq SecFetch
  BY <1>5, <1>8
<1> QED BY <1>1, <1>3, <1>5, <1>7, <1>8, <1>9, <1>10 DEF q, r

\* It is coherent with the visit, and with its own local scan.
LEMMA CapturedIsCoherent ==
  ASSUME NEW p, OneBrowser(p), NEW in, IsVisitOf(in, p)
  PROVE  LET q == Completed(ToProfile(in)) IN Coherent(q, LocalSnapshot(q)) /\ Coherent(q, in.snapshot)
<1> DEFINE q == Completed(ToProfile(in))
<1>1. /\ q.browser = p.browser /\ q.platform = p.platform
      /\ PresetFits(q.preset, p.browser, p.platform)
      /\ q.ua = p.ua /\ q.pattern # {} /\ q.pattern \subseteq p.ua /\ q.mode = "contains"
      /\ q.brands = p.brands /\ q.hint = p.hint /\ q.navigator = p.navigator
      /\ q.forbidden = {"x-selenium", "x-webdriver"}
      /\ DOMAIN q.required \subseteq SecFetch
  BY CapturedFields
<1> HIDE DEF q
<1>2. Coherent(q, LocalSnapshot(q))
  <2> DEFINE s == LocalSnapshot(q)
  <2>1. /\ s.ua = q.ua /\ s.brands = q.brands /\ s.hint = q.hint /\ s.navigator = q.navigator
        /\ s.headers = ApplyProfileHeaders(q) /\ s.tls.preset = q.preset
    BY LocalSignals
  <2> HIDE DEF s
  <2>2. q.forbidden \cap DOMAIN s.headers = {}
    <3>1. DOMAIN q.required \cap {"x-selenium", "x-webdriver"} = {}
      BY <1>1 DEF SecFetch
    <3> QED BY <1>1, <2>1, <3>1, RequestHeaders
  <2>3. Coherent(q, s)
    BY <1>1, <2>1, <2>2, OwnSignalsCohere
  <2> QED BY <2>3 DEF s
<1>3. Coherent(q, in.snapshot)
  <2> DEFINE s == in.snapshot
  <2>1. /\ s.ua = p.ua /\ s.brands = p.brands /\ s.hint = p.hint /\ s.navigator = p.navigator
        /\ s.headers = ApplyProfileHeaders(p) /\ s.tls.preset \in {NoPreset, p.preset}
    BY VisitSignals
  <2> HIDE DEF s
  <2>2. DOMAIN p.required \cap {"x-selenium", "x-webdriver"} = {} /\ PresetFits(p.preset, p.browser, p.platform)
    BY DEF OneBrowser
  <2>3. q.forbidden \cap DOMAIN s.headers = {}
    BY <1>1, <2>1, <2>2, RequestHeaders
  <2>4. Coherent(q, s)
    BY <1>1, <2>1, <2>2, <2>3, OwnSignalsCohere
  <2> QED BY <2>4 DEF s
<1> QED BY <1>2, <1>3 DEF q

-----------------------------------------------------------------------------
(* compare                                                                 *)

\* The adapters that LoadSnapshot knows.
Adapters == {"snapshot", "httpcloak", "curl", "playwright"}

\* What was compared are the two exports, as their adapters read them.
LEMMA ComparedSides ==
  ASSUME NEW adapterA, NEW a, NEW adapterB, NEW b, ~Comparison(adapterA, a, adapterB, b).err
  PROVE  LET out == Comparison(adapterA, a, adapterB, b).out
         IN /\ adapterA \in Adapters /\ \E id : out.a = ToSnapshot(adapterA, a, id)
            /\ adapterB \in Adapters /\ \E id : out.b = ToSnapshot(adapterB, b, id)
<1>1. ASSUME NEW adapter, NEW e, ~Checked(LoadSnapshot(adapter, e)).err
      PROVE  adapter \in Adapters /\ \E id : Checked(LoadSnapshot(adapter, e)).out.snapshot = ToSnapshot(adapter, e, id)
  BY <1>1 DEF Checked, LoadSnapshot, Refused, Answer, Adapters
<1> DEFINE x == Checked(LoadSnapshot(adapterA, a))
           y == Checked(LoadSnapshot(adapterB, b))
<1>2. Comparison(adapterA, a, adapterB, b)
        = IF x.err THEN Refused ELSE IF y.err THEN Refused
          ELSE Answer([a |-> x.out.snapshot, b |-> y.out.snapshot,
                       compared |-> Snapshots(x.out.snapshot, y.out.snapshot)])
  BY DEF Comparison, Then
<1>3. (~x.err => adapterA \in Adapters /\ \E id : x.out.snapshot = ToSnapshot(adapterA, a, id))
      /\ (~y.err => adapterB \in Adapters /\ \E id : y.out.snapshot = ToSnapshot(adapterB, b, id))
  BY <1>1
<1> HIDE DEF x, y
<1> QED BY <1>2, <1>3 DEF Refused, Answer

\* An adapter keeps the User-Agent and the brands of an export.
LEMMA ExportNamesOneBrowser ==
  ASSUME NEW adapter \in Adapters, NEW e \in Exports, NEW id
  PROVE  NamesOneBrowser(ToSnapshot(adapter, e, id))
<1>1. NamesOneBrowser(e.signals)
  BY ProfilesAssumption
<1>2. /\ DOMAIN ToSnapshot(adapter, e, id) = DOMAIN e.signals
      /\ ToSnapshot(adapter, e, id).ua = e.signals.ua
      /\ ToSnapshot(adapter, e, id).brands = e.signals.brands
  BY <1>1 DEF ToSnapshot, Adapters, NamesOneBrowser, SignalFields
<1> QED BY <1>1, <1>2 DEF NamesOneBrowser

\* Whatever the exports: a session that compare says contradicts itself fails
\* critically against each shipped profile, but for Chrome's hello from
\* Firefox, which crossLayerFirefoxRule leaves out (compare.go, rules.go).
THEOREM CompareFlagsAreCriticalHolds == Spec => []CompareFlagsAreCritical
<1>1. Init => CompareFlagsAreCritical
  BY DEF Init, Prompt, CompareFlagsAreCritical, Ok
<1>2. CompareFlagsAreCritical /\ [Next]_vars => CompareFlagsAreCritical'
  <2> SUFFICES ASSUME CompareFlagsAreCritical, [Next]_vars PROVE CompareFlagsAreCritical'
    OBVIOUS
  <2>1. CASE UNCHANGED ran
    BY <2>1 DEF CompareFlagsAreCritical, Ok
  <2>2. CASE ran'.cmd # "compare"
    BY <2>2 DEF CompareFlagsAreCritical, Ok
  <2>3. CASE CompareExports
    <3>0. PICK a \in Exports, b \in Exports : \E first, second : Runs("compare", Comparison(first, a, second, b))
      BY <2>3 DEF CompareExports
    <3>1. PICK first, second : Runs("compare", Comparison(first, a, second, b))
      BY <3>0
    <3>2. ran'.res = Comparison(first, a, second, b)
      BY <3>1, RunsParts
    <3> SUFFICES ASSUME ~Comparison(first, a, second, b).err,
                        NEW s \in {ran'.res.out.a, ran'.res.out.b}, crossLayerNote(s),
                        NEW i \in DOMAIN Shipped, ~MissedByScan(Shipped[i], s)
                 PROVE  Run(Completed(Shipped[i]), s).result.CriticalFails > 0
      BY <3>2 DEF CompareFlagsAreCritical, Ok
    <3>3. NamesOneBrowser(s)
      BY <3>2, ComparedSides, ExportNamesOneBrowser
    <3> DEFINE p == Shipped[i]
    <3>4. OneBrowser(p)
      BY ProfilesAssumption DEF Range
    <3> HIDE DEF p
    <3>5. /\ Completed(p).browser = p.browser /\ Completed(p).navigator = p.navigator
          /\ p.browser \in Blinks \cup {"firefox", "safari"} /\ p.navigator.webdriver # "true"
      <4>1. {"browser", "navigator"} \subseteq ProfileFields \ {"ua", "pattern"}
        BY DEF ProfileFields, SignalFields
      <4>2. \A n \in {"browser", "navigator"} : Completed(p)[n] = p[n]
        BY <3>4, <4>1, CompletedKeeps
      <4>3. p.browser \in Blinks \cup {"firefox", "safari"} /\ p.navigator.webdriver # "true"
        BY <3>4 DEF OneBrowser
      <4> QED BY <4>2, <4>3
    <3>6. ~MissedByScan(Completed(p), s)
      BY <3>5 DEF MissedByScan, p
    <3>7. ~Coherent(Completed(p), s)
      BY <3>3, <3>5, <3>6, ContradictionFails
    <3> QED BY <3>7, CoherentMeans DEF p
  <2> QED BY <2>1, <2>2, <2>3, StepRan, AnswersCommand
<1> QED BY <1>1, <1>2, PTL DEF Spec

-----------------------------------------------------------------------------
(* scan                                                                    *)

\* With nothing captured, the directory is as shipped.
LEMMA DirAsShipped ==
  ASSUME DOMAIN captured = {}
  PROVE  Dir = Shipped
<1>1. Dir = <<>> \o Shipped \o <<>>
  BY DEF Dir, FileAt
<1> QED BY <1>1, ProfilesAssumption, ConcatEmptySeq

\* What a scan answers to what it looked at.
ScanAnswer(p, s, asked) == IF s.err THEN Refused ELSE Scanned(p, s.out, asked)

\* Its answer names the profile and the mode, and has the scan's result.
LEMMA ScannedSays ==
  ASSUME NEW p, NEW s, NEW asked
  PROVE  /\ Scanned(p, s, asked).out.id = p.id /\ Scanned(p, s, asked).out.mode = asked
         /\ Scanned(p, s, asked).out.result = Run(p, s).result
BY DEF Scanned, Answer, Run

\* What an answer says of a profile that was scanned in this way.
SaysOf(p, mode, mutation, asked, out) ==
  /\ out.id = p.id /\ out.mode = asked
  /\ mode = "mutate" => out.result = Run(p, applyMutation(LocalSnapshot(p), mutation)).result

\* Of a mutated profile it is the result of the mutated signals.
LEMMA MutateSays ==
  ASSUME NEW p, NEW mode, NEW mutation, NEW s \in SnapshotsOf(p, mode, mutation), NEW asked,
         ~ScanAnswer(p, s, asked).err
  PROVE  SaysOf(p, mode, mutation, asked, ScanAnswer(p, s, asked).out)
<1>1. ScanAnswer(p, s, asked) = Scanned(p, s.out, asked)
  BY DEF ScanAnswer, Refused
<1>2. ASSUME mode = "mutate" PROVE s.out = applyMutation(LocalSnapshot(p), mutation)
  <2>1. s = Answer(applyMutation(LocalSnapshot(p), mutation))
    BY <1>2 DEF SnapshotsOf
  <2> QED BY <2>1 DEF Answer
<1>3. /\ Scanned(p, s.out, asked).out.id = p.id /\ Scanned(p, s.out, asked).out.mode = asked
      /\ Scanned(p, s.out, asked).out.result = Run(p, s.out).result
  BY ScannedSays
<1> QED BY <1>1, <1>2, <1>3 DEF SaysOf

\* What scan may answer.
AnswerOf(dir, id, res) ==
  \E mode \in {"local", "live", "mutate", "other"}, mutation \in Mutations \cup {""} :
    LET found == FindByID(dir, id)
    IN found.ok /\ \E s \in SnapshotsOf(found.profile, mode, mutation) :
                     res = ScanAnswer(found.profile, s, <<mode, mutation>>)

\* And that is all.
LEMMA ScanAnswers ==
  ASSUME ScanProfile
  PROVE  ran'.res = Refused \/ \E id : AnswerOf(Dir, id, ran'.res)
<1>1. PICK id : ScanOf(id, {"local", "live", "mutate", "other"}, "scan")
  BY DEF ScanProfile
<1>2. PICK mode \in {"local", "live", "mutate", "other"}, mutation \in Mutations \cup {""} :
        LET found == FindByID(Dir, id)
        IN IF ~found.ok THEN Runs("scan", Refused)
           ELSE \E s \in SnapshotsOf(found.profile, mode, mutation) :
                  Runs("scan", ScanAnswer(found.profile, s, <<mode, mutation>>))
  BY <1>1 DEF ScanOf, Then, ScanAnswer
<1> QED BY <1>2, RunsParts DEF AnswerOf

\* What MutationsAreCaught says of an answer.
Caught(out) ==
  \A p \in Range(Shipped) :
    p.id = out.id => \/ out.mode[2] = "" \/ Unnoticed(p, out.mode[2])
                     \/ out.result.CriticalFails > 0

\* It is true of what scan answers of a shipped profile.
LEMMA AnswerCaught ==
  ASSUME NEW p \in Range(Shipped), NEW mutation \in Mutations \cup {""}, NEW q, q = Completed(p),
         NEW asked, asked[2] = mutation, NEW out, SaysOf(q, "mutate", mutation, asked, out)
  PROVE  Caught(out)
<1>1. /\ out.id = q.id /\ out.mode = asked
      /\ out.result = Run(q, applyMutation(LocalSnapshot(q), mutation)).result
  BY DEF SaysOf
<1>2. OneBrowser(p)
  BY ProfilesAssumption
<1>3. q.id = p.id
  <2>1. "id" \in ProfileFields \ {"ua", "pattern"}
    BY DEF ProfileFields
  <2> QED BY <1>2, <2>1, CompletedKeeps
<1>4. ASSUME NEW r \in Range(Shipped), r.id = out.id, out.mode[2] # "", ~Unnoticed(r, out.mode[2])
      PROVE  out.result.CriticalFails > 0
  <2>1. r = p
    BY <1>1, <1>3, <1>4, ShippedIdsDiffer
  <2>2. mutation \in Mutations /\ ~Unnoticed(p, mutation)
    BY <1>1, <1>4, <2>1
  <2>3. ~Coherent(q, applyMutation(LocalSnapshot(q), mutation))
    BY <1>2, <2>2, MutationFails
  <2> QED BY <1>1, <2>3, CoherentMeans
<1> QED BY <1>4 DEF Caught

\* Of any profiles of one browser each: a mutation is a critical failure in
\* the scan of its profile, but for those that leave the profile's own signals
\* and those that no rule looks at (scan.go, rules.go).
THEOREM MutationsAreCaughtHolds == Spec => []MutationsAreCaught
<1>1. Init => MutationsAreCaught
  <2>1. Init => ~Ok("scan")
    BY DEF Init, Prompt, Ok
  <2> QED BY <2>1 DEF MutationsAreCaught
<1>2. MutationsAreCaught /\ [Next]_vars => MutationsAreCaught'
  <2> SUFFICES ASSUME MutationsAreCaught, [Next]_vars PROVE MutationsAreCaught'
    OBVIOUS
  <2>1. CASE UNCHANGED <<ran, captured>>
    BY <2>1 DEF MutationsAreCaught, Ok
  <2>2. CASE ran'.cmd # "scan"
    BY <2>2 DEF MutationsAreCaught, Ok
  <2>3. CASE ScanProfile
    <3> SUFFICES ASSUME ~ran'.res.err, ran'.res.out.mode[1] = "mutate", DOMAIN captured' = {}
                 PROVE  Caught(ran'.res.out)
      BY DEF MutationsAreCaught, Ok, Caught
    <3>1. captured' = captured
      BY <2>3, AnswersRun, RunsParts
    <3>2. Dir = Shipped
      BY <3>1, DirAsShipped
    <3>3. PICK id : AnswerOf(Shipped, id, ran'.res)
      <4>1. ran'.res # Refused
        BY DEF Refused
      <4> QED BY <2>3, <3>2, <4>1, ScanAnswers
    <3>4. PICK p \in Range(Shipped) : FindByID(Shipped, id).profile = Completed(p)
      BY <3>3, ShippedIsFound DEF AnswerOf
    <3> DEFINE q == Completed(p)
    <3>5. PICK mode \in {"local", "live", "mutate", "other"}, mutation \in Mutations \cup {""} :
            \E s \in SnapshotsOf(q, mode, mutation) : ran'.res = ScanAnswer(q, s, <<mode, mutation>>)
      BY <3>3, <3>4 DEF AnswerOf
    <3> DEFINE asked == <<mode, mutation>>
    <3>6. asked[1] = mode /\ asked[2] = mutation
      OBVIOUS
    <3>7. PICK s \in SnapshotsOf(q, mode, mutation) : ran'.res = ScanAnswer(q, s, asked)
      BY <3>5
    <3> HIDE DEF q, asked
    <3>8. SaysOf(q, mode, mutation, asked, ran'.res.out)
      BY <3>7, MutateSays
    <3>9. mode = "mutate"
      BY <3>6, <3>8 DEF SaysOf
    <3> QED BY <3>6, <3>8, <3>9, AnswerCaught DEF q
  <2> QED BY <2>1, <2>2, <2>3, StepRan, AnswersCommand
<1> QED BY <1>1, <1>2, PTL DEF Spec

-----------------------------------------------------------------------------
(* capture                                                                 *)

\* Whichever browser of the shipped profiles visits: the profile captured from
\* the visit has no critical failure against the visit, nor against its own
\* local scan (capture.go: ToProfile, rules.go).
THEOREM CaptureIsCoherentHolds == Spec => []CaptureIsCoherent
<1>1. CaptureIsCoherent
  <2> SUFFICES ASSUME NEW in \in Genuine
               PROVE  LET q == Completed(ToProfile(in))
                      IN /\ Run(q, LocalSnapshot(q)).result.CriticalFails = 0
                         /\ Run(q, in.snapshot).result.CriticalFails = 0
    BY DEF CaptureIsCoherent
  <2>1. PICK p \in Range(Shipped) : IsVisitOf(in, p)
    BY ProfilesAssumption
  <2>2. OneBrowser(p)
    BY ProfilesAssumption
  <2> QED BY <2>1, <2>2, CapturedIsCoherent, CoherentMeans
<1> QED BY <1>1, PTL

-----------------------------------------------------------------------------
(* The types                                                               *)

\* The two directories: capture writes a profile that validates, or a part of
\* one; ingest-hello writes under a name of the corpus.
DirsOK ==
  /\ DOMAIN captured \subseteq {"a", "z"} /\ DOMAIN ingested \subseteq DOMAIN Catalog
  /\ \A f \in DOMAIN captured : captured[f] = Unreadable \/ Validate(captured[f])

\* A capture keeps the directories as they should be.
LEMMA CaptureKeepsDirs ==
  ASSUME DirsOK, CaptureProfile
  PROVE  DirsOK' /\ UNCHANGED serveVars
<1>1. PICK in \in Sessions, file \in {"a", "z"} :
        \/ UNCHANGED <<serveVars, captured, ingested>>
        \/ /\ Writes(in)
           /\ \E content \in Written(ToProfile(in)) : captured' = Put(captured, file, content)
           /\ UNCHANGED <<serveVars, ingested>>
  BY DEF CaptureProfile, Runs
<1>2. CASE UNCHANGED <<serveVars, captured, ingested>>
  BY <1>2 DEF DirsOK
<1>3. CASE /\ Writes(in)
           /\ \E content \in Written(ToProfile(in)) : captured' = Put(captured, file, content)
           /\ UNCHANGED <<serveVars, ingested>>
  <2>1. PICK content \in Written(ToProfile(in)) : captured' = Put(captured, file, content)
    BY <1>3
  <2>2. content = Unreadable \/ Validate(content)
    BY <1>3 DEF Written, Writes
  <2>3. /\ DOMAIN captured' = {file} \cup DOMAIN captured
        /\ \A n \in {file} \cup DOMAIN captured :
             captured'[n] = IF n = file THEN content ELSE captured[n]
    <3>1. captured' = [n \in {file} \cup DOMAIN captured |-> IF n = file THEN content ELSE captured[n]]
      BY <2>1 DEF Put
    <3> QED BY <3>1
  <2>4. DOMAIN captured' \subseteq {"a", "z"} /\ DOMAIN ingested' \subseteq DOMAIN Catalog
    BY <1>3, <2>3 DEF DirsOK
  <2>5. ASSUME NEW f \in DOMAIN captured'
        PROVE  captured'[f] = Unreadable \/ Validate(captured'[f])
    <3>1. CASE f = file
      <4>1. captured'[f] = content
        BY <2>3, <3>1
      <4> QED BY <2>2, <4>1
    <3>2. CASE f # file
      <4>1. f \in DOMAIN captured /\ captured'[f] = captured[f]
        BY <2>3, <3>2
      <4> QED BY <4>1 DEF DirsOK
    <3> QED BY <3>1, <3>2
  <2>6. DirsOK'
    BY <2>4, <2>5 DEF DirsOK
  <2> QED BY <1>3, <2>6
<1> QED BY <1>1, <1>2, <1>3

\* So does the hello that is ingested.
LEMMA IngestKeepsDirs ==
  ASSUME DirsOK, IngestHello
  PROVE  DirsOK' /\ UNCHANGED serveVars
<1>1. PICK raw \in Hellos, name \in {"chrome_131", "firefox_live", "h2_chrome"} :
        \/ UNCHANGED <<serveVars, captured, ingested>>
        \/ /\ Ingests(Catalog, name) /\ ingested' = Put(ingested, name, raw)
           /\ UNCHANGED <<serveVars, captured>>
  BY DEF IngestHello, Runs
<1>2. CASE UNCHANGED <<serveVars, captured, ingested>>
  BY <1>2 DEF DirsOK
<1>3. CASE /\ Ingests(Catalog, name) /\ ingested' = Put(ingested, name, raw)
           /\ UNCHANGED <<serveVars, captured>>
  <2>1. name \in DOMAIN Catalog
    BY <1>3 DEF Ingests, OfKind, LookupFixture, Then, Refused
  <2>2. DOMAIN ingested' = {name} \cup DOMAIN ingested
    BY <1>3 DEF Put
  <2>3. DirsOK'
    BY <1>3, <2>1, <2>2 DEF DirsOK
  <2> QED BY <1>3, <2>3
<1> QED BY <1>1, <1>2, <1>3

-----------------------------------------------------------------------------
(* fingerprint --serve                                                     *)

SessionOK == Serve!TypeOK /\ Serve!SessionInv

\* The writers' files are sequences.
LEMMA TrafficType ==
  ASSUME NEW f \in Visitors, NEW w \in Serve!Writers
  PROVE  Len(Traffic[f][w]) \in Nat /\ DOMAIN Traffic[f][w] = 1..Len(Traffic[f][w])
BY TrafficAssumption, LenProperties

\* A file of the visiting client, and the times of the files.
LEMMA TouchKeeps ==
  ASSUME Serve!TypeOK, Serve!SessionInv, NEW file, file.owner = family, Serve!Touch(file)
  PROVE  /\ DOMAIN newest' = Serve!Kinds
         /\ \A k \in Serve!Kinds : newest'[k].owner \in {"none", family} \cup DOMAIN Leftovers
         /\ newest' = [k \in Serve!Kinds |-> newest'[k]]
<1>1. newest' = newest \/ newest' = [newest EXCEPT ![file.kind] = file]
  BY DEF Serve!Touch
<1> QED BY <1>1 DEF Serve!TypeOK, Serve!SessionInv

\* The command's own steps keep the session's types.
LEMMA SessionStep ==
  ASSUME SessionOK, Serve!Next
  PROVE  SessionOK'
<1> USE DEF SessionOK
<1>1. CASE Serve!Start
  BY <1>1, TrafficType DEF Serve!Start, Serve!TypeOK, Serve!SessionInv, Serve!EmptyDir, Serve!Remaining,
          Serve!NoFile, Serve!File
<1>2. CASE Serve!Wait
  BY <1>2 DEF Serve!Wait, Serve!TypeOK, Serve!SessionInv
<1>3. CASE Serve!Load
  BY <1>3 DEF Serve!Load, Serve!TypeOK, Serve!SessionInv
<1>4. CASE Serve!Running /\ Serve!StoreHello
  BY <1>4 DEF Serve!Running, Serve!StoreHello, Serve!TypeOK, Serve!SessionInv
<1>5. ASSUME NEW w \in Serve!Writers, Serve!Running, Serve!Create(w) \/ Serve!Fill(w)
      PROVE  SessionOK'
  <2> DEFINE e == Traffic[family][w][next[w]]
  <2>1. family \in Visitors /\ command \notin {"off"} /\ command \in {"wait", "sleep"}
    BY <1>5 DEF Serve!Running, Serve!SessionInv
  <2>2. CASE Serve!Create(w)
    <3>1. /\ next[w] \in DOMAIN Traffic[family][w] /\ opened' = opened \cup {w}
          /\ Serve!Touch(Serve!File(e.kind, family, next[w], FALSE))
          /\ UNCHANGED <<family, stored, next, command, loaded, report>>
      BY <2>2 DEF Serve!Create, Serve!Due
    <3>2. Serve!File(e.kind, family, next[w], FALSE).owner = family
      BY DEF Serve!File
    <3> HIDE DEF e
    <3> QED BY <2>1, <3>1, <3>2, TouchKeeps DEF Serve!TypeOK, Serve!SessionInv
  <2>3. CASE Serve!Fill(w)
    <3>1. /\ w \in opened /\ opened' = opened \ {w} /\ next' = [next EXCEPT ![w] = next[w] + 1]
          /\ Serve!Touch(Serve!File(e.kind, family, next[w], TRUE))
          /\ UNCHANGED <<family, stored, command, loaded, report>>
      BY <2>3 DEF Serve!Fill
    <3>2. Serve!File(e.kind, family, next[w], TRUE).owner = family
      BY DEF Serve!File
    <3>3. next[w] \in 1..Len(Traffic[family][w]) /\ Len(Traffic[family][w]) \in Nat
      BY <2>1, <3>1, TrafficType DEF Serve!SessionInv
    <3> HIDE DEF e
    <3>4. /\ DOMAIN newest' = Serve!Kinds /\ newest' = [k \in Serve!Kinds |-> newest'[k]]
          /\ \A k \in Serve!Kinds : newest'[k].owner \in {"none", family} \cup DOMAIN Leftovers
      BY <3>1, <3>2, TouchKeeps
    <3>5. /\ next' = [v \in Serve!Writers |-> next'[v]]
          /\ \A v \in Serve!Writers : next'[v] = IF v = w THEN next[v] + 1 ELSE next[v]
      BY <3>1 DEF Serve!SessionInv
    <3>6. \A v \in Serve!Writers : next[v] \in 1..(Len(Traffic[family][v]) + 1)
      BY <2>1 DEF Serve!TypeOK
    <3>7. \A v \in Serve!Writers : next'[v] \in 1..(Len(Traffic[family][v]) + 1)
      BY <3>3, <3>5, <3>6
    <3>8. Serve!TypeOK'
      BY <2>1, <3>1, <3>4, <3>7 DEF Serve!TypeOK
    <3>9. ASSUME NEW v \in opened'
          PROVE  next'[v] \in DOMAIN Traffic[family][v]
      <4>1. v # w /\ v \in opened /\ v \in Serve!Writers
        BY <3>1 DEF Serve!TypeOK
      <4>2. next'[v] = next[v]
        BY <3>5, <4>1
      <4> QED BY <2>1, <4>1, <4>2 DEF Serve!SessionInv
    <3>10. Serve!SessionInv'
      BY <2>1, <3>1, <3>4, <3>5, <3>9 DEF Serve!SessionInv
    <3> QED BY <3>8, <3>10
  <2> QED BY <1>5, <2>2, <2>3
<1> QED BY <1>1, <1>2, <1>3, <1>4, <1>5 DEF Serve!Next

\* So does the end of the command, after which there is no session.
LEMMA SessionEnds ==
  ASSUME SessionOK, ServeReturns
  PROVE  SessionOK'
BY DEF ServeReturns, SessionOK, Serve!TypeOK, Serve!SessionInv, Serve!EmptyDir, Serve!NoFile, Serve!File,
       Serve!Writers

\* The session is unchanged with its variables.
LEMMA SessionUnchanged ==
  ASSUME SessionOK, UNCHANGED serveVars
  PROVE  SessionOK'
BY DEF serveVars, SessionOK, Serve!TypeOK, Serve!SessionInv

\* The invariant of the command line: the session's, and the directories'.
TypesInv == SessionOK /\ DirsOK

\* Every command keeps it.
LEMMA TypesStep ==
  ASSUME TypesInv, [Next]_vars
  PROVE  TypesInv'
<1> USE DEF TypesInv
<1>1. CASE UNCHANGED <<serveVars, captured, ingested>>
  <2>1. DirsOK'
    BY <1>1 DEF DirsOK
  <2> QED BY <1>1, <2>1, SessionUnchanged
<1>2. CASE CaptureProfile \/ IngestHello
  BY <1>2, CaptureKeepsDirs, IngestKeepsDirs, SessionUnchanged
<1>3. CASE ServeStep
  <2>1. Serve!Next /\ UNCHANGED <<captured, ingested>>
    BY <1>3 DEF ServeStep
  <2>2. DirsOK'
    BY <2>1 DEF DirsOK
  <2> QED BY <2>1, <2>2, SessionStep
<1>4. CASE ServeReturns
  <2>1. UNCHANGED <<captured, ingested>>
    BY <1>4 DEF ServeReturns
  <2>2. DirsOK'
    BY <2>1 DEF DirsOK
  <2> QED BY <1>4, <2>2, SessionEnds
<1>5. /\ LabHeaders \/ OtherCommand => UNCHANGED <<serveVars, captured, ingested>>
      /\ ScanProfile \/ CompareExports => UNCHANGED <<serveVars, captured, ingested>>
      /\ LabPermute \/ FingerprintFiles => UNCHANGED <<serveVars, captured, ingested>>
  BY AnswersRun, HeadersPrint DEF OtherCommand, Runs
<1>6. Return \/ UNCHANGED vars => UNCHANGED <<serveVars, captured, ingested>>
  BY DEF Return, vars
<1> QED BY <1>1, <1>2, <1>3, <1>4, <1>5, <1>6, StepKinds

\* It holds at the first prompt.
LEMMA TypesInit ==
  ASSUME Init
  PROVE  TypesInv
<1>1. SessionOK
  BY DEF Init, Serve!Init, Serve!Off, SessionOK, Serve!TypeOK, Serve!SessionInv, Serve!EmptyDir,
         Serve!NoFile, Serve!File, Serve!Writers
<1>2. DOMAIN captured = {} /\ DOMAIN ingested = {}
  BY DEF Init
<1>3. DirsOK
  BY <1>2 DEF DirsOK
<1> QED BY <1>1, <1>3 DEF TypesInv

\* Whatever sessions are captured and hellos ingested, and whoever visits
\* fingerprint --serve: no profile is written that does not validate, nothing
\* is ingested under a name the corpus does not have, and the directory of the
\* capture has files of its visitor and of earlier ones only (capture.go,
\* golden.go, fingerprint.go).
THEOREM CommandLineTypeCorrect == Spec => []TypeOK
<1>1. Init => TypesInv
  BY TypesInit
<1>2. TypesInv /\ [Next]_vars => TypesInv'
  BY TypesStep
<1>3. TypesInv => TypeOK
  BY DEF TypesInv, SessionOK, DirsOK, TypeOK
<1> QED BY <1>1, <1>2, <1>3, PTL DEF Spec

-----------------------------------------------------------------------------
(* lab permute                                                             *)

\* Extensions of which those that are not GREASE are there once.
ExtsOnce(exts) ==
  /\ exts \in Seq(Range(exts)) /\ \A e \in Range(exts) : e.type \in Nat
  /\ \A i, j \in Plain(exts) : exts[i].type = exts[j].type => i = j
AreSaid(exts) == {Said(exts[i]) : i \in Plain(exts)}

\* What is said of an extension names its type.
LEMMA SaidTypes == \A e : Said(e).type = e.type
BY DEF Said

\* Then the extension order has each once but for GREASE, and has those that
\* are said.
LEMMA OrderOnce ==
  ASSUME NEW exts, ExtsOnce(exts)
  PROVE  HasOnce(ExtensionOrder(exts)) /\ MembersOf(ExtensionOrder(exts)) = {x.type : x \in AreSaid(exts)}
<1> DEFINE order == ExtensionOrder(exts)
           n == Len(exts)
<1>1. n \in Nat /\ DOMAIN exts = 1..n /\ \A i \in 1..n : exts[i].type \in Nat
  BY LenProperties DEF ExtsOnce, Range
<1>2. order = [i \in 1..n |-> exts[i].type]
  BY <1>1 DEF ExtensionOrder
<1> HIDE DEF order, n
<1>3. order \in [1..n -> Nat] /\ \A i \in 1..n : order[i] = exts[i].type
  BY <1>1, <1>2
<1>4. order \in Seq(Nat) /\ Len(order) = n
  BY <1>1, <1>3, ListIs
<1>5. Plain(exts) = {i \in 1..n : ~IsGREASE16(order[i])}
  BY <1>1, <1>3 DEF Plain
<1>6. ASSUME NEW i \in 1..n, NEW j \in 1..n, ~IsGREASE16(order[i]), order[i] = order[j]
      PROVE  i = j
  BY <1>3, <1>5, <1>6 DEF ExtsOnce
<1>7. HasOnce(order)
  BY <1>4, <1>6 DEF HasOnce
<1>8. MembersOf(order) = {order[i] : i \in Plain(exts)}
  BY <1>4, <1>5 DEF MembersOf
<1>9. \A i \in Plain(exts) : order[i] = Said(exts[i]).type
  BY <1>3, <1>5, SaidTypes
<1>10. {order[i] : i \in Plain(exts)} = {x.type : x \in AreSaid(exts)}
  <2> DEFINE x(i) == Said(exts[i])
  <2>1. AreSaid(exts) = {x(i) : i \in Plain(exts)}
    BY DEF AreSaid
  <2> HIDE DEF x
  <2>2. \A i \in Plain(exts) : order[i] = x(i).type
    BY <1>9 DEF x
  <2> QED BY <2>1, <2>2
<1> QED BY <1>7, <1>8, <1>10 DEF order

\* What is carried is what the one extension of the type says.
LEMMA CarriedIs ==
  ASSUME NEW exts, ExtsOnce(exts), NEW i \in Plain(exts)
  PROVE  Carried(exts, exts[i].type) = exts[i].data
<1> DEFINE of == {j \in DOMAIN exts : exts[j].type = exts[i].type}
<1>1. of = {i}
  BY DEF Plain, ExtsOnce
<1>2. Carried(exts, exts[i].type) = IF of = {} THEN <<>> ELSE exts[Max(of)].data
  BY DEF Carried
<1>3. i \in Nat
  BY LenProperties DEF Plain, ExtsOnce
<1> HIDE DEF of
<1>4. Max(of) = i
  BY <1>1, <1>3 DEF Max
<1> QED BY <1>1, <1>2, <1>4

\* Nothing is carried where there is no extension of the type.
LEMMA CarriedNone ==
  ASSUME NEW exts, NEW t, ~IsGREASE16(t), \A i \in Plain(exts) : exts[i].type # t
  PROVE  Carried(exts, t) = <<>>
BY DEF Carried, Plain

\* So hellos that say the same carry the same.
LEMMA SaidIs ==
  ASSUME NEW d, NEW e, Said(d) = Said(e)
  PROVE  /\ d.type = e.type
         /\ d.type \in {10, 13, 43} => filterNonGREASE(d.data) = filterNonGREASE(e.data)
         /\ d.type \in {11, 16} => d.data = e.data
<1>1. d.type = e.type
  BY SaidTypes
<1>2. Said(d).data = Said(e).data
  OBVIOUS
<1>3. \A x : x.type \in {10, 13, 43} => Said(x).data = filterNonGREASE(x.data)
  BY DEF Said, ExtSupportedGroups, ExtSignatureAlgs, ExtSupportedVersions, ExtECPointFormats, ExtALPN
<1>4. \A x : x.type \in {11, 16} => Said(x).data = x.data
  BY DEF Said, ExtSupportedGroups, ExtSignatureAlgs, ExtSupportedVersions, ExtECPointFormats, ExtALPN
<1> QED BY <1>1, <1>2, <1>3, <1>4

\* So what is carried is the same where the same is said.
LEMMA CarriedSame ==
  ASSUME NEW a, NEW b, ExtsOnce(a), ExtsOnce(b), AreSaid(a) = AreSaid(b), NEW t \in {10, 11, 13, 16, 43}
  PROVE  /\ t \in {10, 13, 43} => filterNonGREASE(Carried(a, t)) = filterNonGREASE(Carried(b, t))
         /\ t \in {11, 16} => Carried(a, t) = Carried(b, t)
<1>0. ~IsGREASE16(t)
  BY DEF IsGREASE16
<1>1. \A i \in Plain(a) : \E j \in Plain(b) : Said(a[i]) = Said(b[j])
  BY DEF AreSaid
<1>2. \A j \in Plain(b) : \E i \in Plain(a) : Said(a[i]) = Said(b[j])
  BY DEF AreSaid
<1>3. CASE \E i \in Plain(a) : a[i].type = t
  <2>1. PICK i \in Plain(a) : a[i].type = t
    BY <1>3
  <2>2. PICK j \in Plain(b) : Said(a[i]) = Said(b[j])
    BY <1>1
  <2>3. b[j].type = t
    BY <2>1, <2>2, SaidIs
  <2>4. Carried(a, t) = a[i].data /\ Carried(b, t) = b[j].data
    BY <2>1, <2>3, CarriedIs
  <2>5. /\ t \in {10, 13, 43} => filterNonGREASE(a[i].data) = filterNonGREASE(b[j].data)
        /\ t \in {11, 16} => a[i].data = b[j].data
    BY <2>1, <2>2, SaidIs
  <2> QED BY <2>4, <2>5
<1>4. CASE \A i \in Plain(a) : a[i].type # t
  <2>1. \A j \in Plain(b) : b[j].type # t
    BY <1>2, <1>4, SaidIs
  <2>2. Carried(a, t) = <<>> /\ Carried(b, t) = <<>>
    BY <1>0, <1>4, <2>1, CarriedNone
  <2> QED BY <2>2
<1> QED BY <1>3, <1>4

\* What a hello that parses has of a parrot's.
LEMMA ParsedHas ==
  ASSUME NEW w, ParseClientHello(w).ok
  PROVE  LET ch == ParseClientHello(w)
         IN /\ ch.quic = w.quic /\ ch.LegacyVersion = w.version /\ ch.RecordVersion = w.recordVersion
            /\ ch.CipherSuites = w.ciphers /\ ch.ExtensionOrder = ExtensionOrder(w.exts)
            /\ ch.ALPN = Carried(w.exts, 16) /\ ch.SupportedVersions = Carried(w.exts, 43)
            /\ ch.SupportedGroups = Carried(w.exts, 10) /\ ch.ECPointFormats = Carried(w.exts, 11)
            /\ ch.SignatureAlgs = Carried(w.exts, 13)
<1>1. ~(w.handshake # 1 \/ Truncated(w))
  BY DEF ParseClientHello
<1> QED BY <1>1 DEF ParseClientHello, ExtALPN, ExtSupportedVersions, ExtSupportedGroups, ExtECPointFormats, ExtSignatureAlgs

\* Parsed hellos of one parrot.
Alike(p, q) ==
  /\ p.quic = q.quic /\ p.LegacyVersion = q.LegacyVersion /\ p.RecordVersion = q.RecordVersion
  /\ filterNonGREASE(p.CipherSuites) = filterNonGREASE(q.CipherSuites)
  /\ filterNonGREASE(p.SupportedVersions) = filterNonGREASE(q.SupportedVersions)
  /\ filterNonGREASE(p.SupportedGroups) = filterNonGREASE(q.SupportedGroups)
  /\ filterNonGREASE(p.SignatureAlgs) = filterNonGREASE(q.SignatureAlgs)
  /\ p.ALPN = q.ALPN /\ p.ECPointFormats = q.ECPointFormats
  /\ HasOnce(p.ExtensionOrder) /\ HasOnce(q.ExtensionOrder)
  /\ MembersOf(p.ExtensionOrder) = MembersOf(q.ExtensionOrder)

\* The hellos of a parrot are alike.
LEMMA ParrotsAlike ==
  ASSUME NEW name \in DOMAIN Parrots, NEW h \in Parrots[name], NEW k \in Parrots[name],
         ParseClientHello(h).ok, ParseClientHello(k).ok
  PROVE  Alike(ParseClientHello(h), ParseClientHello(k))
<1> DEFINE p == ParseClientHello(h)
           q == ParseClientHello(k)
<1>1. ExtsOnce(h.exts) /\ ExtsOnce(k.exts) /\ SameButOrder(h, k)
  BY ParrotsAssumption DEF ExtsOnce
<1>2. /\ h.quic = k.quic /\ h.version = k.version /\ h.recordVersion = k.recordVersion
      /\ filterNonGREASE(h.ciphers) = filterNonGREASE(k.ciphers)
  BY <1>1 DEF SameButOrder
<1>3. AreSaid(h.exts) = AreSaid(k.exts)
  BY <1>1 DEF SameButOrder, AreSaid
<1>4. /\ \A t \in {10, 13, 43} : filterNonGREASE(Carried(h.exts, t)) = filterNonGREASE(Carried(k.exts, t))
      /\ \A t \in {11, 16} : Carried(h.exts, t) = Carried(k.exts, t)
  <2>1. \A t \in {10, 13, 43} : filterNonGREASE(Carried(h.exts, t)) = filterNonGREASE(Carried(k.exts, t))
    BY <1>1, <1>3, CarriedSame
  <2>2. \A t \in {11, 16} : Carried(h.exts, t) = Carried(k.exts, t)
    BY <1>1, <1>3, CarriedSame
  <2> QED BY <2>1, <2>2
<1>5. /\ HasOnce(ExtensionOrder(h.exts)) /\ HasOnce(ExtensionOrder(k.exts))
      /\ MembersOf(ExtensionOrder(h.exts)) = MembersOf(ExtensionOrder(k.exts))
  BY <1>1, <1>3, OrderOnce
<1>6. /\ p.quic = h.quic /\ p.LegacyVersion = h.version /\ p.RecordVersion = h.recordVersion
      /\ p.CipherSuites = h.ciphers /\ p.ExtensionOrder = ExtensionOrder(h.exts)
      /\ p.ALPN = Carried(h.exts, 16) /\ p.SupportedVersions = Carried(h.exts, 43)
      /\ p.SupportedGroups = Carried(h.exts, 10) /\ p.ECPointFormats = Carried(h.exts, 11)
      /\ p.SignatureAlgs = Carried(h.exts, 13)
  BY ParsedHas
<1>7. /\ q.quic = k.quic /\ q.LegacyVersion = k.version /\ q.RecordVersion = k.recordVersion
      /\ q.CipherSuites = k.ciphers /\ q.ExtensionOrder = ExtensionOrder(k.exts)
      /\ q.ALPN = Carried(k.exts, 16) /\ q.SupportedVersions = Carried(k.exts, 43)
      /\ q.SupportedGroups = Carried(k.exts, 10) /\ q.ECPointFormats = Carried(k.exts, 11)
      /\ q.SignatureAlgs = Carried(k.exts, 13)
  BY ParsedHas
<1> HIDE DEF p, q
<1>8. Alike(p, q)
  BY <1>2, <1>4, <1>5, <1>6, <1>7 DEF Alike
<1> QED BY <1>8 DEF p, q

\* Their JA4 has one prefix,
LEMMA AlikeHeads ==
  ASSUME NEW p, NEW q, Alike(p, q)
  PROVE  ja4Prefix(p) = ja4Prefix(q)
<1>1. Contains(p.ExtensionOrder, ExtServerName) <=> Contains(q.ExtensionOrder, ExtServerName)
  <2>1. ASSUME NEW order
        PROVE  Contains(order, ExtServerName) <=> 0 \in MembersOf(order)
    <3>1. ~IsGREASE16(0)
      BY DEF IsGREASE16
    <3> QED BY <3>1 DEF Contains, MembersOf, ExtServerName
  <2> QED BY <2>1 DEF Alike
<1>2. ja4Version(p) = ja4Version(q)
  BY DEF ja4Version, Alike
<1>3. /\ Len(filterNonGREASE(p.ExtensionOrder)) = Len(filterNonGREASE(q.ExtensionOrder))
      /\ Len(filterNonGREASE(p.CipherSuites)) = Len(filterNonGREASE(q.CipherSuites))
      /\ p.quic = q.quic /\ p.ALPN = q.ALPN
  BY ListedSame DEF Alike
<1> QED BY <1>1, <1>2, <1>3 DEF ja4Prefix

\* and one body; their sets are one, and JA3 tells them apart by their order.
LEMMA AlikeFingerprints ==
  ASSUME NEW p, NEW q, Alike(p, q)
  PROVE  /\ JA4(p) = JA4(q)
         /\ extensionSetSignature(p.ExtensionOrder) = extensionSetSignature(q.ExtensionOrder)
         /\ JA3Raw(p) = JA3Raw(q) <=> filterNonGREASE(p.ExtensionOrder) = filterNonGREASE(q.ExtensionOrder)
<1>1. JA4(p) = JA4(q)
  <2> DEFINE f == filterNonGREASE(p.ExtensionOrder)
             g == filterNonGREASE(q.ExtensionOrder)
             s == filterNonGREASE(p.SignatureAlgs)
  <2>1. ja4ExtList(f) = ja4ExtList(g) /\ s = filterNonGREASE(q.SignatureAlgs)
    BY ListedSame DEF Alike
  <2>2. filterNonGREASE(p.CipherSuites) = filterNonGREASE(q.CipherSuites)
    BY DEF Alike
  <2>3. ja4ExtRaw(f, s) = ja4ExtRaw(g, s)
    BY <2>1 DEF ja4ExtRaw
  <2>4. /\ JA4(p) = <<ja4Prefix(p), Sorted(filterNonGREASE(p.CipherSuites)), ja4ExtRaw(f, s)>>
        /\ JA4(q) = <<ja4Prefix(q), Sorted(filterNonGREASE(q.CipherSuites)), ja4ExtRaw(g, filterNonGREASE(q.SignatureAlgs))>>
    BY DEF JA4
  <2> HIDE DEF f, g, s
  <2> QED BY <2>1, <2>2, <2>3, <2>4, AlikeHeads
<1>2. extensionSetSignature(p.ExtensionOrder) = extensionSetSignature(q.ExtensionOrder)
  BY NonGREASEOnce DEF extensionSetSignature, Alike
<1>3. JA3Raw(p) = JA3Raw(q) <=> filterNonGREASE(p.ExtensionOrder) = filterNonGREASE(q.ExtensionOrder)
  BY DEF JA3Raw, Alike
<1> QED BY <1>1, <1>2, <1>3

\* What the samples of lab permute and its report say.
OrderIsIgnored(hellos, rep) ==
  /\ \A i, j \in DOMAIN hellos :
       /\ JA4(hellos[i]) = JA4(hellos[j])
       /\ extensionSetSignature(hellos[i].ExtensionOrder) = extensionSetSignature(hellos[j].ExtensionOrder)
  /\ rep.SkeletonStable <=> rep.UniqueJA3 = 1

\* and that it is right of hellos that are alike.
LEMMA AlikeReport ==
  ASSUME NEW n \in Nat, n >= 1, NEW hellos, hellos = [i \in 1..n |-> hellos[i]],
         \A i, j \in 1..n : Alike(hellos[i], hellos[j])
  PROVE  OrderIsIgnored(hellos, AnalyzeExtensionPermutation(hellos))
<1> DEFINE ja3 == [i \in 1..n |-> JA3Raw(hellos[i])]
           rep == AnalyzeExtensionPermutation(hellos)
           skel(i) == filterNonGREASE(hellos[i].ExtensionOrder)
<1>1. DOMAIN hellos = 1..n
  OBVIOUS
<1>2. Len(hellos) = n
  <2>1. hellos \in [1..n -> {hellos[i] : i \in 1..n}]
    OBVIOUS
  <2> QED BY <2>1, ListIs
<1>3. /\ rep.UniqueJA3 = Cardinality({JA3Raw(hellos[i]) : i \in 1..n})
      /\ rep.SkeletonStable <=> \A i \in 1..n : skel(i) = skel(1)
  BY <1>2, ReportSays
<1>4. {JA3Raw(hellos[i]) : i \in 1..n} = {ja3[i] : i \in 1..n}
  OBVIOUS
<1>5. \A i \in 1..n : ja3[i] = JA3Raw(hellos[i])
  OBVIOUS
<1>6. ja3 = [i \in 1..n |-> ja3[i]]
  OBVIOUS
<1>7. 1 \in 1..n
  OBVIOUS
<1> HIDE DEF ja3, rep, skel
<1>8. Cardinality({ja3[i] : i \in 1..n}) = 1 <=> \A i \in 1..n : ja3[i] = ja3[1]
  BY <1>6, OneIfSame
<1>9. \A i \in 1..n : ja3[i] = ja3[1] <=> skel(i) = skel(1)
  <2> SUFFICES ASSUME NEW i \in 1..n
               PROVE  ja3[i] = ja3[1] <=> skel(i) = skel(1)
    OBVIOUS
  <2>1. Alike(hellos[i], hellos[1])
    BY <1>7
  <2>2. JA3Raw(hellos[i]) = JA3Raw(hellos[1]) <=>
          filterNonGREASE(hellos[i].ExtensionOrder) = filterNonGREASE(hellos[1].ExtensionOrder)
    BY <2>1, AlikeFingerprints
  <2> QED BY <1>5, <1>7, <2>2 DEF skel
<1>10. rep.SkeletonStable <=> rep.UniqueJA3 = 1
  BY <1>3, <1>4, <1>8, <1>9
<1>11. \A i, j \in 1..n :
         /\ JA4(hellos[i]) = JA4(hellos[j])
         /\ extensionSetSignature(hellos[i].ExtensionOrder) = extensionSetSignature(hellos[j].ExtensionOrder)
  BY AlikeFingerprints
<1> QED BY <1>1, <1>10, <1>11 DEF OrderIsIgnored, rep

\* The parts of an answer.
LEMMA PermuteAnswer ==
  ASSUME NEW a, NEW b
  PROVE  Answer([samples |-> a, report |-> b]).out.samples = a /\ Answer([samples |-> a, report |-> b]).out.report = b
BY DEF Answer

\* What lab permute says of the hellos of a parrot ignores their order,
LEMMA PermuteSays ==
  ASSUME NEW name \in DOMAIN Parrots, NEW n \in Nat, n >= 1, NEW samples \in [1..n -> Parrots[name]],
         ~labPermute(samples).err
  PROVE  OrderIsIgnored(labPermute(samples).out.samples, labPermute(samples).out.report)
<1> DEFINE parsed == [i \in DOMAIN samples |-> ParseClientHello(samples[i])]
           rep == AnalyzeExtensionPermutation(parsed)
<1>1. labPermute(samples) =
        IF \E i \in DOMAIN parsed : ~parsed[i].ok THEN Refused ELSE Answer([samples |-> parsed, report |-> rep])
  BY DEF labPermute
<1>2. DOMAIN samples = 1..n
  OBVIOUS
<1>3. parsed = [i \in 1..n |-> ParseClientHello(samples[i])]
  BY <1>2
<1> HIDE DEF parsed, rep
<1>4. DOMAIN parsed = 1..n /\ (\A i \in 1..n : parsed[i] = ParseClientHello(samples[i]))
      /\ parsed = [i \in 1..n |-> parsed[i]]
  BY <1>3
<1>5. \A i \in 1..n : parsed[i].ok
  <2>1. Refused.err
    BY DEF Refused
  <2> QED BY <1>1, <1>4, <2>1
<1>6. labPermute(samples) = Answer([samples |-> parsed, report |-> rep])
  BY <1>1, <1>4, <1>5
<1>7. \A i, j \in 1..n : Alike(parsed[i], parsed[j])
  BY <1>4, <1>5, ParrotsAlike
<1>8. OrderIsIgnored(parsed, rep)
  BY <1>4, <1>7, AlikeReport DEF rep
<1> QED BY <1>6, <1>8, PermuteAnswer

\* and so does its answer.
LEMMA PermuteStep ==
  ASSUME LabPermute
  PROVE  SignaturesIgnoreOrder'
<1>1. PICK preset \in {p.preset : p \in Range(Shipped)}, n \in 0..3 :
        \E samples \in [1..Samples(n) -> SynthClientHello(preset)] : Runs("permute", labPermute(samples))
  BY DEF LabPermute
<1>2. PICK samples \in [1..Samples(n) -> SynthClientHello(preset)] : Runs("permute", labPermute(samples))
  BY <1>1
<1>3. Samples(n) \in Nat /\ Samples(n) >= 1
  BY DEF Samples
<1>4. ClientHelloID(preset) \in DOMAIN Parrots
  BY ParrotsAssumption
<1>5. ran'.res = labPermute(samples)
  BY <1>2, RunsParts
<1>6. ~labPermute(samples).err => OrderIsIgnored(labPermute(samples).out.samples, labPermute(samples).out.report)
  BY <1>2, <1>3, <1>4, PermuteSays DEF SynthClientHello
<1>7. ~ran'.res.err => OrderIsIgnored(ran'.res.out.samples, ran'.res.out.report)
  BY <1>5, <1>6
<1> QED BY <1>7 DEF OrderIsIgnored, SignaturesIgnoreOrder, Ok

\* Whatever hellos a parrot has that differ in the order of their extensions and
\* in GREASE, however many are sampled: their JA4 and their set signature are
\* one, and JA3 counts them as one exactly if their skeleton is stable
\* (entropy.go: AnalyzeExtensionPermutation; tls_ja.go).
THEOREM SignaturesIgnoreOrderHolds == Spec => []SignaturesIgnoreOrder
<1>1. Init => SignaturesIgnoreOrder
  BY DEF Init, Prompt, SignaturesIgnoreOrder, Ok
<1>2. SignaturesIgnoreOrder /\ [Next]_vars => SignaturesIgnoreOrder'
  <2> SUFFICES ASSUME SignaturesIgnoreOrder, [Next]_vars PROVE SignaturesIgnoreOrder'
    OBVIOUS
  <2>1. CASE UNCHANGED ran
    BY <2>1 DEF SignaturesIgnoreOrder, Ok
  <2>2. CASE ran'.cmd # "permute"
    BY <2>2 DEF SignaturesIgnoreOrder, Ok
  <2>3. CASE LabPermute
    BY <2>3, PermuteStep
  <2>4. ScanProfile \/ CompareExports \/ LabHeaders \/ FingerprintFiles => ran'.cmd # "permute"
    BY AnswersCommand
  <2> QED BY <2>1, <2>2, <2>3, <2>4, StepRan
<1> QED BY <1>1, <1>2, PTL DEF Spec

-----------------------------------------------------------------------------
(* Captures                                                                *)

\* References that the corpus may have, and layers that fit their owners' engines.
AreReferences(refs) == \A f \in Clients : \A l \in Layers : refs[f][l] \in ReferencesOf(f, l)
FitOwners(own, layers) ==
  \A l \in Layers : layers[l].ok => own[l] \in Clients /\ FitsItsEngine(own[l], l, layers[l])

\* The scores of each family by layer, and their mean.
Rated(refs, layers) == [f \in Clients |-> [l \in Layers |-> ScoreOf(refs, f, layers, l)]]
Total(v) == 50 * v["hello"] + 25 * v["h2"] + 15 * v["h3"] + 15 * v["quic"]
Mean(total, weights) == IF weights = 0 THEN 0 ELSE total \div weights

\* These scores are out of Full, none for a layer that is missing; hellos are
\* scored in percent; the families of an engine differ in the hello only; the
\* hello tells its owner from the other engines, and the flight in full or not
\* at all; the other two layers tell engines apart by less.
AreScores(s) == \A f \in Clients : \A l \in Layers : s[f][l] \in 0..Full
NoneIfMissing(layers, s) == \A f \in Clients : \A l \in Layers : ~layers[l].ok => s[f][l] = 0
HellosInPercent(s) == \A f \in Clients : \E n \in 0..100 : s[f]["hello"] = n * 1000
EnginesAgree(s) == \A f, g \in Clients : SameEngine(f, g) =>
                     s[f]["h2"] = s[g]["h2"] /\ s[f]["h3"] = s[g]["h3"] /\ s[f]["quic"] = s[g]["quic"]
HelloTells(own, s) == \A g \in Clients : ~SameEngine(own, g) => s[own]["hello"] - s[g]["hello"] > 50000
FlightTells(own, s) ==
  /\ \A f \in Clients : s[f]["h2"] = Full => SameEngine(own, f)
  /\ \A f, g \in Clients : SameEngine(own, f) /\ ~SameEngine(own, g) => s[f]["h2"] \in {s[g]["h2"], Full}
RestIsClose(s) ==
  \A f, g \in Clients : s[f]["h3"] - s[g]["h3"] <= 75000 /\ s[f]["quic"] - s[g]["quic"] <= 75000

\* What FitsItsEngine says of two families,
LEMMA FitSays ==
  ASSUME NEW own, NEW l \in Layers, NEW got, FitsItsEngine(own, l, got),
         NEW f \in Clients, NEW g \in Clients, NEW r \in ReferencesOf(f, l), NEW s \in ReferencesOf(g, l)
  PROVE  /\ r.ok /\ LayerScore(l, r, got) \in 0..Full
         /\ l = "hello" => DiffClientHellos(r, got).Score \in 0..100
         /\ l = "hello" /\ f = own /\ ~SameEngine(f, g) => LayerScore(l, r, got) - LayerScore(l, s, got) > Full \div 2
         /\ l # "hello" /\ SameEngine(f, g) => LayerScore(l, r, got) = LayerScore(l, s, got)
         /\ l = "h2" /\ LayerScore(l, r, got) = Full => SameEngine(own, f)
         /\ l = "h2" /\ SameEngine(own, f) /\ ~SameEngine(own, g) =>
              LayerScore(l, r, got) \in {LayerScore(l, s, got), Full}
         /\ l \in {"h3", "quic"} => LayerScore(l, r, got) - LayerScore(l, s, got) <= (3 * Full) \div 4
BY DEF FitsItsEngine

\* of two of one engine,
LEMMA FitsAlike ==
  ASSUME NEW own, NEW l \in Layers, NEW got, FitsItsEngine(own, l, got), l # "hello",
         NEW f \in Clients, NEW g \in Clients, SameEngine(f, g),
         NEW r \in ReferencesOf(f, l), NEW s \in ReferencesOf(g, l)
  PROVE  LayerScore(l, r, got) = LayerScore(l, s, got)
BY DEF FitsItsEngine

\* and of two engines.
LEMMA FlightFitsOrNot ==
  ASSUME NEW own, NEW got, FitsItsEngine(own, "h2", got),
         NEW f \in Clients, NEW g \in Clients, SameEngine(own, f), ~SameEngine(own, g),
         NEW r \in ReferencesOf(f, "h2"), NEW s \in ReferencesOf(g, "h2")
  PROVE  LayerScore("h2", r, got) \in {LayerScore("h2", s, got), Full}
<1>1. "h2" \in Layers
  BY DEF Layers
<1> QED BY <1>1, FitSays

\* A layer that is missing scores nothing.
LEMMA RatedIs ==
  ASSUME NEW refs, NEW layers, NEW f \in Clients, NEW l \in Layers
  PROVE  Rated(refs, layers)[f][l] = IF layers[l].ok THEN LayerScore(l, refs[f][l], layers[l]) ELSE 0
BY DEF Rated, ScoreOf

\* A hello scores in percent.
LEMMA HelloInPercent ==
  ASSUME NEW ref, NEW got
  PROVE  LayerScore("hello", ref, got) = DiffClientHellos(ref, got).Score * 1000
<1>1. LayerScore("hello", ref, got) = DiffClientHellos(ref, got).Score * (Full \div 100)
  BY DEF LayerScore
<1>2. Full \div 100 = 1000
  BY DEF Full
<1> QED BY <1>1, <1>2

\* Layers that fit their owners' engines score so.
LEMMA RatedFit ==
  ASSUME NEW refs, NEW layers, NEW own, AreReferences(refs), FitOwners(own, layers)
  PROVE  /\ AreScores(Rated(refs, layers)) /\ NoneIfMissing(layers, Rated(refs, layers))
         /\ HellosInPercent(Rated(refs, layers)) /\ EnginesAgree(Rated(refs, layers))
         /\ layers["hello"].ok => own["hello"] \in Clients /\ HelloTells(own["hello"], Rated(refs, layers))
         /\ layers["h2"].ok => own["h2"] \in Clients /\ FlightTells(own["h2"], Rated(refs, layers))
         /\ RestIsClose(Rated(refs, layers))
<1> DEFINE s == Rated(refs, layers)
<1>1. \A f \in Clients : \A l \in Layers :
        s[f][l] = IF layers[l].ok THEN LayerScore(l, refs[f][l], layers[l]) ELSE 0
  BY RatedIs
<1> HIDE DEF s
<1>2. \A f \in Clients : \A l \in Layers : refs[f][l] \in ReferencesOf(f, l)
  BY DEF AreReferences
<1>3. \A l \in Layers : layers[l].ok => own[l] \in Clients /\ FitsItsEngine(own[l], l, layers[l])
  BY DEF FitOwners
<1>4. {"hello", "h2", "h3", "quic"} = Layers
  BY DEF Layers
<1>5. NoneIfMissing(layers, s)
  BY <1>1 DEF NoneIfMissing
<1>6. AreScores(s)
  <2> SUFFICES ASSUME NEW f \in Clients, NEW l \in Layers
               PROVE  s[f][l] \in 0..Full
    BY DEF AreScores
  <2>1. CASE layers[l].ok
    <3>1. LayerScore(l, refs[f][l], layers[l]) \in 0..Full
      BY <1>2, <1>3, <2>1, FitSays
    <3> QED BY <1>1, <2>1, <3>1
  <2>2. CASE ~layers[l].ok
    <3>1. 0 \in 0..Full
      BY DEF Full
    <3> QED BY <1>1, <2>2, <3>1
  <2> QED BY <2>1, <2>2
<1>7. HellosInPercent(s)
  <2> SUFFICES ASSUME NEW f \in Clients
               PROVE  \E n \in 0..100 : s[f]["hello"] = n * 1000
    BY DEF HellosInPercent
  <2>1. CASE layers["hello"].ok
    <3> DEFINE n == DiffClientHellos(refs[f]["hello"], layers["hello"]).Score
    <3>1. n \in 0..100
      BY <1>2, <1>3, <1>4, <2>1, FitSays
    <3>2. s[f]["hello"] = n * 1000
      BY <1>1, <1>4, <2>1, HelloInPercent
    <3> HIDE DEF n
    <3> QED BY <3>1, <3>2
  <2>2. CASE ~layers["hello"].ok
    <3>1. s[f]["hello"] = 0
      BY <1>1, <1>4, <2>2
    <3>2. 0 \in 0..100 /\ 0 = 0 * 1000
      OBVIOUS
    <3> QED BY <3>1, <3>2
  <2> QED BY <2>1, <2>2
<1>8. EnginesAgree(s)
  <2> SUFFICES ASSUME NEW f \in Clients, NEW g \in Clients, SameEngine(f, g),
                      NEW l \in {"h2", "h3", "quic"}
               PROVE  s[f][l] = s[g][l]
    BY DEF EnginesAgree
  <2>0. l \in Layers /\ l # "hello"
    BY <1>4
  <2>1. CASE layers[l].ok
    <3>1. /\ FitsItsEngine(own[l], l, layers[l]) /\ l \in Layers
          /\ refs[f][l] \in ReferencesOf(f, l) /\ refs[g][l] \in ReferencesOf(g, l)
      BY <1>2, <1>3, <2>0, <2>1
    <3>2. LayerScore(l, refs[f][l], layers[l]) = LayerScore(l, refs[g][l], layers[l])
      BY <2>0, <3>1, FitsAlike
    <3> QED BY <1>1, <2>0, <2>1, <3>2
  <2>2. CASE ~layers[l].ok
    BY <1>1, <2>0, <2>2
  <2> QED BY <2>1, <2>2
<1>9. ASSUME layers["hello"].ok
      PROVE  own["hello"] \in Clients /\ HelloTells(own["hello"], s)
  <2>1. own["hello"] \in Clients /\ FitsItsEngine(own["hello"], "hello", layers["hello"])
    BY <1>3, <1>4, <1>9
  <2> SUFFICES ASSUME NEW g \in Clients, ~SameEngine(own["hello"], g)
               PROVE  s[own["hello"]]["hello"] - s[g]["hello"] > 50000
    BY <2>1 DEF HelloTells
  <2>2. LayerScore("hello", refs[own["hello"]]["hello"], layers["hello"])
          - LayerScore("hello", refs[g]["hello"], layers["hello"]) > Full \div 2
    BY <1>2, <1>4, <2>1, FitSays
  <2>3. /\ s[own["hello"]]["hello"] = LayerScore("hello", refs[own["hello"]]["hello"], layers["hello"])
        /\ s[g]["hello"] = LayerScore("hello", refs[g]["hello"], layers["hello"])
    BY <1>1, <1>4, <1>9, <2>1
  <2>4. Full \div 2 = 50000
    BY DEF Full
  <2> QED BY <2>2, <2>3, <2>4
<1>10. ASSUME layers["h2"].ok
       PROVE  own["h2"] \in Clients /\ FlightTells(own["h2"], s)
  <2>1. own["h2"] \in Clients /\ FitsItsEngine(own["h2"], "h2", layers["h2"])
    BY <1>3, <1>4, <1>10
  <2>2. \A f \in Clients : s[f]["h2"] = LayerScore("h2", refs[f]["h2"], layers["h2"])
    BY <1>1, <1>4, <1>10
  <2>3. ASSUME NEW f \in Clients, s[f]["h2"] = Full
        PROVE  SameEngine(own["h2"], f)
    BY <1>2, <1>4, <2>1, <2>2, <2>3, FitSays
  <2>4. ASSUME NEW f \in Clients, NEW g \in Clients, SameEngine(own["h2"], f), ~SameEngine(own["h2"], g)
        PROVE  s[f]["h2"] \in {s[g]["h2"], Full}
    <3>1. LayerScore("h2", refs[f]["h2"], layers["h2"]) \in {LayerScore("h2", refs[g]["h2"], layers["h2"]), Full}
      <4>1. /\ "h2" \in Layers /\ refs[f]["h2"] \in ReferencesOf(f, "h2")
            /\ refs[g]["h2"] \in ReferencesOf(g, "h2")
        BY <1>2, <1>4
      <4> QED BY <2>1, <2>4, <4>1, FlightFitsOrNot
    <3> QED BY <2>2, <3>1
  <2> QED BY <2>1, <2>3, <2>4 DEF FlightTells
<1>11. RestIsClose(s)
  <2> SUFFICES ASSUME NEW f \in Clients, NEW g \in Clients, NEW l \in {"h3", "quic"}
               PROVE  s[f][l] - s[g][l] <= 75000
    BY DEF RestIsClose
  <2>0. l \in Layers
    BY <1>4
  <2>1. CASE layers[l].ok
    <3>1. LayerScore(l, refs[f][l], layers[l]) - LayerScore(l, refs[g][l], layers[l]) <= (3 * Full) \div 4
      BY <1>2, <1>3, <2>0, <2>1, FitSays
    <3>2. (3 * Full) \div 4 = 75000
      BY DEF Full
    <3> QED BY <1>1, <2>0, <2>1, <3>1, <3>2
  <2>2. CASE ~layers[l].ok
    <3>1. s[f][l] = 0 /\ s[g][l] = 0
      BY <1>1, <2>0, <2>2
    <3> QED BY <3>1
  <2> QED BY <2>1, <2>2
<1> QED BY <1>5, <1>6, <1>7, <1>8, <1>9, <1>10, <1>11 DEF s

\* The clients are the three families.
LEMMA ClientsAre ==
  /\ Clients = {"chrome", "edge", "firefox"} /\ "" \notin Clients
  /\ Clients = {fingerprintFamilies[1], fingerprintFamilies[2], fingerprintFamilies[3]}
<1>1. DOMAIN fingerprintFamilies = 1..3
  BY DEF fingerprintFamilies
<1>2. /\ fingerprintFamilies[1] = "chrome"
      /\ fingerprintFamilies[2] = "edge"
      /\ fingerprintFamilies[3] = "firefox"
  BY DEF fingerprintFamilies
<1>3. Clients = {fingerprintFamilies[i] : i \in 1..3}
  BY <1>1 DEF Clients, Range
<1>4. Clients = {fingerprintFamilies[1], fingerprintFamilies[2], fingerprintFamilies[3]}
  BY <1>3
<1> QED BY <1>2, <1>4

\* Scores are numbers.
LEMMA ScoresAreNumbers ==
  ASSUME NEW s, AreScores(s), NEW f \in Clients
  PROVE  /\ s[f]["hello"] \in Int /\ s[f]["h2"] \in Int /\ s[f]["h3"] \in Int /\ s[f]["quic"] \in Int
         /\ s[f]["h2"] <= Full /\ s[f]["hello"] >= 0
<1>1. "hello" \in Layers /\ "h2" \in Layers /\ "h3" \in Layers /\ "quic" \in Layers
  BY DEF Layers
<1>2. \A l \in Layers : s[f][l] \in 0..Full
  BY DEF AreScores
<1>3. Full \in Int
  BY DEF Full
<1>4. \A l \in Layers : s[f][l] \in Int /\ s[f][l] <= Full /\ s[f][l] >= 0
  BY <1>2, <1>3
<1> QED BY <1>1, <1>4

\* To be of one engine is an equivalence, with two classes.
LEMMA EnginesAre ==
  /\ \A f, g : SameEngine(f, g) => SameEngine(g, f)
  /\ \A f, g, h : SameEngine(f, g) /\ SameEngine(g, h) => SameEngine(f, h)
  /\ \A f : SameEngine(f, f)
  /\ \A f, g, h : ~SameEngine(f, g) /\ ~SameEngine(f, h) => SameEngine(g, h)
BY DEF SameEngine, Serve!Engine

\* Of one engine, the family whose hello fits better ranks higher.
LEMMA HelloDecides ==
  ASSUME NEW s, AreScores(s), HellosInPercent(s), EnginesAgree(s), NEW w \in 1..105,
         NEW f \in Clients, NEW g \in Clients, SameEngine(f, g), s[g]["hello"] > s[f]["hello"]
  PROVE  Total(s[g]) \div w > Total(s[f]) \div w
<1> DEFINE a == s[f]["hello"]
           b == s[g]["hello"]
           p == s[f]["h2"]
           q == s[f]["h3"]
           t == s[f]["quic"]
<1>0. PICK m \in 0..100 : a = m * 1000
  BY DEF HellosInPercent
<1>1. PICK n \in 0..100 : b = n * 1000
  BY DEF HellosInPercent
<1>2. s[g]["h2"] = p /\ s[g]["h3"] = q /\ s[g]["quic"] = t
  BY DEF EnginesAgree
<1>3. p \in Int /\ q \in Int /\ t \in Int
  BY ScoresAreNumbers
<1>4. Total(s[f]) = 50 * a + 25 * p + 15 * q + 15 * t /\ Total(s[g]) = 50 * b + 25 * p + 15 * q + 15 * t
  BY <1>2 DEF Total
<1>5. b > a
  OBVIOUS
<1> HIDE DEF a, b, p, q, t
<1>6. Total(s[f]) \in Int /\ Total(s[g]) \in Int /\ Total(s[g]) >= Total(s[f]) + w
  BY <1>0, <1>1, <1>3, <1>4, <1>5
<1> QED BY <1>6, DivLess

\* A family of another engine is above only for its flight.
LEMMA FlightDecides ==
  ASSUME NEW s, AreScores(s), RestIsClose(s), NEW w \in 1..105,
         NEW f \in Clients, NEW g \in Clients, s[f]["hello"] - s[g]["hello"] > 50000,
         s[f]["h2"] >= s[g]["h2"]
  PROVE  Total(s[f]) \div w > Total(s[g]) \div w
<1>1. /\ s[f]["hello"] \in Int /\ s[f]["h2"] \in Int /\ s[f]["h3"] \in Int /\ s[f]["quic"] \in Int
      /\ s[g]["hello"] \in Int /\ s[g]["h2"] \in Int /\ s[g]["h3"] \in Int /\ s[g]["quic"] \in Int
  BY ScoresAreNumbers
<1>2. s[g]["h3"] - s[f]["h3"] <= 75000 /\ s[g]["quic"] - s[f]["quic"] <= 75000
  BY DEF RestIsClose
<1>3. Total(s[f]) \in Int /\ Total(s[g]) \in Int /\ Total(s[f]) >= Total(s[g]) + w
  BY <1>1, <1>2 DEF Total
<1> QED BY <1>3, DivLess

\* A ranking of the families by the means of their scores.
RankedBy(r, s, w) ==
  /\ DOMAIN r = 1..3
  /\ \A i \in 1..3 :
       /\ r[i].Family \in Clients
       /\ r[i].HelloScore = s[r[i].Family]["hello"]
       /\ r[i].H2Score = s[r[i].Family]["h2"]
  /\ \A f \in Clients : \E i \in 1..3 : r[i].Family = f
  /\ \A i, j \in 1..3 : i < j => Mean(Total(s[r[i].Family]), w) >= Mean(Total(s[r[j].Family]), w)

\* The weights of the layers that are there.
LEMMA WeightsAre ==
  ASSUME NEW layers
  PROVE  AllWeights(layers) \in 0..105 /\ (layers["hello"].ok => AllWeights(layers) > 0)
<1>1. \A l \in Layers : Weight(layers, l) = IF layers[l].ok THEN LayerWeight[l] ELSE 0
  BY DEF Weight
<1>2. /\ LayerWeight["hello"] = 50 /\ LayerWeight["h2"] = 25 /\ LayerWeight["h3"] = 15 /\ LayerWeight["quic"] = 15
  BY DEF LayerWeight
<1>3. /\ Weight(layers, "hello") \in {0, 50} /\ Weight(layers, "h2") \in {0, 25}
      /\ Weight(layers, "h3") \in {0, 15} /\ Weight(layers, "quic") \in {0, 15}
      /\ layers["hello"].ok => Weight(layers, "hello") = 50
  BY <1>1, <1>2 DEF Layers
<1> QED BY <1>3 DEF AllWeights

\* The weighted sum is the total of the scores.
LEMMA TotalIs ==
  ASSUME NEW refs, NEW layers, NEW f \in Clients, AreScores(Rated(refs, layers))
  PROVE  WeightedSum(refs, f, layers) = Total(Rated(refs, layers)[f])
<1> DEFINE v == Rated(refs, layers)[f]
<1>0. \A l \in Layers : v[l] = ScoreOf(refs, f, layers, l)
  BY DEF Rated
<1>1. \A l \in Layers : v[l] = ScoreOf(refs, f, layers, l) /\ v[l] \in Int
  <2>1. \A l \in Layers : v[l] \in 0..Full
    BY DEF AreScores
  <2>2. Full \in Int
    BY DEF Full
  <2> HIDE DEF v
  <2> QED BY <1>0, <2>1, <2>2
<1> HIDE DEF v
<1>2. \A l \in Layers : Weight(layers, l) * ScoreOf(refs, f, layers, l) = LayerWeight[l] * v[l]
  <2> SUFFICES ASSUME NEW l \in Layers
               PROVE  Weight(layers, l) * ScoreOf(refs, f, layers, l) = LayerWeight[l] * v[l]
    OBVIOUS
  <2>0. LayerWeight[l] \in Int
    BY DEF LayerWeight, Layers
  <2>1. CASE layers[l].ok
    <3>1. Weight(layers, l) = LayerWeight[l]
      BY <2>1 DEF Weight
    <3> QED BY <1>1, <3>1
  <2>2. CASE ~layers[l].ok
    <3>1. Weight(layers, l) = 0 /\ v[l] = 0 /\ ScoreOf(refs, f, layers, l) = 0
      BY <1>1, <2>2 DEF Weight, ScoreOf
    <3> QED BY <2>0, <3>1
  <2> QED BY <2>1, <2>2
<1>3. /\ LayerWeight["hello"] = 50 /\ LayerWeight["h2"] = 25 /\ LayerWeight["h3"] = 15 /\ LayerWeight["quic"] = 15
  BY DEF LayerWeight
<1>4. /\ Weight(layers, "hello") * ScoreOf(refs, f, layers, "hello") = 50 * v["hello"]
      /\ Weight(layers, "h2") * ScoreOf(refs, f, layers, "h2") = 25 * v["h2"]
      /\ Weight(layers, "h3") * ScoreOf(refs, f, layers, "h3") = 15 * v["h3"]
      /\ Weight(layers, "quic") * ScoreOf(refs, f, layers, "quic") = 15 * v["quic"]
  BY <1>2, <1>3 DEF Layers
<1>5. WeightedSum(refs, f, layers) = 50 * v["hello"] + 25 * v["h2"] + 15 * v["h3"] + 15 * v["quic"]
  BY <1>4 DEF WeightedSum
<1> QED BY <1>5 DEF Total, v

\* What scoreFamily makes of layers that fit.
LEMMA FamilyRated ==
  ASSUME NEW refs, NEW layers, NEW own, AreReferences(refs), FitOwners(own, layers), NEW f \in Clients
  PROVE  /\ scoreFamily(refs, f, layers).Family = f
         /\ scoreFamily(refs, f, layers).HelloScore = Rated(refs, layers)[f]["hello"]
         /\ scoreFamily(refs, f, layers).H2Score = Rated(refs, layers)[f]["h2"]
         /\ scoreFamily(refs, f, layers).Score = Mean(Total(Rated(refs, layers)[f]), AllWeights(layers))
<1>1. \A l \in Layers : layers[l].ok => refs[f][l].ok
  BY FitSays DEF AreReferences, FitOwners
<1>2. WeightedSum(refs, f, layers) = Total(Rated(refs, layers)[f])
  BY TotalIs, RatedFit
<1>3. "hello" \in Layers /\ "h2" \in Layers
  BY DEF Layers
<1>4. /\ Rated(refs, layers)[f]["hello"] = ScoreOf(refs, f, layers, "hello")
      /\ Rated(refs, layers)[f]["h2"] = ScoreOf(refs, f, layers, "h2")
  BY <1>3 DEF Rated
<1> QED BY <1>1, <1>2, <1>4, FamilyScore DEF Mean

\* Means are numbers.
LEMMA MeanIsNumber ==
  ASSUME NEW s, AreScores(s), NEW f \in Clients, NEW w \in 0..105
  PROVE  Mean(Total(s[f]), w) \in Int
<1>1. Total(s[f]) \in Int
  BY ScoresAreNumbers DEF Total
<1>2. CASE w = 0
  BY <1>2 DEF Mean
<1>3. CASE w # 0
  <2>1. Total(s[f]) \div w \in Int
    BY <1>1, <1>3, DivMonotone
  <2> QED BY <1>3, <2>1 DEF Mean
<1> QED BY <1>2, <1>3

\* Ranking ranks by the means.
LEMMA RankingIs ==
  ASSUME NEW refs, NEW layers, NEW own, AreReferences(refs), FitOwners(own, layers)
  PROVE  RankedBy(Ranking(refs, layers), Rated(refs, layers), AllWeights(layers))
<1> DEFINE m == Families(refs, layers)
           s == Rated(refs, layers)
           w == AllWeights(layers)
           r == Ranking(refs, layers)
           F(i) == fingerprintFamilies[i]
<1>1. \A i \in 1..3 : F(i) \in Clients /\ m[i] = scoreFamily(refs, F(i), layers)
  <2>1. /\ m[1] = scoreFamily(refs, F(1), layers) /\ m[2] = scoreFamily(refs, F(2), layers)
        /\ m[3] = scoreFamily(refs, F(3), layers)
    BY DEF Families
  <2>2. F(1) \in Clients /\ F(2) \in Clients /\ F(3) \in Clients
    BY ClientsAre
  <2> HIDE DEF m, F
  <2> QED BY <2>1, <2>2
<1>2. \A i \in 1..3 : /\ m[i].Family = F(i) /\ m[i].HelloScore = s[F(i)]["hello"]
                      /\ m[i].H2Score = s[F(i)]["h2"] /\ m[i].Score = Mean(Total(s[F(i)]), w)
  <2>1. ASSUME NEW f \in Clients
        PROVE  /\ scoreFamily(refs, f, layers).Family = f /\ scoreFamily(refs, f, layers).HelloScore = s[f]["hello"]
               /\ scoreFamily(refs, f, layers).H2Score = s[f]["h2"]
               /\ scoreFamily(refs, f, layers).Score = Mean(Total(s[f]), w)
    BY FamilyRated
  <2> HIDE DEF m, F, s, w
  <2> QED BY <1>1, <2>1
<1>3. AreScores(s) /\ w \in 0..105
  BY RatedFit, WeightsAre
<1>4. \A i \in 1..3 : Mean(Total(s[F(i)]), w) \in Int
  <2> HIDE DEF s, w
  <2> QED BY <1>1, <1>3, MeanIsNumber
<1>5. \A i \in 1..3 : m[i].Score \in Int
  BY <1>2, <1>4
<1>6. PICK p \in [1..3 -> 1..3] :
        /\ r = [i \in 1..3 |-> m[p[i]]]
        /\ \A i, j \in 1..3 : i < j => m[p[i]].Score >= m[p[j]].Score
        /\ \A k \in 1..3 : \E i \in 1..3 : p[i] = k
  BY <1>5, RankingSorts
<1>7. Clients = {F(1), F(2), F(3)}
  BY ClientsAre
<1> HIDE DEF m, s, w, r, F
<1>8. \A i \in 1..3 : p[i] \in 1..3 /\ r[i] = m[p[i]]
  BY <1>6
<1>9. DOMAIN r = 1..3
  BY <1>6
<1>10. \A i \in 1..3 : r[i].Family = F(p[i])
  BY <1>2, <1>8
<1>11. \A i \in 1..3 : /\ r[i].Family \in Clients
                       /\ r[i].HelloScore = s[r[i].Family]["hello"]
                       /\ r[i].H2Score = s[r[i].Family]["h2"]
  <2> SUFFICES ASSUME NEW i \in 1..3
               PROVE  /\ r[i].Family \in Clients
                      /\ r[i].HelloScore = s[r[i].Family]["hello"]
                      /\ r[i].H2Score = s[r[i].Family]["h2"]
    OBVIOUS
  <2>1. p[i] \in 1..3 /\ r[i] = m[p[i]] /\ r[i].Family = F(p[i])
    BY <1>8, <1>10
  <2>2. F(p[i]) \in Clients /\ m[p[i]].HelloScore = s[F(p[i])]["hello"] /\ m[p[i]].H2Score = s[F(p[i])]["h2"]
    BY <1>1, <1>2, <2>1
  <2> QED BY <2>1, <2>2
<1>12. \A f \in Clients : \E i \in 1..3 : r[i].Family = f
  <2>1. \A k \in 1..3 : \E i \in 1..3 : r[i].Family = F(k)
    BY <1>6, <1>10
  <2>2. \A f \in Clients : \E k \in 1..3 : f = F(k)
    BY <1>7
  <2> QED BY <2>1, <2>2
<1>13. \A i, j \in 1..3 : i < j => Mean(Total(s[r[i].Family]), w) >= Mean(Total(s[r[j].Family]), w)
  <2> SUFFICES ASSUME NEW i \in 1..3, NEW j \in 1..3, i < j
               PROVE  Mean(Total(s[r[i].Family]), w) >= Mean(Total(s[r[j].Family]), w)
    OBVIOUS
  <2>1. m[p[i]].Score >= m[p[j]].Score
    BY <1>6
  <2>2. m[p[i]].Score = Mean(Total(s[F(p[i])]), w) /\ m[p[j]].Score = Mean(Total(s[F(p[j])]), w)
    BY <1>2, <1>8
  <2> QED BY <1>10, <2>1, <2>2
<1> QED BY <1>9, <1>11, <1>12, <1>13 DEF RankedBy, r, s, w

\* The places of an engine's families in a ranking.
PlacesOf(r, own) == {i \in 1..3 : SameEngine(own, r[i].Family)}

\* Its scores are numbers.
LEMMA RankedIsRanking ==
  ASSUME NEW r, NEW s, NEW w, RankedBy(r, s, w), AreScores(s)
  PROVE  IsRanking(r)
<1>1. \A i \in 1..3 : s[r[i].Family]["hello"] \in Int /\ s[r[i].Family]["h2"] \in Int /\ s[r[i].Family]["h2"] <= Full
  BY ScoresAreNumbers DEF RankedBy
<1> QED BY <1>1 DEF IsRanking, RankedBy

\* The families of the hello's engine lead by hello.
LEMMA EngineLeads ==
  ASSUME NEW r, NEW s, NEW w, RankedBy(r, s, w), AreScores(s), NEW own \in Clients, HelloTells(own, s)
  PROVE  Leads(r, PlacesOf(r, own))
<1>1. PICK i \in 1..3 : r[i].Family = own
  BY DEF RankedBy
<1>2. i \in PlacesOf(r, own)
  BY <1>1, EnginesAre DEF PlacesOf
<1>3. ASSUME NEW j \in (1..3) \ PlacesOf(r, own)
      PROVE  r[i].HelloScore > r[j].HelloScore
  <2>1. ~SameEngine(own, r[j].Family) /\ r[j].Family \in Clients
    BY DEF PlacesOf, RankedBy
  <2>2. s[own]["hello"] - s[r[j].Family]["hello"] > 50000
    BY <2>1 DEF HelloTells
  <2>3. s[own]["hello"] \in Int /\ s[r[j].Family]["hello"] \in Int
    BY <2>1, ScoresAreNumbers
  <2>4. r[i].HelloScore = s[own]["hello"] /\ r[j].HelloScore = s[r[j].Family]["hello"]
    BY <1>1 DEF RankedBy
  <2> QED BY <2>2, <2>3, <2>4
<1> QED BY <1>2, <1>3 DEF Leads

\* The families of an engine are in the order of their hellos.
LEMMA EngineInHelloOrder ==
  ASSUME NEW r, NEW s, NEW w \in 1..105, RankedBy(r, s, w), NEW own,
         AreScores(s), HellosInPercent(s), EnginesAgree(s)
  PROVE  InHelloOrder(r, PlacesOf(r, own))
<1> SUFFICES ASSUME NEW i \in PlacesOf(r, own), NEW j \in PlacesOf(r, own), i < j, ~(r[j].HelloScore <= r[i].HelloScore)
             PROVE  FALSE
  BY DEF InHelloOrder
<1> DEFINE f == r[i].Family
           g == r[j].Family
<1>0. i \in 1..3 /\ j \in 1..3
  BY DEF PlacesOf
<1>1. f \in Clients /\ g \in Clients /\ SameEngine(f, g)
  BY <1>0, EnginesAre DEF PlacesOf, RankedBy
<1>2. r[i].HelloScore = s[f]["hello"] /\ r[j].HelloScore = s[g]["hello"]
  BY <1>0 DEF RankedBy
<1>3. Mean(Total(s[f]), w) >= Mean(Total(s[g]), w)
  BY <1>0 DEF RankedBy
<1> HIDE DEF f, g
<1>4. s[f]["hello"] \in Int /\ s[g]["hello"] \in Int
  BY <1>1, ScoresAreNumbers
<1>5. s[g]["hello"] > s[f]["hello"]
  BY <1>2, <1>4
<1>6. Total(s[g]) \div w > Total(s[f]) \div w
  BY <1>1, <1>5, HelloDecides
<1>7. Mean(Total(s[f]), w) = Total(s[f]) \div w /\ Mean(Total(s[g]), w) = Total(s[g]) \div w
  BY DEF Mean
<1>8. Mean(Total(s[f]), w) \in Int /\ Mean(Total(s[g]), w) \in Int
  BY <1>1, MeanIsNumber
<1> QED BY <1>3, <1>6, <1>7, <1>8

\* The flight fits the families of its owner's engine, all of them or none.
LEMMA EngineFlight ==
  ASSUME NEW r, NEW s, NEW w, RankedBy(r, s, w), AreScores(s), EnginesAgree(s), NEW own, FlightTells(own, s)
  PROVE  (\A i \in 1..3 : r[i].H2Score < Full) \/ FlightFits(r, PlacesOf(r, own))
<1>0. \A i \in 1..3 : r[i].H2Score = s[r[i].Family]["h2"] /\ r[i].Family \in Clients
  BY DEF RankedBy
<1>1. \A i \in 1..3 : r[i].H2Score \in Int /\ r[i].H2Score <= Full
  BY <1>0, ScoresAreNumbers
<1>2. CASE \E i \in 1..3 : r[i].H2Score = Full
  <2>1. PICK i \in 1..3 : r[i].H2Score = Full
    BY <1>2
  <2>2. SameEngine(own, r[i].Family)
    BY <1>0, <2>1 DEF FlightTells
  <2>3. ASSUME NEW j \in 1..3
        PROVE  r[j].H2Score = Full <=> SameEngine(own, r[j].Family)
    <3>1. r[j].H2Score = Full => SameEngine(own, r[j].Family)
      BY <1>0 DEF FlightTells
    <3>2. ASSUME SameEngine(own, r[j].Family)
          PROVE  r[j].H2Score = Full
      <4>1. SameEngine(r[i].Family, r[j].Family)
        BY <2>2, <3>2, EnginesAre
      <4> QED BY <1>0, <2>1, <4>1 DEF EnginesAgree
    <3> QED BY <3>1, <3>2
  <2> QED BY <2>3 DEF FlightFits, PlacesOf
<1>3. CASE \A i \in 1..3 : r[i].H2Score # Full
  <2>1. Full \in Int
    BY DEF Full
  <2> QED BY <1>1, <1>3, <2>1
<1> QED BY <1>2, <1>3

\* No conflict when the hello and the flight are one engine's.
LEMMA NoConflictOfOneEngine ==
  ASSUME NEW refs, NEW layers, NEW own, AreReferences(refs), FitOwners(own, layers),
         layers["hello"].ok /\ layers["h2"].ok => SameEngine(own["hello"], own["h2"])
  PROVE  ~fingerprintConflicts(layers, Ranking(refs, layers))
<1> DEFINE r == Ranking(refs, layers)
           s == Rated(refs, layers)
           w == AllWeights(layers)
<1>1. RankedBy(r, s, w) /\ AreScores(s) /\ HellosInPercent(s) /\ EnginesAgree(s) /\ NoneIfMissing(layers, s)
  BY RankingIs, RatedFit
<1>2. layers["hello"].ok => own["hello"] \in Clients /\ HelloTells(own["hello"], s) /\ w \in 1..105
  <2>1. w \in 0..105 /\ (layers["hello"].ok => w > 0)
    BY WeightsAre
  <2>2. layers["hello"].ok => own["hello"] \in Clients /\ HelloTells(own["hello"], s)
    BY RatedFit
  <2> HIDE DEF w, s
  <2> QED BY <2>1, <2>2
<1>3. layers["h2"].ok => own["h2"] \in Clients /\ FlightTells(own["h2"], s)
  BY RatedFit
<1> HIDE DEF r, s, w
<1>4. IsRanking(r) /\ DOMAIN r = 1..3
  BY <1>1, RankedIsRanking DEF RankedBy
<1>5. CASE ~layers["hello"].ok
  <2>1. "hello" \in Layers
    BY DEF Layers
  <2>2. \A f \in Clients : s[f]["hello"] = 0
    BY <1>1, <1>5, <2>1 DEF NoneIfMissing
  <2>3. \A i \in 1..3 : r[i].HelloScore = 0
    BY <1>1, <2>2 DEF RankedBy
  <2> QED BY <1>4, <2>3, NoHelloNoConflict DEF r
<1>6. CASE ~layers["h2"].ok
  <2>1. ~fingerprintConflicts(layers, r)
    BY <1>4, <1>6, ConflictIs
  <2> QED BY <2>1 DEF r
<1>7. CASE layers["hello"].ok /\ layers["h2"].ok
  <2> DEFINE places == PlacesOf(r, own["hello"])
  <2>1. SameEngine(own["hello"], own["h2"])
    BY <1>7
  <2>2. places = PlacesOf(r, own["h2"])
    BY <2>1, EnginesAre DEF PlacesOf
  <2>3. Leads(r, places)
    BY <1>1, <1>2, <1>7, EngineLeads
  <2>4. InHelloOrder(r, places)
    BY <1>1, <1>2, <1>7, EngineInHelloOrder
  <2>5. (\A i \in 1..3 : r[i].H2Score < Full) \/ FlightFits(r, places)
    BY <1>1, <1>3, <1>7, <2>2, EngineFlight
  <2>6. places \subseteq 1..3 /\ places # {}
    BY <2>3 DEF PlacesOf, Leads
  <2> HIDE DEF places
  <2>7. ~fingerprintConflicts(layers, r)
    BY <1>4, <2>3, <2>4, <2>5, <2>6, NoConflictWithoutFlight, NoConflictInEngine
  <2> QED BY <2>7 DEF r
<1> QED BY <1>5, <1>6, <1>7

\* A conflict when the first of the ranking is not of the hello's engine: its
\* flight alone can have put it there.
LEMMA ConflictOfTwoEngines ==
  ASSUME NEW refs, NEW layers, NEW own, AreReferences(refs), FitOwners(own, layers), layers["hello"].ok,
         ~SameEngine(own["hello"], Ranking(refs, layers)[1].Family)
  PROVE  fingerprintConflicts(layers, Ranking(refs, layers))
<1> DEFINE r == Ranking(refs, layers)
           s == Rated(refs, layers)
           w == AllWeights(layers)
           o == own["hello"]
           b == r[1].Family
<1>1. RankedBy(r, s, w) /\ AreScores(s) /\ EnginesAgree(s) /\ NoneIfMissing(layers, s) /\ RestIsClose(s)
  BY RankingIs, RatedFit
<1>2. w \in 1..105
  <2>1. w \in 0..105 /\ w > 0
    BY WeightsAre
  <2> HIDE DEF w
  <2> QED BY <2>1
<1>3. o \in Clients /\ HelloTells(o, s)
  BY RatedFit
<1>4. layers["h2"].ok => own["h2"] \in Clients /\ FlightTells(own["h2"], s)
  BY RatedFit
<1>5. ~SameEngine(o, b)
  OBVIOUS
<1> HIDE DEF r, s, w, o, b
<1>6. IsRanking(r) /\ DOMAIN r = 1..3
  BY <1>1, RankedIsRanking DEF RankedBy
<1>7. b \in Clients
  BY <1>1 DEF RankedBy, b
<1>8. s[o]["hello"] - s[b]["hello"] > 50000
  BY <1>3, <1>5, <1>7 DEF HelloTells
<1>9. Mean(Total(s[b]), w) >= Mean(Total(s[o]), w)
  <2>1. PICK i \in 1..3 : r[i].Family = o
    BY <1>1, <1>3 DEF RankedBy
  <2>2. i # 1
    BY <1>5, <2>1, EnginesAre DEF b
  <2>3. 1 < i
    BY <2>2
  <2> QED BY <1>1, <2>1, <2>3 DEF RankedBy, b
<1>10. s[o]["h2"] < s[b]["h2"]
  <2> SUFFICES ASSUME ~(s[o]["h2"] < s[b]["h2"])
               PROVE  FALSE
    OBVIOUS
  <2>1. s[o]["h2"] >= s[b]["h2"]
    BY <1>1, <1>3, <1>7, ScoresAreNumbers
  <2>2. Total(s[o]) \div w > Total(s[b]) \div w
    BY <1>1, <1>2, <1>3, <1>7, <1>8, <2>1, FlightDecides
  <2>3. Mean(Total(s[o]), w) = Total(s[o]) \div w /\ Mean(Total(s[b]), w) = Total(s[b]) \div w
    BY <1>2 DEF Mean
  <2>4. Mean(Total(s[o]), w) \in Int /\ Mean(Total(s[b]), w) \in Int
    <3>1. w \in 0..105
      BY <1>2
    <3> QED BY <1>1, <1>3, <1>7, <3>1, MeanIsNumber
  <2> QED BY <1>9, <2>2, <2>3, <2>4
<1>11. layers["h2"].ok
  <2>1. "h2" \in Layers
    BY DEF Layers
  <2>2. ~layers["h2"].ok => s[o]["h2"] = 0 /\ s[b]["h2"] = 0
    BY <1>1, <1>3, <1>7, <2>1 DEF NoneIfMissing
  <2> QED BY <1>10, <2>2
<1> DEFINE q == own["h2"]
<1>12. q \in Clients /\ FlightTells(q, s)
  BY <1>4, <1>11
<1> HIDE DEF q
<1>13. ~SameEngine(q, o)
  <2> SUFFICES ASSUME SameEngine(q, o)
               PROVE  FALSE
    OBVIOUS
  <2>1. ~SameEngine(q, b)
    BY <1>5, EnginesAre
  <2>2. s[o]["h2"] \in {s[b]["h2"], Full}
    BY <1>3, <1>7, <1>12, <2>1 DEF FlightTells
  <2>3. s[b]["h2"] <= Full /\ s[b]["h2"] \in Int /\ s[o]["h2"] \in Int
    BY <1>1, <1>3, <1>7, ScoresAreNumbers
  <2>4. Full \in Int
    BY DEF Full
  <2> QED BY <1>10, <2>2, <2>3, <2>4
<1>14. SameEngine(q, b)
  BY <1>5, <1>13, EnginesAre
<1>15. s[b]["h2"] = Full
  <2>1. s[b]["h2"] \in {s[o]["h2"], Full}
    BY <1>3, <1>7, <1>12, <1>13, <1>14 DEF FlightTells
  <2>2. s[b]["h2"] \in Int /\ s[o]["h2"] \in Int
    BY <1>1, <1>3, <1>7, ScoresAreNumbers
  <2> QED BY <1>10, <2>1, <2>2
<1> DEFINE places == PlacesOf(r, o)
<1>16. PlacesOf(r, q) = (1..3) \ places
  BY <1>13, EnginesAre DEF PlacesOf
<1>17. FlightFits(r, PlacesOf(r, q))
  <2>1. r[1].H2Score = Full
    BY <1>1, <1>15 DEF RankedBy, b
  <2>2. ~(\A i \in 1..3 : r[i].H2Score < Full)
    <3>1. ~(Full < Full)
      BY DEF Full
    <3> QED BY <2>1, <3>1
  <2> QED BY <1>1, <1>12, <2>2, EngineFlight
<1>18. Leads(r, places)
  BY <1>1, <1>3, EngineLeads
<1>19. IsSure(r, places)
  <2>1. PICK i \in 1..3 : r[i].Family = o
    BY <1>1, <1>3 DEF RankedBy
  <2>2. i \in places
    BY <2>1, EnginesAre DEF PlacesOf
  <2>3. s[o]["hello"] \in Int /\ s[b]["hello"] \in Int /\ s[b]["hello"] >= 0
    BY <1>1, <1>3, <1>7, ScoresAreNumbers
  <2>4. r[i].HelloScore = s[o]["hello"]
    BY <1>1, <2>1 DEF RankedBy
  <2>5. Full \div 2 = 50000
    BY DEF Full
  <2>6. r[i].HelloScore > Full \div 2
    BY <1>8, <2>3, <2>4, <2>5
  <2> QED BY <2>2, <2>6 DEF IsSure
<1>20. places \subseteq 1..3 /\ places # 1..3
  <2>1. 1 \notin places
    BY <1>5 DEF PlacesOf, b
  <2> QED BY <2>1 DEF PlacesOf
<1>21. AreApart(r, places)
  <2>1. \A j \in 1..3 : r[j].Family # ""
    BY <1>1, ClientsAre DEF RankedBy
  <2>2. ASSUME NEW j \in places, NEW l \in (1..3) \ places
        PROVE  r[j].Family # r[l].Family
    BY DEF PlacesOf
  <2> QED BY <2>1, <2>2 DEF AreApart
<1> HIDE DEF places
<1>22. fingerprintConflicts(layers, r)
  BY <1>6, <1>11, <1>16, <1>17, <1>18, <1>19, <1>20, <1>21, ConflictFound
<1> QED BY <1>22 DEF r

-----------------------------------------------------------------------------
(* Verdicts                                                                *)

\* The references are what is parsed of the fixtures.
LEMMA CorpusReferences ==
  ASSUME NEW corpus, NEW f \in Clients, NEW l \in Layers
  PROVE  References(corpus)[f][l] = Parsed(l, corpus[FixturesOf(f)[l]].content)
<1>1. References(corpus)[f] = LayersOf([k \in Layers |-> corpus[FixturesOf(f)[k]].content])
  BY DEF References, Clients
<1> QED BY <1>1, LayersAre

\* Those of the shipped corpus are references,
LEMMA ShippedReferences == AreReferences(CorpusLayers)
BY DEF AreReferences, ReferencesOf

\* What is ingested replaces the hello of its family and nothing else.
IngestedOK == \A n \in DOMAIN ingested : ingested[n] \in Hellos /\ n \in DOMAIN Catalog /\ Catalog[n].kind = "clienthello"

\* and those of the corpus on disk while no family's hello is another's.
LEMMA IngestedReferences ==
  ASSUME IngestedOK, ~Misnamed
  PROVE  AreReferences(References(OnDisk))
<1> SUFFICES ASSUME NEW f \in Clients, NEW l \in Layers
             PROVE  References(OnDisk)[f][l] \in ReferencesOf(f, l)
  BY DEF AreReferences
<1> DEFINE name == FixturesOf(f)[l]
<1>0. name \in DOMAIN Catalog /\ (l # "hello" => Catalog[name].kind # "clienthello")
             /\ "content" \in DOMAIN Catalog[name]
  BY CorpusAssumption
<1>1. References(OnDisk)[f][l] = Parsed(l, OnDisk[name].content)
  BY CorpusReferences
<1>2. CorpusLayers[f][l] = Parsed(l, Catalog[name].content)
  BY CorpusReferences, CommandLineAssumption
<1>3. CASE name \notin DOMAIN ingested
  <2>1. OnDisk[name] = Catalog[name]
    BY <1>0, <1>3 DEF OnDisk
  <2> QED BY <1>1, <1>2, <2>1 DEF ReferencesOf
<1>4. CASE name \in DOMAIN ingested
  <2>1. ingested[name] \in Hellos /\ l = "hello"
    BY <1>0, <1>4 DEF IngestedOK
  <2>2. ingested[name].owner = f
    <3>1. name = FixturesOf(f).hello
      BY <2>1
    <3> QED BY <1>4, <3>1 DEF Misnamed, Clients
  <2>3. OnDisk[name] = [Catalog[name] EXCEPT !.content = ingested[name].content]
    BY <1>0, <1>4 DEF OnDisk
  <2>4. OnDisk[name].content = ingested[name].content
    BY <1>0, <2>3
  <2> QED BY <1>1, <2>1, <2>2, <2>4 DEF ReferencesOf
<1> QED BY <1>3, <1>4

\* The files of the session are whole ones of a client, or none.
FileOK(f, k) ==
  f.whole => /\ f.owner \in Clients
             /\ Serve!Content(f) \in FilesOf(f.owner, Serve!WriterOf(k)) /\ Serve!Content(f) # Missing
FilesOK(dir) == \A k \in Serve!Kinds : FileOK(dir[k], k)
ReportOK ==
  /\ command = "done" => report # Nothing /\ ~report.err
  /\ report # Nothing =>
       /\ \A l \in Layers : FileOK(loaded[l], l)
       /\ report = FingerprintCapture(CorpusLayers, [l \in Layers |-> Serve!Content(loaded[l])])
       /\ ~report.err => command = "done"
FilesInv == FilesOK(newest) /\ ReportOK

\* A file that is not there is none of anybody.
LEMMA NoFileOK == \A k : FileOK(Serve!NoFile, k) /\ ~Serve!NoFile.whole
BY DEF FileOK, Serve!NoFile, Serve!File

\* A file that is touched takes the place of its kind's newest one.
LEMMA TouchKeepsFiles ==
  ASSUME FilesOK(newest), newest = [k \in Serve!Kinds |-> newest[k]],
         NEW file, FileOK(file, file.kind), Serve!Touch(file)
  PROVE  FilesOK(newest')
<1>1. CASE newest' = newest
  BY <1>1
<1>2. CASE newest' = [newest EXCEPT ![file.kind] = file]
  <2>1. ASSUME NEW k \in Serve!Kinds
        PROVE  newest'[k] = IF k = file.kind THEN file ELSE newest[k]
    BY <1>2
  <2> QED BY <2>1 DEF FilesOK
<1> QED BY <1>1, <1>2 DEF Serve!Touch

\* What an earlier run left of a client is that client's,
LEMMA RemainingOK ==
  ASSUME NEW f \in DOMAIN Leftovers
  PROVE  FilesOK(Serve!Remaining(f))
<1> SUFFICES ASSUME NEW k \in Serve!Kinds
             PROVE  FileOK(Serve!Remaining(f)[k], k)
  BY DEF FilesOK
<1>1. Serve!Remaining(f)[k] = IF Leftovers[f][k] = Missing THEN Serve!NoFile ELSE Serve!File(k, f, 0, TRUE)
  BY DEF Serve!Remaining
<1>2. CASE Leftovers[f][k] # Missing
  <2> DEFINE file == Serve!File(k, f, 0, TRUE)
  <2>1. file.whole = TRUE /\ file.n = 0 /\ file.owner = f /\ file.kind = k
    BY DEF Serve!File
  <2> HIDE DEF file
  <2>2. Serve!Content(file) = Leftovers[f][k]
    BY <2>1 DEF Serve!Content
  <2>3. f \in Clients
    BY CorpusAssumption
  <2>4. Leftovers[f][k] \in FilesOf(f, Serve!WriterOf(k))
    BY DEF FilesOf
  <2>5. FileOK(file, k)
    BY <1>2, <2>1, <2>2, <2>3, <2>4 DEF FileOK
  <2> QED BY <1>1, <1>2, <2>5 DEF file
<1> QED BY <1>1, <1>2, NoFileOK

\* and so is what a visitor's server writes, whole or not.
LEMMA FilledOK ==
  ASSUME NEW f \in Visitors, NEW w \in Serve!Writers, NEW n \in DOMAIN Traffic[f][w]
  PROVE  /\ Traffic[f][w][n].kind \in Serve!Kinds
         /\ FileOK(Serve!File(Traffic[f][w][n].kind, f, n, TRUE), Traffic[f][w][n].kind)
         /\ FileOK(Serve!File(Traffic[f][w][n].kind, f, n, FALSE), Traffic[f][w][n].kind)
<1> DEFINE e == Traffic[f][w][n]
           file == Serve!File(e.kind, f, n, TRUE)
<1>1. e \in Range(Traffic[f][w])
  BY DEF Range
<1>2. e.kind \in Serve!Kinds /\ Serve!WriterOf(e.kind) = w /\ e.content # Missing
  BY <1>1, TrafficAssumption
<1>3. e.content \in FilesOf(f, w)
  BY <1>1 DEF FilesOf
<1>4. n # 0
  BY TrafficType
<1> HIDE DEF e
<1>5. file.whole = TRUE /\ file.n = n /\ file.owner = f /\ file.kind = e.kind
  BY DEF Serve!File
<1>6. FileOK(Serve!File(e.kind, f, n, FALSE), e.kind)
  BY DEF FileOK, Serve!File
<1> HIDE DEF file
<1>7. Serve!Content(file) = e.content
  BY <1>2, <1>4, <1>5 DEF Serve!Content, e
<1>8. FileOK(file, e.kind)
  BY <1>2, <1>3, <1>5, <1>7, CorpusAssumption DEF FileOK
<1> QED BY <1>2, <1>6, <1>8 DEF e, file

\* What LoadCaptureDir takes for a layer is a file of its writer.
LEMMA TakenOK ==
  ASSUME NEW dir, FilesOK(dir), NEW l \in Layers
  PROVE  FileOK(Serve!Taken(dir)[l], l)
<1>1. \A k \in {"hello", "h2", "h3", "flight", "quic"} : FileOK(dir[k], k)
  BY DEF FilesOK, Serve!Kinds
<1>2. FileOK(dir["flight"], "quic")
  <2>1. Serve!WriterOf("flight") = Serve!WriterOf("quic")
    BY DEF Serve!WriterOf
  <2>2. FileOK(dir["flight"], "flight")
    BY <1>1
  <2> QED BY <2>1, <2>2 DEF FileOK
<1>3. FileOK(Serve!QuicFile(dir), "quic")
  <2>1. Serve!QuicFile(dir) = dir["flight"] \/ Serve!QuicFile(dir) = dir["quic"]
    BY DEF Serve!QuicFile
  <2> QED BY <1>1, <1>2, <2>1
<1>4. l \in {"hello", "h2", "h3", "quic"}
  BY DEF Layers
<1> QED BY <1>1, <1>3, <1>4 DEF Serve!Taken

\* Every step of a session keeps this,
LEMMA FilesStep ==
  ASSUME SessionOK, FilesInv, Serve!Next
  PROVE  FilesInv'
<1>1. CASE Serve!Start
  <2>1. newest' \in {Serve!EmptyDir} \cup {Serve!Remaining(f) : f \in DOMAIN Leftovers}
    BY <1>1 DEF Serve!Start
  <2>2. FilesOK(Serve!EmptyDir)
    BY NoFileOK DEF FilesOK, Serve!EmptyDir
  <2>3. FilesOK(newest')
    BY <2>1, <2>2, RemainingOK
  <2>4. command = "off" /\ command' = "wait" /\ UNCHANGED <<loaded, report>>
    BY <1>1 DEF Serve!Start
  <2>5. ReportOK'
    BY <2>4 DEF FilesInv, ReportOK
  <2> QED BY <2>3, <2>5 DEF FilesInv
<1>2. CASE Serve!Wait
  <2>1. command = "wait" /\ command' \in {"sleep", "failed"} /\ UNCHANGED <<newest, loaded, report>>
    BY <1>2 DEF Serve!Wait
  <2>2. ReportOK'
    BY <2>1 DEF FilesInv, ReportOK
  <2> QED BY <2>1, <2>2 DEF FilesInv
<1>3. CASE Serve!Load
  <2> DEFINE taken == Serve!Taken(newest)
             rep   == FingerprintCapture(CorpusLayers, [l \in Layers |-> Serve!Content(taken[l])])
  <2>1. DOMAIN taken = Layers
    BY DEF Serve!Taken, Layers
  <2>2. /\ loaded' = taken /\ report' = rep /\ newest' = newest
        /\ command' = IF rep.err THEN "failed" ELSE "done"
    BY <1>3, <2>1 DEF Serve!Load
  <2>3. \A l \in Layers : FileOK(taken[l], l)
    BY TakenOK DEF FilesInv
  <2>4. rep # Nothing
    BY CaptureIsThere
  <2>5. rep = FingerprintCapture(CorpusLayers, [l \in Layers |-> Serve!Content(taken[l])])
    OBVIOUS
  <2> HIDE DEF taken, rep
  <2>6. ReportOK'
    BY <2>2, <2>3, <2>4, <2>5 DEF ReportOK
  <2> QED BY <2>2, <2>6 DEF FilesInv
<1>4. CASE Serve!Running /\ Serve!StoreHello
  <2>1. UNCHANGED <<newest, command, loaded, report>>
    BY <1>4 DEF Serve!StoreHello
  <2>2. ReportOK'
    BY <2>1 DEF FilesInv, ReportOK
  <2> QED BY <2>1, <2>2 DEF FilesInv
<1>5. ASSUME NEW w \in Serve!Writers, Serve!Running, Serve!Create(w) \/ Serve!Fill(w)
      PROVE  FilesInv'
  <2> DEFINE e == Traffic[family][w][next[w]]
  <2>1. family \in Visitors
    BY <1>5 DEF SessionOK, Serve!Running, Serve!SessionInv
  <2>2. next[w] \in DOMAIN Traffic[family][w]
    BY <1>5 DEF SessionOK, Serve!Running, Serve!SessionInv, Serve!Create, Serve!Due, Serve!Fill
  <2>3. newest = [k \in Serve!Kinds |-> newest[k]]
    BY DEF SessionOK, Serve!SessionInv
  <2>4. \E whole \in BOOLEAN : Serve!Touch(Serve!File(e.kind, family, next[w], whole))
    BY <1>5 DEF Serve!Create, Serve!Fill
  <2>5. UNCHANGED <<command, loaded, report>>
    BY <1>5 DEF Serve!Create, Serve!Fill
  <2>6. PICK whole \in BOOLEAN : Serve!Touch(Serve!File(e.kind, family, next[w], whole))
    BY <2>4
  <2> DEFINE file == Serve!File(e.kind, family, next[w], whole)
  <2>7. FileOK(file, e.kind)
    BY <2>1, <2>2, FilledOK
  <2>8. file.kind = e.kind
    BY DEF Serve!File
  <2>9. Serve!Touch(file)
    BY <2>6
  <2> HIDE DEF file, e
  <2>10. FilesOK(newest')
    BY <2>3, <2>7, <2>8, <2>9, TouchKeepsFiles DEF FilesInv
  <2>11. ReportOK'
    BY <2>5 DEF FilesInv, ReportOK
  <2> QED BY <2>10, <2>11 DEF FilesInv
<1> QED BY <1>1, <1>2, <1>3, <1>4, <1>5 DEF Serve!Next

\* and so does its end.
LEMMA FilesEnd ==
  ASSUME ServeReturns
  PROVE  FilesInv'
<1>1. newest' = Serve!EmptyDir /\ report' = Nothing /\ command' = "off"
  BY DEF ServeReturns
<1>2. FilesOK(newest')
  BY <1>1, NoFileOK DEF FilesOK, Serve!EmptyDir
<1> QED BY <1>1, <1>2 DEF FilesInv, ReportOK

\* The owners of the files that a session took fit its layers.
LEMMA LoadedFits ==
  ASSUME \A l \in Layers : FileOK(loaded[l], l)
  PROVE  /\ FitOwners([l \in Layers |-> loaded[l].owner], LayersOf([l \in Layers |-> Serve!Content(loaded[l])]))
         /\ \A l \in Layers :
              LayersOf([k \in Layers |-> Serve!Content(loaded[k])])[l].ok => loaded[l].whole
<1> DEFINE b == [l \in Layers |-> Serve!Content(loaded[l])]
           layers == LayersOf(b)
           own == [l \in Layers |-> loaded[l].owner]
<1>1. \A l \in Layers : b[l] = Serve!Content(loaded[l]) /\ own[l] = loaded[l].owner
  OBVIOUS
<1>2. \A l \in Layers : layers[l] = Parsed(l, b[l])
  BY LayersAre
<1> HIDE DEF b, layers, own
<1>3. ASSUME NEW l \in Layers, layers[l].ok
      PROVE  loaded[l].whole
  <2> SUFFICES ASSUME ~loaded[l].whole
               PROVE  FALSE
    OBVIOUS
  <2>1. Serve!Content(loaded[l]) = Missing
    BY DEF Serve!Content
  <2>2. layers[l] = Nothing
    BY <1>1, <1>2, <2>1, MissingIsNothing
  <2> QED BY <1>3, <2>2, MissingIsNothing
<1>4. ASSUME NEW l \in Layers, layers[l].ok
      PROVE  own[l] \in Clients /\ FitsItsEngine(own[l], l, layers[l])
  <2>1. Serve!WriterOf(l) = l
    BY DEF Serve!WriterOf, Layers
  <2>2. /\ loaded[l].owner \in Clients
        /\ Serve!Content(loaded[l]) \in FilesOf(loaded[l].owner, l)
    BY <1>3, <1>4, <2>1 DEF FileOK
  <2>3. Parsed(l, Serve!Content(loaded[l])).ok
    BY <1>1, <1>2, <1>4
  <2>4. FitsItsEngine(loaded[l].owner, l, Parsed(l, Serve!Content(loaded[l])))
    BY <2>2, <2>3, CorpusAssumption
  <2> QED BY <1>1, <1>2, <2>2, <2>4
<1> QED BY <1>3, <1>4 DEF FitOwners, b, layers, own

\* So a session's verdict is right.
LEMMA SessionJudges ==
  ASSUME FilesInv
  PROVE  Serve!NoFalseConflict /\ Serve!MixUpIsReported
<1> DEFINE b == [l \in Layers |-> Serve!Content(loaded[l])]
           layers == LayersOf(b)
           own == [l \in Layers |-> loaded[l].owner]
<1>0. "hello" \in Layers /\ "h2" \in Layers
  BY DEF Layers
<1>1. ASSUME report # Nothing, ~report.err
      PROVE  /\ command = "done"
             /\ FitOwners(own, layers) /\ (\A l \in Layers : layers[l].ok => loaded[l].whole)
             /\ \A l \in Layers : FileOK(loaded[l], l)
             /\ b.hello # Missing => layers["hello"].ok
             /\ report.Best = Ranking(CorpusLayers, layers)[1].Family
             /\ report.Conflict = fingerprintConflicts(layers, Ranking(CorpusLayers, layers))
  <2>1. (\A l \in Layers : FileOK(loaded[l], l)) /\ report = FingerprintCapture(CorpusLayers, b) /\ command = "done"
    BY <1>1 DEF FilesInv, ReportOK
  <2>2. FitOwners(own, layers) /\ (\A l \in Layers : layers[l].ok => loaded[l].whole)
    BY <2>1, LoadedFits
  <2> HIDE DEF b
  <2> QED BY <1>1, <2>1, <2>2, CaptureSays
<1>2. own["hello"] = loaded.hello.owner /\ own["h2"] = loaded.h2.owner /\ b.hello = Serve!Content(loaded.hello)
  BY <1>0
<1> HIDE DEF b, layers, own
<1>3. ASSUME report # Nothing, ~report.err, report.Conflict
      PROVE  Serve!WasRead("hello") /\ Serve!WasRead("h2") /\ Serve!Engine(loaded.hello.owner) # Serve!Engine(loaded.h2.owner)
  <2>1. layers["hello"].ok /\ layers["h2"].ok /\ ~SameEngine(own["hello"], own["h2"])
    BY <1>1, <1>3, ShippedReferences, NoConflictOfOneEngine
  <2> QED BY <1>0, <1>1, <1>2, <1>3, <2>1 DEF Serve!WasRead, SameEngine
<1>4. ASSUME Serve!WasRead("hello"), Serve!Engine(report.Best) # Serve!Engine(loaded.hello.owner)
      PROVE  report.Conflict
  <2>1. command = "done" /\ loaded["hello"].whole
    BY <1>4 DEF Serve!WasRead
  <2>2. report # Nothing /\ ~report.err
    BY <2>1 DEF FilesInv, ReportOK
  <2>3. b.hello # Missing
    BY <1>0, <1>1, <1>2, <2>1, <2>2 DEF FileOK
  <2>4. layers["hello"].ok /\ ~SameEngine(own["hello"], Ranking(CorpusLayers, layers)[1].Family)
    BY <1>1, <1>2, <1>4, <2>2, <2>3 DEF SameEngine
  <2> QED BY <1>1, <2>2, <2>4, ShippedReferences, ConflictOfTwoEngines
<1>5. Serve!NoFalseConflict
  BY <1>3 DEF Serve!NoFalseConflict
<1>6. Serve!MixUpIsReported
  BY <1>4 DEF Serve!MixUpIsReported
<1> QED BY <1>5, <1>6

\* What fingerprint says of the files it is given.
TwoEngines(of) == of.hello # "" /\ of.h2 # "" /\ Serve!Engine(of.hello) # Serve!Engine(of.h2)
FilesVerdict == Ok("fingerprint") /\ ran.res.out.report.Conflict => Misnamed \/ TwoEngines(ran.res.out.of)

\* Owners of layers, "" for a layer that is missing.
AreOwners(of) == \A l \in Layers : of[l] # "" => of[l] \in Clients

\* Fixtures that are given fit their owners' engines.
LEMMA BundleFits ==
  ASSUME NEW of, AreOwners(of)
  PROVE  /\ FitOwners(of, LayersOf(BundleOf(of)))
         /\ \A l \in Layers : LayersOf(BundleOf(of))[l].ok => of[l] # ""
<1> DEFINE layers == LayersOf(BundleOf(of))
<1>1. ASSUME NEW l \in Layers
      PROVE  layers[l] = Parsed(l, IF of[l] = "" THEN Missing ELSE Catalog[FixturesOf(of[l])[l]].content)
  <2>1. BundleOf(of)[l] = IF of[l] = "" THEN Missing ELSE Catalog[FixturesOf(of[l])[l]].content
    BY DEF BundleOf
  <2>2. layers[l] = Parsed(l, BundleOf(of)[l])
    BY LayersAre
  <2> QED BY <2>1, <2>2
<1> HIDE DEF layers
<1>2. ASSUME NEW l \in Layers, layers[l].ok
      PROVE  of[l] # ""
  <2> SUFFICES ASSUME of[l] = ""
               PROVE  FALSE
    OBVIOUS
  <2>1. layers[l] = Parsed(l, Missing)
    BY <1>1
  <2> QED BY <1>2, <2>1, MissingIsNothing
<1>3. ASSUME NEW l \in Layers, layers[l].ok
      PROVE  of[l] \in Clients /\ FitsItsEngine(of[l], l, layers[l])
  <2> DEFINE c == Catalog[FixturesOf(of[l])[l]].content
  <2>1. of[l] \in Clients /\ layers[l] = Parsed(l, c)
    BY <1>1, <1>2, <1>3 DEF AreOwners
  <2>2. c \in FilesOf(of[l], l)
    BY DEF FilesOf
  <2> HIDE DEF c
  <2> QED BY <1>3, <2>1, <2>2, CorpusAssumption
<1> QED BY <1>2, <1>3 DEF FitOwners, layers

\* What may be given are owners.
LEMMA OwnersAre ==
  ASSUME NEW hello \in Owners, NEW h2 \in Owners, NEW h3 \in {"", "firefox"}, NEW quic \in {"", "chrome"}
  PROVE  AreOwners([hello |-> hello, h2 |-> h2, h3 |-> h3, quic |-> quic])
<1> DEFINE of == [hello |-> hello, h2 |-> h2, h3 |-> h3, quic |-> quic]
<1>1. of["hello"] = hello /\ of["h2"] = h2 /\ of["h3"] = h3 /\ of["quic"] = quic
  OBVIOUS
<1> HIDE DEF of
<1>2. \A x \in {hello, h2, h3, quic} : x # "" => x \in Clients
  BY ClientsAre DEF Owners
<1>3. AreOwners(of)
  BY <1>1, <1>2 DEF AreOwners, Layers
<1> QED BY <1>3 DEF of

\* A refusal accuses nobody.
LEMMA RefusalSaysNothing ==
  ASSUME ran'.res = Refused
  PROVE  FilesVerdict'
<1>1. ran'.res.err
  BY DEF Refused
<1> QED BY <1>1 DEF FilesVerdict, Ok

\* fingerprint's own verdict is right.
LEMMA VerdictOfFiles ==
  ASSUME IngestedOK, FingerprintFiles, UNCHANGED ingested
  PROVE  FilesVerdict'
<1>1. PICK hello \in Owners, h2 \in Owners, h3 \in {"", "firefox"}, quic \in {"", "chrome"} :
        LET of == [hello |-> hello, h2 |-> h2, h3 |-> h3, quic |-> quic]
            rep == FingerprintCapture(References(OnDisk), BundleOf(of))
        IN Runs("fingerprint", IF rep.err THEN Refused ELSE Answer([of |-> of, report |-> rep]))
  BY DEF FingerprintFiles
<1> DEFINE of == [hello |-> hello, h2 |-> h2, h3 |-> h3, quic |-> quic]
           refs == References(OnDisk)
           rep == FingerprintCapture(refs, BundleOf(of))
           layers == LayersOf(BundleOf(of))
<1>2. ran'.cmd = "fingerprint" /\ ran'.res = IF rep.err THEN Refused ELSE Answer([of |-> of, report |-> rep])
  BY <1>1, RunsParts
<1>3. AreOwners(of)
  BY OwnersAre DEF of
<1>4. "hello" \in Layers /\ "h2" \in Layers
  BY DEF Layers
<1>5. Misnamed' <=> Misnamed
  BY DEF Misnamed
<1> HIDE DEF of, refs
<1>6. ~rep.err => rep.Conflict = fingerprintConflicts(layers, Ranking(refs, layers))
  BY CaptureSays
<1>7. FitOwners(of, layers) /\ \A l \in Layers : layers[l].ok => of[l] # ""
  BY <1>3, BundleFits
<1> HIDE DEF rep, layers
<1>8. ASSUME ~rep.err, rep.Conflict, ~Misnamed
      PROVE  TwoEngines(of)
  <2>1. AreReferences(refs)
    BY <1>8, IngestedReferences DEF refs
  <2>2. layers["hello"].ok /\ layers["h2"].ok /\ ~SameEngine(of["hello"], of["h2"])
    BY <1>6, <1>7, <1>8, <2>1, NoConflictOfOneEngine
  <2> QED BY <1>4, <1>7, <2>2 DEF TwoEngines, SameEngine
<1>9. CASE rep.err
  <2>1. ran'.res = Refused
    BY <1>2, <1>9
  <2> QED BY <2>1, RefusalSaysNothing
<1>10. CASE ~rep.err
  <2>1. ran'.res = Answer([of |-> of, report |-> rep])
    BY <1>2, <1>10
  <2>2. ran'.res.out.of = of /\ ran'.res.out.report = rep
    <3>1. Answer([of |-> of, report |-> rep]).out.of = of /\ Answer([of |-> of, report |-> rep]).out.report = rep
      BY AnswerHas
    <3> QED BY <2>1, <3>1
  <2>3. rep.Conflict /\ ~Misnamed => TwoEngines(of)
    BY <1>8, <1>10
  <2>4. rep.Conflict => Misnamed' \/ TwoEngines(of)
    BY <1>5, <2>3
  <2> QED BY <2>2, <2>4 DEF FilesVerdict
<1> QED BY <1>9, <1>10

\* Every command keeps what is ingested under the names of hellos,
LEMMA IngestedStep ==
  ASSUME IngestedOK, [Next]_vars
  PROVE  IngestedOK'
<1>1. CASE UNCHANGED ingested
  BY <1>1 DEF IngestedOK
<1>2. CASE IngestHello /\ ~UNCHANGED ingested
  <2>1. PICK raw \in Hellos, name \in {"chrome_131", "firefox_live", "h2_chrome"} :
          Ingests(Catalog, name) /\ ingested' = Put(ingested, name, raw)
    BY <1>2 DEF IngestHello, Runs
  <2>2. name \in DOMAIN Catalog /\ Catalog[name].kind = "clienthello"
    <3>1. name \in DOMAIN Catalog
      BY <2>1 DEF Ingests, OfKind, LookupFixture, Then, Refused
    <3>2. Catalog[name].kind \in {"clienthello"}
      BY <2>1, <3>1 DEF Ingests, OfKind, LookupFixture, Then, Refused, Answer
    <3> QED BY <3>1, <3>2
  <2>3. ASSUME NEW n \in DOMAIN ingested'
        PROVE  ingested'[n] \in Hellos /\ n \in DOMAIN Catalog /\ Catalog[n].kind = "clienthello"
    <3>1. ingested' = [k \in {name} \cup DOMAIN ingested |-> IF k = name THEN raw ELSE ingested[k]]
      BY <2>1 DEF Put
    <3>2. n \in {name} \cup DOMAIN ingested /\ ingested'[n] = IF n = name THEN raw ELSE ingested[n]
      BY <3>1
    <3>3. CASE n = name
      BY <2>2, <3>2, <3>3
    <3>4. CASE n # name
      BY <3>2, <3>4 DEF IngestedOK
    <3> QED BY <3>3, <3>4
  <2> QED BY <2>3 DEF IngestedOK
<1>3. UNCHANGED ingested \/ IngestHello
  <2>1. LabHeaders \/ OtherCommand \/ ScanProfile \/ CompareExports \/ LabPermute \/ FingerprintFiles => UNCHANGED ingested
    BY AnswersRun, HeadersPrint DEF OtherCommand, Runs
  <2>2. CaptureProfile \/ ServeStep \/ ServeReturns \/ Return \/ UNCHANGED vars => UNCHANGED ingested
    BY DEF CaptureProfile, ServeStep, ServeReturns, Return, vars, Runs
  <2> QED BY <2>1, <2>2, StepKinds
<1> QED BY <1>1, <1>2, <1>3

\* every command's verdict is right,
LEMMA VerdictStep ==
  ASSUME IngestedOK, FilesVerdict, [Next]_vars
  PROVE  FilesVerdict'
<1>1. CASE UNCHANGED <<ran, captured, ingested>>
  BY <1>1 DEF FilesVerdict, Ok, Misnamed
<1>2. CASE ran'.cmd # "fingerprint"
  BY <1>2 DEF FilesVerdict, Ok
<1>3. CASE FingerprintFiles
  <2>1. UNCHANGED ingested
    BY <1>3, AnswersRun, RunsParts
  <2> QED BY <1>3, <2>1, VerdictOfFiles
<1>4. ScanProfile \/ CompareExports \/ LabHeaders \/ LabPermute => ran'.cmd # "fingerprint"
  BY AnswersCommand
<1> QED BY <1>1, <1>2, <1>3, <1>4, StepRan

\* and every command keeps the files of the session.
LEMMA FilesKept ==
  ASSUME SessionOK, FilesInv, [Next]_vars
  PROVE  FilesInv'
<1>1. CASE UNCHANGED serveVars
  BY <1>1 DEF FilesInv, FilesOK, ReportOK, serveVars
<1>2. ServeStep => Serve!Next
  BY DEF ServeStep
<1>3. LabHeaders \/ OtherCommand \/ ScanProfile \/ CompareExports \/ LabPermute \/ FingerprintFiles => UNCHANGED serveVars
  BY AnswersRun, HeadersPrint DEF OtherCommand, Runs
<1>4. CaptureProfile \/ IngestHello \/ Return \/ UNCHANGED vars => UNCHANGED serveVars
  BY DEF CaptureProfile, IngestHello, Return, vars, Runs
<1> QED BY <1>1, <1>2, <1>3, <1>4, StepKinds, FilesStep, FilesEnd

\* The invariant of fingerprint.
JudgeInv == TypesInv /\ FilesInv /\ IngestedOK /\ FilesVerdict

\* It holds.
LEMMA JudgeInvHolds == Spec => []JudgeInv
<1>1. Init => FilesInv /\ IngestedOK /\ FilesVerdict
  <2> SUFFICES ASSUME Init PROVE FilesInv /\ IngestedOK /\ FilesVerdict
    OBVIOUS
  <2>1. newest = Serve!EmptyDir /\ report = Nothing /\ command = "off"
    BY DEF Init, Serve!Init, Serve!Off
  <2>2. FilesInv
    BY <2>1, NoFileOK DEF FilesInv, FilesOK, ReportOK, Serve!EmptyDir
  <2>3. DOMAIN ingested = {} /\ ran.cmd = "none"
    BY DEF Init, Prompt
  <2> QED BY <2>2, <2>3 DEF IngestedOK, FilesVerdict, Ok
<1>2. Init => TypesInv
  BY TypesInit
<1>3. JudgeInv /\ [Next]_vars => JudgeInv'
  BY TypesStep, FilesKept, IngestedStep, VerdictStep DEF JudgeInv, TypesInv
<1> QED BY <1>1, <1>2, <1>3, PTL DEF Spec, JudgeInv

\* Whatever corpus has captures that fit their engines, whoever visits
\* fingerprint --serve and whatever is left in its directory, and whatever files
\* are given to fingerprint: no client is accused of a conflict whose hello and
\* flight are one engine's, unless another's hello was ingested as its family's
\* (fingerprint.go: fingerprintConflicts).
THEOREM NoFalseConflictHolds == Spec => []NoFalseConflict
<1>1. JudgeInv => NoFalseConflict
  BY SessionJudges DEF JudgeInv, FilesVerdict, TwoEngines, NoFalseConflict
<1> QED BY <1>1, JudgeInvHolds, PTL

\* And in every such session a verdict that is not the engine of the hello that
\* was read is reported as a conflict: the hello weighs enough that only a flight
\* that fits another engine in full can outweigh it (fingerprint.go:
\* scoreFamily, LoadCaptureDir).
THEOREM MixUpIsReportedHolds == Spec => []MixUpIsReported
<1>1. JudgeInv => MixUpIsReported
  BY SessionJudges DEF JudgeInv, MixUpIsReported
<1> QED BY <1>1, JudgeInvHolds, PTL
=============================================================================
