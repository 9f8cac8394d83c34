-------------------------------- MODULE Scan --------------------------------
(***************************************************************************)
(* From a browser profile to a verdict: internal/profile, the snapshots    *)
(* that internal/client and internal/adapters make, internal/capture,      *)
(* internal/scan and internal/compare.                                     *)
(*                                                                         *)
(* Profiles and snapshots are in the terms of Coherence.  An id is a       *)
(* sequence of its parts, empty when there is none.  Headers are named in  *)
(* lower case; of one that no profile requires the value is AnyText.       *)
(***************************************************************************)
EXTENDS Coherence, TLC

CONSTANT PresetMap   \* of each adapter, the profile id for a key of an export

NoId    == <<>>
AnyText == "*"

-----------------------------------------------------------------------------
(* profile.go: a directory is the sequence of its YAML files by name, each *)
(* a profile or, when it does not parse, Unreadable.                       *)

Unreadable == [id |-> NoId, named |-> FALSE, ua |-> {}, pattern |-> {}, preset |-> NoPreset]

Validate(p) == p.id # NoId /\ p.named /\ (p.pattern # {} \/ p.ua # {}) /\ p.preset # NoPreset

\* User-Agent and pattern stand in for each other.
Completed(p) ==
  [p EXCEPT !.ua = IF p.ua = {} THEN p.pattern ELSE p.ua,
            !.pattern = IF p.pattern = {} THEN p.ua ELSE p.pattern]

\* LoadDir: one file that does not validate, and nothing is loaded.
LoadDir(dir) ==
  IF \E i \in DOMAIN dir : ~Validate(dir[i]) THEN [ok |-> FALSE]
  ELSE [ok |-> TRUE, profiles |-> [i \in DOMAIN dir |-> Completed(dir[i])]]

\* The first one of that id.
FindByID(dir, id) ==
  LET Among(profiles) ==
        LET of == {i \in DOMAIN profiles : profiles[i].id = id}
        IN IF of = {} THEN [ok |-> FALSE] ELSE [ok |-> TRUE, profile |-> profiles[Min(of)]]
      Of(all) == IF all.ok THEN Among(all.profiles) ELSE [ok |-> FALSE]
  IN Of(LoadDir(dir))

-----------------------------------------------------------------------------
(* client.go                                                               *)

\* The headers that ApplyProfileHeaders sets: none with an empty value.
Headers(p) ==
  {h \in {"user-agent", "sec-ch-ua", "sec-ch-ua-mobile", "sec-ch-ua-platform", "accept",
          "accept-language", "accept-encoding", "upgrade-insecure-requests"} :
     CASE h = "user-agent"         -> p.ua # {}
       [] h = "sec-ch-ua"          -> p.brands # {}
       [] h = "sec-ch-ua-mobile"   -> p.mobile # ""
       [] h = "sec-ch-ua-platform" -> p.hint # ""
       [] h = "accept"             -> p.accept # ""
       [] h = "accept-language"    -> p.language # ""
       [] h = "accept-encoding"    -> p.encoding # ""
       [] h = "upgrade-insecure-requests" -> p.upgrade}

ApplyProfileHeaders(p) ==
  [h \in Headers(p) \cup {r \in DOMAIN p.required : p.required[r] # ""} |->
     IF h \in DOMAIN p.required THEN p.required[h] ELSE AnyText]

\* The profile's order, or that of the calls, which no rule then reads.
HeaderOrder(p) ==
  IF p.order # <<>> THEN p.order ELSE SetToSeq(DOMAIN ApplyProfileHeaders(p))

h2SettingsFromProfile(p) == [there |-> TRUE, wire |-> FALSE, present |-> {}, settings |-> p.settings]

\* The profile's own expectations; a snapshot has no match mode.
jsFromProfile(p) ==
  [navigator |-> p.navigator, webgl |-> [p.webgl EXCEPT !.exact = FALSE]]

\* signal.FromRequest, and what is set on it after.
FromRequest(p, tls, h2) ==
  [ua |-> p.ua, brands |-> p.brands, hint |-> p.hint, mobile |-> p.mobile,
   headers |-> ApplyProfileHeaders(p), order |-> HeaderOrder(p),
   accept |-> p.accept, encoding |-> p.encoding, language |-> p.language,
   tls |-> tls, h2 |-> h2,
   navigator |-> jsFromProfile(p).navigator, webgl |-> jsFromProfile(p).webgl]

LocalSnapshot(p) ==
  FromRequest(p,
    [there |-> TRUE, version |-> IF p.maxVersion = 0 THEN 13 ELSE p.maxVersion,
     alpn |-> IF p.alpn = <<>> THEN "" ELSE Head(p.alpn), preset |-> p.preset, ja3 |-> ""],
    h2SettingsFromProfile(p))

\* applyProfileHTTP2, and what x/net/http2 then sends: never a limit of
\* streams, a table size only if it is not the default, always a list size.
WireSettings(p) ==
  LET default == IF p.settings.HEADER_TABLE_SIZE = 4096 THEN {"HEADER_TABLE_SIZE"} ELSE {}
      present == SettingNames \ ({"MAX_CONCURRENT_STREAMS"} \cup default)
      value(n) == CASE n = "ENABLE_PUSH" -> 0
                    [] n = "MAX_HEADER_LIST_SIZE" /\ p.settings[n] = 0 -> 10485760
                    [] OTHER -> p.settings[n]
  IN [there |-> TRUE, wire |-> TRUE, present |-> present,
      settings |-> [n \in SettingNames |-> IF n \in present THEN value(n) ELSE 0]]

\* The transport may dial more than once: the TLS that is kept is the last
\* dial's, the settings are those of the first that spoke HTTP/2.
Probe(p, dials) ==
  FromRequest(p,
    [there |-> TRUE, version |-> Last(dials).version, alpn |-> Last(dials).alpn,
     preset |-> p.preset, ja3 |-> "of the wire"],
    IF \E i \in DOMAIN dials : dials[i].alpn = "h2" THEN WireSettings(p) ELSE NoH2)

-----------------------------------------------------------------------------
(* scan.go                                                                 *)

Mutations == {"wrong-platform", "wrong-browser", "automation-leak", "tls-mismatch",
              "js-webdriver", "js-wrong-platform"}

FirefoxOnWindows == {<<"windows nt", 0>>, <<"firefox", 133>>}

WithHeader(s, name) ==
  [s EXCEPT !.headers = [h \in {name} \cup DOMAIN @ |-> IF h = name THEN AnyText ELSE @[h]]]

\* Another word changes nothing.
applyMutation(s, mutation) ==
  CASE mutation = "wrong-platform" -> [WithHeader(s, "sec-ch-ua-platform") EXCEPT !.hint = "linux"]
    [] mutation = "wrong-browser"  -> [WithHeader(s, "user-agent") EXCEPT !.ua = FirefoxOnWindows]
    [] mutation = "automation-leak" ->
         [WithHeader(s, "x-coherencelab-test") EXCEPT !.order = Append(@, "x-coherencelab-test")]
    [] mutation = "tls-mismatch" -> [s EXCEPT !.tls.preset = <<"firefox", 120>>]
    [] mutation = "js-webdriver" -> [s EXCEPT !.navigator.there = TRUE, !.navigator.webdriver = "true"]
    [] mutation = "js-wrong-platform" ->
         [s EXCEPT !.navigator.there = TRUE, !.navigator.platform = "Linux x86_64"]
    [] OTHER -> s

\* Run, after the snapshot of its mode has been made.
Run(p, s) == [err |-> FALSE, id |-> p.id, signals |-> s, result |-> Compute(Evaluate(p, s))]

\* report.go: the closing line, and the exit code of --ci.
SaysCoherent(result) == result.CriticalFails = 0 /\ AtLeast(result, 95)
CIExitCode(result, minScore) ==
  IF result.CriticalFails > 0 \/ ~AtLeast(result, minScore) THEN 1 ELSE 0

-----------------------------------------------------------------------------
(* capture: InferFromUA, FromHTTP, ToProfile                               *)

VersionIn(ua, word) == IF Says(ua, word) THEN (CHOOSE w \in ua : w[1] = word)[2] ELSE 0

\* The first of these words that a User-Agent says, or "".
FirstSaid(ua, words) ==
  LET said == {i \in DOMAIN words : Says(ua, words[i])}
  IN IF said = {} THEN "" ELSE words[Min(said)]

\* Safari is what says Version and does not say Chrome.
InferFromUA(ua) ==
  LET webkit   == Says(ua, "safari") /\ ~Says(ua, "chrome")
      product  == FirstSaid(ua, <<"edg", "opr", "firefox", "crios", IF webkit THEN "version" ELSE "chrome">>)
      platform == FirstSaid(ua, <<"android", "iphone", "mac os x", "linux">>)
  IN [platform |-> CASE platform = "iphone" -> "ios" [] platform = "mac os x" -> "macos"
                     [] platform = "" -> "windows" [] OTHER -> platform,
      browser  |-> CASE product = "edg" -> "edge" [] product = "opr" -> "opera"
                     [] product = "firefox" -> "firefox" [] product = "version" -> "safari"
                     [] OTHER -> "chrome",
      version  |-> IF product = "" THEN 131 ELSE VersionIn(ua, product)]

\* The first of these products, or all of the User-Agent.
guessPattern(ua) ==
  LET product == FirstSaid(ua, <<"crios", "edg", "opr", "chrome", "firefox", "version">>)
  IN IF product = "" THEN ua ELSE {<<product, VersionIn(ua, product)>>}

guessUTLS(browser) ==
  CASE browser = "firefox" -> <<"firefox", 133>> [] browser = "safari" -> <<"safari", 18>>
    [] OTHER -> <<"chrome", 131>>

SettingValues(table, push, concurrent, window, frame, list) ==
  [HEADER_TABLE_SIZE |-> table, ENABLE_PUSH |-> push, MAX_CONCURRENT_STREAMS |-> concurrent,
   INITIAL_WINDOW_SIZE |-> window, MAX_FRAME_SIZE |-> frame, MAX_HEADER_LIST_SIZE |-> list]

defaultHTTP2(browser) ==
  CASE browser = "firefox" -> SettingValues(65536, 0, 100, 131072, 16384, 0)
    [] browser = "safari"  -> SettingValues(4096, 0, 100, 2097152, 16384, 0)
    [] OTHER -> SettingValues(65536, 0, 1000, 6291456, 16384, 262144)

\* mutant: the preset is the browser's guess
PresetByBrowser(s, browser) == guessUTLS(browser)

\* Chrome for iOS is given Safari's hello, whatever was observed.
CapturedPreset(s, browser) ==
  IF Says(s.ua, "crios") THEN <<"safari_ios", 18>>
  ELSE IF s.tls.preset # NoPreset THEN s.tls.preset ELSE guessUTLS(browser)

SecFetch == {"sec-fetch-site", "sec-fetch-mode", "sec-fetch-user", "sec-fetch-dest"}

Default(v, fallback) == IF v = "" THEN fallback ELSE v

\* in is the JSON session: what it does not say is inferred.
ToProfile(in) ==
  LET s       == in.snapshot
      meta    == InferFromUA(s.ua)
      browser == Default(in.browser, meta.browser)
  IN [id |-> in.id, named |-> in.id # NoId, browser |-> browser,
      platform |-> Default(in.platform, meta.platform),
      major |-> IF in.version = 0 THEN meta.version ELSE in.version,
      ua |-> s.ua, pattern |-> guessPattern(s.ua), mode |-> "contains",
      brands |-> s.brands, hint |-> s.hint, mobile |-> s.mobile,
      order |-> s.order, accept |-> s.accept, encoding |-> s.encoding, language |-> s.language,
      required |-> [h \in SecFetch \cap DOMAIN s.headers |-> s.headers[h]],
      forbidden |-> {"x-selenium", "x-webdriver"}, upgrade |-> FALSE,
      primary |-> Default(s.language, "en-US"),
      alpn |-> <<Default(s.tls.alpn, "h2"), "http/1.1">>, minVersion |-> 12, maxVersion |-> 13,
      preset |-> CapturedPreset(s, browser),
      settings |-> IF s.h2.there THEN s.h2.settings ELSE defaultHTTP2(browser),
      navigator |-> s.navigator, webgl |-> s.webgl]

\* What FromHTTP makes of a request to the probe and the payload posted with it.
FromHTTP(id, s) ==
  LET meta == InferFromUA(s.ua)
  IN [id |-> IF id = NoId THEN <<meta.browser, meta.version, meta.platform, "captured">> ELSE id,
      browser |-> meta.browser, platform |-> meta.platform, version |-> meta.version,
      snapshot |-> s]
-----------------------------------------------------------------------------
(* adapters: an export names a profile by keys of its own and reports the  *)
(* signals it has.                                                         *)

\* ResolveProfileID: the first key of the adapter's map.
ByKey(map, keys) ==
  LET known == SelectSeq(keys, LAMBDA k : k \in DOMAIN map)
  IN IF known = <<>> THEN NoId ELSE map[Head(known)]

\* playwright's inferFromUA; Android is on phones, and iPads are iPhones.
inferFromUA(ua) ==
  LET mac    == Says(ua, "mac os x")
      safari == mac /\ Says(ua, "version") /\ ~Says(ua, "chrome")
      product == FirstSaid(ua, <<"edg", "firefox", "opr", "crios", "iphone">>)
      platform == FirstSaid(ua, <<"android", "linux", "mac os x", "windows nt">>)
      word == IF product # "" THEN product ELSE IF safari THEN "version" ELSE platform
  IN CASE word = "edg"     -> <<"edge", 131, IF mac THEN "macos" ELSE "windows">>
       [] word = "firefox" ->
            <<"firefox", 133, IF mac THEN "macos" ELSE IF Says(ua, "linux") THEN "linux" ELSE "windows">>
       [] word = "opr"     -> <<"opera", 116, "windows">>
       [] word = "crios"   -> <<"chrome", 131, "ios">>
       [] word = "iphone"  -> <<"safari", 18, "ios">>
       [] word = "version" -> <<"safari", 18, "macos">>
       [] word = "mac os x"   -> <<"chrome", 131, "macos">>
       [] word = "windows nt" -> <<"chrome", 131, "windows">>
       [] word \in {"android", "linux"} -> <<"chrome", 131, word>>
       [] OTHER -> NoId

ResolveProfileID(adapter, e) ==
  LET OrInferred(id) == IF adapter = "playwright" /\ id = NoId THEN inferFromUA(e.signals.ua) ELSE id
  IN IF adapter = "snapshot" THEN NoId ELSE OrInferred(ByKey(PresetMap[adapter], e.keys))

\* playwright's guessUTLS
PresetOfId(id) ==
  IF id = NoId THEN <<"chrome", 131>>
  ELSE CASE id[1] = "firefox" -> <<"firefox", 133>>
         [] id[1] = "safari"  -> IF id[3] = "ios" THEN <<"safari_ios", 18>> ELSE <<"safari", 18>>
         [] OTHER             -> <<"chrome", 131>>

\* What an adapter keeps: no one the settings, only playwright JavaScript,
\* which has its TLS from the profile's id.
ToSnapshot(adapter, e, id) ==
  LET s == e.signals
      kept == [s EXCEPT !.h2 = NoH2, !.navigator = NoNavigator, !.webgl = NoWebGL]
  IN CASE adapter = "snapshot"   -> s
       [] adapter = "httpcloak"  -> kept
       [] adapter = "curl"       ->
            [kept EXCEPT !.tls = [NoTLS EXCEPT !.there = TRUE, !.alpn = s.tls.alpn, !.ja3 = s.tls.ja3]]
       [] adapter = "playwright" ->
            [kept EXCEPT !.tls = [NoTLS EXCEPT !.there = TRUE, !.preset = PresetOfId(id)],
                         !.navigator = s.navigator, !.webgl = s.webgl]

\* LoadExport wants a User-Agent or a header; another adapter is an error.
LoadSnapshot(adapter, e) ==
  LET Loaded(id) == [ok |-> TRUE, id |-> id, snapshot |-> ToSnapshot(adapter, e, id)]
  IN IF \/ adapter \notin {"snapshot", "httpcloak", "curl", "playwright"}
        \/ e.signals.ua = {} /\ DOMAIN e.signals.headers = {}
     THEN [ok |-> FALSE]
     ELSE Loaded(ResolveProfileID(adapter, e))

\* The profile asked for, or the export's; the snapshot is the export's.
ScanExport(adapter, e, dir, override) ==
  LET With(found, loaded) ==
        IF ~found.ok THEN [ok |-> FALSE]
        ELSE [ok |-> TRUE, profile |-> found.profile, snapshot |-> loaded.snapshot]
      Of(loaded) ==
        IF ~loaded.ok \/ (override = NoId /\ loaded.id = NoId) THEN [ok |-> FALSE]
        ELSE With(FindByID(dir, IF override # NoId THEN override ELSE loaded.id), loaded)
  IN Of(LoadSnapshot(adapter, e))

-----------------------------------------------------------------------------
(* compare.go                                                              *)

\* What is compared, with its severity, as it is printed.
tlsStr(tls) == <<tls.version, tls.alpn, tls.preset, tls.ja3>>
h2Str(h2) ==
  IF h2.there
  THEN <<h2.settings.HEADER_TABLE_SIZE, h2.settings.MAX_CONCURRENT_STREAMS, h2.settings.INITIAL_WINDOW_SIZE>>
  ELSE <<>>
jsNavStr(n)  == IF n.there THEN <<n.platform, n.vendor, n.webdriver>> ELSE <<>>
jsWebGLStr(w) == IF w.there THEN <<w.vendor, w.renderer>> ELSE <<>>

LayerDiffs(a, b) ==
  {d \in {<<"user_agent", "critical">>, <<"sec_ch_ua", "high">>, <<"sec_ch_ua_platform", "critical">>,
          <<"sec_ch_ua_mobile", "medium">>, <<"accept_language", "medium">>, <<"accept", "low">>,
          <<"accept_encoding", "low">>, <<"tls", "critical">>, <<"http2", "high">>,
          <<"navigator", "critical">>, <<"webgl", "medium">>} :
     CASE d[1] = "user_agent"         -> a.ua # b.ua
       [] d[1] = "sec_ch_ua"          -> a.brands # b.brands
       [] d[1] = "sec_ch_ua_platform" -> a.hint # b.hint
       [] d[1] = "sec_ch_ua_mobile"   -> a.mobile # b.mobile
       [] d[1] = "accept_language"    -> a.language # b.language
       [] d[1] = "accept"             -> a.accept # b.accept
       [] d[1] = "accept_encoding"    -> a.encoding # b.encoding
       [] d[1] = "tls"                -> tlsStr(a.tls) # tlsStr(b.tls)
       [] d[1] = "http2"              -> h2Str(a.h2) # h2Str(b.h2)
       [] d[1] = "navigator"          -> jsNavStr(a.navigator) # jsNavStr(b.navigator)
       [] d[1] = "webgl"              -> jsWebGLStr(a.webgl) # jsWebGLStr(b.webgl)}

\* A snapshot that contradicts itself.
crossLayerNote(s) ==
  /\ s.ua # {}
  /\ \/ s.hint = "windows" /\ ~Says(s.ua, "windows nt")
     \/ s.hint = "linux" /\ ~Says(s.ua, "linux")
     \/ Says(s.ua, "firefox") /\ s.brands # {}
     \/ Says(s.ua, "chrome") /\ s.brands # {} /\ ~ChromiumBrands(s.brands)
     \/ s.tls.there /\ Says(s.ua, "firefox") /\ s.tls.preset[1] = "chrome"
     \/ s.tls.there /\ Says(s.ua, "chrome") /\ s.tls.preset[1] = "firefox"
     \/ s.navigator.there /\ s.navigator.webdriver = "true"

browserFamily(ua) ==
  LET product == FirstSaid(ua, <<"firefox", "edg", "chrome", "safari">>)
  IN CASE product = "edg"    -> "edge"
       [] product = "safari" -> IF Says(ua, "version") THEN "safari" ELSE ""
       [] OTHER              -> product

crossBetween(a, b) ==
  browserFamily(a.ua) # "" /\ browserFamily(b.ua) # "" /\ browserFamily(a.ua) # browserFamily(b.ua)

\* compare.Snapshots
Snapshots(a, b) ==
  LET diffs == LayerDiffs(a, b)
               \cup {d \in {<<"cross_layer.a", "critical">>} : crossLayerNote(a)}
               \cup {d \in {<<"cross_layer.b", "critical">>} : crossLayerNote(b)}
               \cup {d \in {<<"cross_export", "critical">>} : crossBetween(a, b)}
  IN [Diffs |-> diffs, Critical |-> Cardinality({d \in diffs : d[2] = "critical"}),
      Coherent |-> diffs = {}]
=============================================================================
