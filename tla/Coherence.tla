------------------------------ MODULE Coherence ------------------------------
(***************************************************************************)
(* internal/rules and internal/score: the rules that hold a snapshot of a  *)
(* client's signals against a profile, and the score of what they find.    *)
(*                                                                         *)
(* A User-Agent is the set of its products and platform words, each with   *)
(* its version or 0; a pattern is a part of one.  Sec-Ch-Ua is a set of    *)
(* brands with their versions.  Both are empty when not sent, other texts  *)
(* are "".  An Accept header is its first item, an Accept-Language its     *)
(* first locale.  A uTLS preset is a family and a version.  TLS, HTTP/2,   *)
(* navigator and WebGL observations say whether they are there.            *)
(***************************************************************************)
EXTENDS Integers, Sequences, FiniteSets, SequencesExt

NoPreset    == <<"", 0>>
NoTLS       == [there |-> FALSE, version |-> 0, alpn |-> "", preset |-> NoPreset, ja3 |-> ""]
NoH2        == [there |-> FALSE, wire |-> FALSE, present |-> {}, settings |-> <<>>]
NoNavigator == [there |-> FALSE, platform |-> "", vendor |-> "", webdriver |-> "unset"]
NoWebGL     == [there |-> FALSE, vendor |-> {}, renderer |-> {}, exact |-> FALSE]

Says(ua, word) == \E w \in ua : w[1] = word
Branded(brands, name) == \E b \in brands : b[1] = name

\* strings.Contains(lower(secCHUA), "chrome") or (..., "chromium")
ChromiumBrands(brands) == \E b \in brands : b[1] \in {"Google Chrome", "Chromium"}

-----------------------------------------------------------------------------
(* Findings                                                                *)

Finding(id, severity, weight, applies, passed) ==
  [id |-> id, severity |-> severity, weight |-> weight, skipped |-> ~applies,
   passed |-> applies => passed]

-----------------------------------------------------------------------------
(* User-Agent and client hints                                             *)

matchUserAgent(pattern, ua, mode) ==
  pattern # {} /\ IF mode = "exact" THEN ua = pattern ELSE pattern \subseteq ua

userAgentPatternRule(p, s) ==
  Finding("ua.pattern", "critical", 15, TRUE, matchUserAgent(p.pattern, s.ua, p.mode))

\* What is compared when the browser is not Chromium's is the text between the
\* first two quotes that are left: any list of brands has it.
secCHUAVersionRule(p, s) ==
  Finding("hints.sec_ch_ua", "high", 12, p.brands # {},
    \/ s.brands = p.brands
    \/ CASE p.browser \in {"chrome", "edge"} ->
              \E b \in {"Google Chrome", "Chromium"} : <<b, p.major>> \in s.brands
         [] p.browser = "opera" -> \E b \in {"Opera", "Chromium"} : Branded(s.brands, b)
         [] OTHER -> s.brands # {})

secCHUAPlatformRule(p, s) ==
  Finding("hints.platform", "high", 10, p.hint # "", s.hint = p.hint)

secCHUAMobileRule(p, s) ==
  Finding("hints.mobile", "medium", 8, p.mobile # "", s.mobile = p.mobile)

platformConsistent(ua, platform) ==
  CASE platform = "windows" -> Says(ua, "windows nt")
    [] platform = "macos"   -> Says(ua, "mac os x")
    [] platform = "linux"   -> Says(ua, "linux") /\ ~Says(ua, "android")
    [] platform = "android" -> Says(ua, "android")
    [] platform = "ios"     -> Says(ua, "iphone")
    [] OTHER -> FALSE

userAgentPlatformConsistencyRule(p, s) ==
  Finding("cross.ua_platform", "critical", 14, s.hint # "" /\ s.ua # {},
          platformConsistent(s.ua, s.hint))

browserConsistent(ua, brands, browser) ==
  CASE browser \in {"chrome", "edge"} ->
         /\ Says(ua, "crios") \/ Says(ua, "chrome")
         /\ (Says(ua, "crios") /\ brands = {}) \/ ChromiumBrands(brands)
    [] browser = "opera" ->
         Says(ua, "opr") /\ (Branded(brands, "Opera") \/ Branded(brands, "Chromium"))
    [] browser = "firefox" -> Says(ua, "firefox") /\ brands = {}
    [] browser = "safari" -> Says(ua, "safari") /\ ~Says(ua, "chrome") /\ ~Says(ua, "crios")
    [] OTHER -> TRUE

userAgentBrowserConsistencyRule(p, s) ==
  Finding("cross.ua_browser", "critical", 14, s.brands # {} /\ s.ua # {},
          browserConsistent(s.ua, s.brands, p.browser))

-----------------------------------------------------------------------------
(* Headers                                                                 *)

\* A profile's required value "" asks for the header only.
requiredHeadersRule(p, s) ==
  Finding("headers.required", "high", 10, TRUE,
    \A h \in DOMAIN p.required :
      h \in DOMAIN s.headers /\ (p.required[h] = "" \/ s.headers[h] = p.required[h]))

forbiddenHeadersRule(p, s) ==
  Finding("headers.forbidden", "critical", 10, TRUE, p.forbidden \cap DOMAIN s.headers = {})

\* orderSimilarity: the headers that come later in the profile's order than
\* all that were matched before.
Matched(expected, actual) ==
  LET known == SelectSeq(actual, LAMBDA h : Contains(expected, h))
      At == [h \in Range(known) |-> SelectLastInSeq(expected, LAMBDA x : x = h)]
  IN Cardinality({i \in DOMAIN known : \A j \in 1..(i - 1) : At[known[j]] < At[known[i]]})

headerOrderRule(p, s) ==
  Finding("headers.order", "medium", 8, p.order # <<>> /\ s.order # <<>>,
          10 * Matched(p.order, s.order) >= 6 * Len(p.order))

acceptEncodingRule(p, s) ==
  Finding("headers.accept_encoding", "low", 4, p.encoding # "", s.encoding = p.encoding)

acceptRule(p, s) ==
  Finding("headers.accept", "low", 4, p.accept # "", s.accept = p.accept)

acceptLanguageRule(p, s) ==
  Finding("accept_language.primary", "medium", 6, p.primary # "", s.language = p.primary)

-----------------------------------------------------------------------------
(* TLS and HTTP/2                                                          *)

tlsALPNRule(p, s) ==
  Finding("tls.alpn", "high", 10, s.tls.there /\ p.alpn # <<>>, Contains(p.alpn, s.tls.alpn))

\* Versions are 10 to 13; a label that names none of them is 1, none is 0.
tlsVersionInRange(got, min, max) ==
  \/ got = 1
  \/ (min < 10 \/ min <= got) /\ (max < 10 \/ got <= max)

tlsVersionRule(p, s) ==
  Finding("tls.version", "medium", 6, s.tls.there /\ s.tls.version # 0,
          tlsVersionInRange(s.tls.version, p.minVersion, p.maxVersion))

\* A note on the profile's preset: it never fails and weighs nothing.
PresetNote(preset) ==
  preset \in {<<"chrome", 132>>, <<"firefox", 133>>, <<"safari", 18>>, <<"safari_ios", 18>>, <<"edge", 106>>}

tlsPresetApproximationRule(p, s) ==
  Finding("tls.preset_approximate", "info", 0, PresetNote(p.preset), TRUE)

SettingNames == {"HEADER_TABLE_SIZE", "ENABLE_PUSH", "MAX_CONCURRENT_STREAMS",
                 "INITIAL_WINDOW_SIZE", "MAX_FRAME_SIZE", "MAX_HEADER_LIST_SIZE"}

\* What was read from the wire says which settings were there.
HasSetting(h2, name) == h2.wire => name \in h2.present

http2SettingsRule(p, s) ==
  LET seen == {n \in SettingNames : HasSetting(s.h2, n)}
  IN Finding("http2.settings", "high", 12, s.h2.there,
             seen # {} /\ \A n \in seen : s.h2.settings[n] = p.settings[n])

chromiumTLSPreset(preset) == preset[1] \in {"chrome", "edge"}
iosTLSPreset(preset)      == preset[1] \in {"safari", "safari_ios", "ios"}

\* mutant: what was observed is not looked at
PresetExpected(p, s) == p.preset

\* The observed preset, or the profile's when none was.
PresetOf(p, s) == IF s.tls.preset = NoPreset THEN p.preset ELSE s.tls.preset

\* Chrome for iOS is a WebKit browser.
crossLayerChromeRule(p, s) ==
  Finding("cross.chrome_tls_ua", "critical", 12,
    p.browser \in {"chrome", "edge", "opera"} /\ s.tls.there,
    IF Says(s.ua, "crios") \/ p.platform = "ios"
    THEN Says(s.ua, "crios") /\ (iosTLSPreset(p.preset) \/ iosTLSPreset(s.tls.preset))
    ELSE /\ \E w \in {"chrome", "edg", "opr"} : Says(s.ua, w)
         /\ chromiumTLSPreset(PresetOf(p, s)))

crossLayerFirefoxRule(p, s) ==
  Finding("cross.firefox_consistency", "critical", 12, p.browser = "firefox",
          Says(s.ua, "firefox") /\ s.brands = {})

crossLayerSafariRule(p, s) ==
  Finding("cross.safari_consistency", "critical", 12, p.browser = "safari",
    /\ Says(s.ua, "safari") /\ Says(s.ua, "version")
    /\ ~Says(s.ua, "chrome") /\ ~Says(s.ua, "crios")
    /\ s.tls.there => iosTLSPreset(PresetOf(p, s)))

-----------------------------------------------------------------------------
(* JavaScript                                                              *)

jsNavPair(p, s) == p.navigator.there /\ s.navigator.there

jsNavigatorPlatformRule(p, s) ==
  Finding("js.navigator_platform", "high", 8,
    jsNavPair(p, s) /\ p.navigator.platform # "" /\ s.navigator.platform # "",
    s.navigator.platform = p.navigator.platform)

jsNavigatorVendorRule(p, s) ==
  Finding("js.navigator_vendor", "medium", 6,
    jsNavPair(p, s) /\ (p.navigator.vendor # "" \/ p.browser = "firefox"),
    s.navigator.vendor = p.navigator.vendor)

\* Without an expectation, only "true" is a finding.
jsNavigatorWebdriverRule(p, s) ==
  LET want == p.navigator.webdriver
      got  == s.navigator.webdriver
  IN Finding("js.navigator_webdriver", "critical", 10,
             got # "unset" /\ (want # "unset" \/ got = "true"), got = want)

matchText(expected, actual, exact) ==
  IF exact THEN actual = expected ELSE expected \subseteq actual

jsWebGLRule(p, s) ==
  Finding("js.webgl_vendor_renderer", "medium", 8,
    p.webgl.there /\ s.webgl.there /\ (p.webgl.vendor # {} \/ p.webgl.renderer # {}),
    /\ p.webgl.vendor = {} \/ matchText(p.webgl.vendor, s.webgl.vendor, p.webgl.exact)
    /\ p.webgl.renderer = {} \/ matchText(p.webgl.renderer, s.webgl.renderer, p.webgl.exact))

\* mutant: any platform that is known
AnyNavigator(nav, ua, hint, platform) == nav \in {"Win32", "MacIntel", "Linux x86_64", "iPhone"}

\* One word for the platform is enough: of User-Agent, hint and profile.
navigatorPlatformConsistent(nav, ua, hint, platform) ==
  CASE nav = "Win32"    -> Says(ua, "windows nt") \/ "windows" \in {hint, platform}
    [] nav = "MacIntel" -> Says(ua, "mac os x") \/ "macos" \in {hint, platform} \/ platform = "ios"
    [] nav = "Linux armv81" \/ (nav = "Linux x86_64" /\ Says(ua, "android")) ->
         Says(ua, "android") \/ "android" \in {hint, platform}
    [] nav = "Linux x86_64" /\ ~Says(ua, "android") -> Says(ua, "linux") \/ "linux" \in {hint, platform}
    [] nav = "iPhone" -> Says(ua, "iphone") \/ platform = "ios"
    [] OTHER -> FALSE

crossJSPlatformRule(p, s) ==
  Finding("cross.js_ua_platform", "critical", 12,
    s.navigator.there /\ s.navigator.platform # "",
    navigatorPlatformConsistent(s.navigator.platform, IF s.ua = {} THEN p.ua ELSE s.ua,
                                s.hint, p.platform))

-----------------------------------------------------------------------------

\* DefaultRules, as Evaluate runs them.
Evaluate(p, s) ==
  {userAgentPatternRule(p, s), secCHUAVersionRule(p, s), secCHUAPlatformRule(p, s),
   secCHUAMobileRule(p, s), userAgentPlatformConsistencyRule(p, s),
   userAgentBrowserConsistencyRule(p, s), requiredHeadersRule(p, s), forbiddenHeadersRule(p, s),
   headerOrderRule(p, s), acceptEncodingRule(p, s), acceptRule(p, s), acceptLanguageRule(p, s),
   tlsALPNRule(p, s), tlsVersionRule(p, s), tlsPresetApproximationRule(p, s),
   http2SettingsRule(p, s), jsNavigatorPlatformRule(p, s), jsNavigatorVendorRule(p, s),
   jsNavigatorWebdriverRule(p, s), jsWebGLRule(p, s), crossJSPlatformRule(p, s),
   crossLayerChromeRule(p, s), crossLayerFirefoxRule(p, s), crossLayerSafariRule(p, s)}

Weigh(findings) == MapThenSumSet(LAMBDA f : f.weight, findings)

\* Whether pct is at least n.
AtLeast(result, n) == 100 * result.Score >= n * result.MaxScore

gradeFor(result) ==
  IF result.CriticalFails > 0 THEN "F"
  ELSE IF AtLeast(result, 95) THEN "A" ELSE IF AtLeast(result, 85) THEN "B"
  ELSE IF AtLeast(result, 70) THEN "C" ELSE IF AtLeast(result, 55) THEN "D" ELSE "F"

\* score.Compute: what was skipped counts neither way.
Compute(findings) ==
  LET counted == {f \in findings : ~f.skipped /\ ~(f.weight = 0 /\ f.severity = "info")}
      failed  == {f \in counted : ~f.passed}
      result  == [Score |-> Weigh(counted \ failed), MaxScore |-> Weigh(counted),
                  Failed |-> {f.id : f \in failed},
                  CriticalFails |-> Cardinality({f \in failed : f.severity = "critical"})]
  IN [Score |-> result.Score, MaxScore |-> result.MaxScore, Failed |-> result.Failed,
      CriticalFails |-> result.CriticalFails, Grade |-> gradeFor(result)]
=============================================================================
